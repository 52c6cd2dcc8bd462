--------------------------- MODULE NocDriverProofs ---------------------------
(***************************************************************************)
(* Machine-checked proofs about NocDriver, for every number of files and   *)
(* windows, every set of targets, every INT_MAX and every environment.     *)
(***************************************************************************)
EXTENDS NocDriver, FiniteSetTheorems, TLAPS

\* find_first_zero_bit returns a window of the set it was given, and that set
\* consists of windows of the requested kind that are not in use.
LEMMA FirstZeroIn ==
  ASSUME NEW S, NEW w \in FirstZero(S) PROVE w \in S
BY DEF FirstZero

LEMMA KindIsWindow ==
  ASSUME NEW k, NEW w \in OfKind(k) PROVE w \in Windows
BY DEF OfKind

\* Resetting registers keeps them registers.
LEMMA ResetRegsType ==
  ASSUME NEW S, regs \in [Windows -> Targets]
  PROVE  ResetRegs(S) \in [Windows -> Targets]
BY DEF ResetRegs, Targets

-----------------------------------------------------------------------------
\* The state after module load is well typed.
LEMMA TypeInit == Init => TypeOK
<1> SUFFICES ASSUME Init PROVE TypeOK
  OBVIOUS
<1>1. NoCounts \in [Windows -> 0..IntMax] /\ NoCounts \in [Windows -> 0..MaxVmas]
  BY BoundAssumption DEF NoCounts
<1>2. regs \in [Windows -> Targets]
  BY DEF Init, Targets
<1> QED BY <1>1, <1>2 DEF Init, TypeOK

\* No handler, probe stage or kernel event breaks the types.
LEMMA TypeStep == TypeOK /\ [Next]_vars => TypeOK'
<1> SUFFICES ASSUME TypeOK, [Next]_vars PROVE TypeOK'
  OBVIOUS
<1> USE BoundAssumption
<1>1. CASE ProbeStart
  BY <1>1 DEF ProbeStart, TypeOK, fileVars
<1>2. ASSUME NEW w \in Windows, ProbeScanWindow(w) PROVE TypeOK'
  BY <1>2 DEF ProbeScanWindow, TypeOK, fileVars
<1>3. ASSUME NEW w \in Windows, ProbeInitWindow(w) PROVE TypeOK'
  <2>1. w \in OfKind("2M")
    BY <1>3, FirstZeroIn DEF ProbeInitWindow
  <2> QED BY <1>3, <2>1 DEF ProbeInitWindow, TypeOK, fileVars
<1>4. CASE ProbeFails
  BY <1>4 DEF ProbeFails, TypeOK, NoCounts, LiveFile
<1>5. ASSUME NEW t \in TelemetryTargets, NEW ok \in BOOLEAN,
             ProbeInitHwmon(t, ok)
      PROVE  TypeOK'
  BY <1>5 DEF ProbeInitHwmon, AimDriverWindow, configure_window, TypeOK,
     fileVars, Targets, OfKind
<1>6. CASE RemoveDealloc
  BY <1>6, ResetRegsType DEF RemoveDealloc, TypeOK, fileVars
<1>7. CASE RemoveDone
  BY <1>7 DEF RemoveDone, TypeOK, fileVars
<1>8. ASSUME NEW t \in TelemetryTargets, HwmonRead(t) PROVE TypeOK'
  BY <1>8 DEF HwmonRead, AimDriverWindow, configure_window, TypeOK,
     fileVars, probeVars, Targets, OfKind
<1>9. ASSUME NEW f \in Files, FileStep(f) PROVE TypeOK'
  <2>1. CASE Open(f)
    BY <2>1 DEF Open, TypeOK, probeVars
  <2>2. CASE Close(f)
    BY <2>2 DEF Close, TypeOK, probeVars
  <2>3. CASE Release(f)
    BY <2>3, ResetRegsType DEF Release, TypeOK, probeVars, NoCounts
  <2>4. ASSUME NEW k \in {"2M", "128G"}, NEW w \in Windows,
               AllocWindow(f, k, w)
        PROVE  TypeOK'
    BY <2>4 DEF AllocWindow, TypeOK, probeVars
  <2>5. ASSUME NEW k \in {"2M", "128G"}, NEW w \in Windows,
               AllocFault(f, k, w)
        PROVE  TypeOK'
    BY <2>5, ResetRegsType DEF AllocFault, TypeOK, probeVars, fileVars
  <2>6. ASSUME NEW w \in Windows, NEW t \in UserTargets, ConfigWindow(f, w, t)
        PROVE  TypeOK'
    BY <2>6 DEF ConfigWindow, configure_window, TypeOK, probeVars, fileVars,
       Targets
  <2>7. ASSUME NEW w \in Windows, DeallocWindow(f, w) PROVE TypeOK'
    BY <2>7, ResetRegsType DEF DeallocWindow, TypeOK, probeVars
  <2>8. ASSUME NEW w \in Windows, NEW ok \in BOOLEAN, Mmap(f, w, ok)
        PROVE  TypeOK'
    BY <2>8 DEF Mmap, TypeOK, probeVars
  <2>9. ASSUME NEW w \in Windows, VmaClose(f, w) PROVE TypeOK'
    BY <2>9 DEF VmaClose, TypeOK, probeVars
  <2>10. ASSUME NEW w \in Windows, VmaCopy(f, w) PROVE TypeOK'
    BY <2>10 DEF VmaCopy, TypeOK, probeVars
  <2> QED
    BY <1>9, <2>1, <2>2, <2>3, <2>4, <2>5, <2>6, <2>7, <2>8, <2>9, <2>10
       DEF FileStep
<1>10. CASE UNCHANGED vars
  BY <1>10 DEF vars, probeVars, fileVars, TypeOK
<1> QED
  BY <1>1, <1>2, <1>3, <1>4, <1>5, <1>6, <1>7, <1>8, <1>9, <1>10
     DEF Next, ProbeStep, RemoveStep

\* Every reachable state of the driver is well typed: registers hold targets,
\* the driver window is a 2M window, and no mmap counter leaves 0..INT_MAX.
THEOREM TypeCorrect == Spec => []TypeOK
BY TypeInit, TypeStep, PTL DEF Spec

-----------------------------------------------------------------------------
(***************************************************************************)
(* Ownership.  ExclusiveOwnership alone is not inductive: ALLOC consults   *)
(* the allocated bitmap, so it needs "owned implies allocated", and Open   *)
(* needs the fresh l2cpu_noc_fd to be empty.  OwnershipInv is the          *)
(* conjunction; it holds in every environment.                             *)
(***************************************************************************)

\* A window that ALLOC picks is not marked allocated.
LEMMA AllocPicksFree ==
  ASSUME NEW k, NEW w, w \in FirstZero(OfKind(k) \ InUse)
  PROVE  w \in Windows /\ w \notin allocated /\ w \notin reserved
BY FirstZeroIn, KindIsWindow DEF InUse

\* OwnershipInv holds when the module is loaded.
LEMMA OwnershipInit == Init => OwnershipInv
<1> SUFFICES ASSUME Init PROVE OwnershipInv
  OBVIOUS
<1>1. TypeOK
  BY TypeInit
<1>2. \A f \in Files : file[f] = "none" /\ ~ LiveFile(f)
  BY DEF Init, LiveFile
<1>3. IdleFilesEmpty
  BY DEF Init, IdleFilesEmpty
<1>4. OwnedIsAllocated /\ ExclusiveOwnership
  BY <1>2 DEF OwnedIsAllocated, ExclusiveOwnership
<1> QED BY <1>1, <1>3, <1>4 DEF OwnershipInv

\* Every step keeps OwnershipInv.
LEMMA OwnershipStep == OwnershipInv /\ [Next]_vars => OwnershipInv'
<1> SUFFICES ASSUME OwnershipInv, [Next]_vars PROVE OwnershipInv'
  OBVIOUS
<1> DEFINE Rest == IdleFilesEmpty /\ OwnedIsAllocated /\ ExclusiveOwnership
<1>t. TypeOK /\ TypeOK'
  BY TypeStep DEF OwnershipInv
<1>r. Rest
  BY DEF OwnershipInv
<1>0. ASSUME UNCHANGED fileVars, allocated \subseteq allocated' PROVE Rest'
  BY <1>0, <1>r DEF fileVars, IdleFilesEmpty, OwnedIsAllocated,
     ExclusiveOwnership, LiveFile
<1>1. ASSUME ProbeStart PROVE Rest'
  BY <1>0, <1>1 DEF ProbeStart
<1>2. ASSUME NEW w \in Windows, ProbeScanWindow(w) PROVE Rest'
  BY <1>0, <1>2 DEF ProbeScanWindow
<1>3. ASSUME NEW w \in Windows, ProbeInitWindow(w) PROVE Rest'
  BY <1>0, <1>3 DEF ProbeInitWindow
<1>4. ASSUME ProbeFails PROVE Rest'
  <2>1. \A f \in Files : ~ LiveFile(f)'
    BY <1>4, <1>t DEF ProbeFails, LiveFile, TypeOK
  <2> QED
    BY <1>4, <2>1 DEF ProbeFails, IdleFilesEmpty, OwnedIsAllocated,
       ExclusiveOwnership
<1>5. ASSUME NEW t \in TelemetryTargets, NEW ok \in BOOLEAN,
             ProbeInitHwmon(t, ok)
      PROVE  Rest'
  BY <1>0, <1>5 DEF ProbeInitHwmon
<1>6. ASSUME RemoveDealloc PROVE Rest'
  <2>1. \A f \in Files : ~ LiveFile(f) /\ ~ LiveFile(f)'
    BY <1>6 DEF RemoveDealloc, LiveFile, fileVars
  <2> QED
    BY <1>6, <1>r, <2>1 DEF RemoveDealloc, fileVars, IdleFilesEmpty,
       OwnedIsAllocated, ExclusiveOwnership
<1>7. ASSUME RemoveDone PROVE Rest'
  BY <1>0, <1>7 DEF RemoveDone
<1>8. ASSUME NEW t \in TelemetryTargets, HwmonRead(t) PROVE Rest'
  BY <1>0, <1>8 DEF HwmonRead
<1>9. ASSUME NEW f \in Files, FileStep(f) PROVE Rest'
  <2>1. CASE Open(f)
    BY <2>1, <1>r, <1>t DEF Open, IdleFilesEmpty, OwnedIsAllocated,
       ExclusiveOwnership, LiveFile, TypeOK, NoCounts
  <2>2. CASE Close(f)
    BY <2>2, <1>r, <1>t DEF Close, IdleFilesEmpty, OwnedIsAllocated,
       ExclusiveOwnership, LiveFile, TypeOK
  <2>3. CASE Release(f)
    <3>1. IdleFilesEmpty'
      BY <2>3, <1>r, <1>t DEF Release, IdleFilesEmpty, LiveFile, TypeOK
    <3>2. OwnedIsAllocated'
      BY <2>3, <1>r, <1>t DEF Release, OwnedIsAllocated, ExclusiveOwnership,
         LiveFile, TypeOK
    <3>3. ExclusiveOwnership'
      BY <2>3, <1>r, <1>t DEF Release, ExclusiveOwnership, LiveFile, TypeOK
    <3> QED BY <3>1, <3>2, <3>3
  <2>4. ASSUME NEW k \in {"2M", "128G"}, NEW w \in Windows,
               AllocWindow(f, k, w)
        PROVE  Rest'
    <3>1. w \notin allocated
      BY <2>4, AllocPicksFree DEF AllocWindow
    <3>2. \A g \in Files : LiveFile(g) => w \notin owned[g]
      BY <3>1, <1>r DEF OwnedIsAllocated
    <3> QED
      BY <2>4, <3>2, <1>r, <1>t DEF AllocWindow, IdleFilesEmpty,
         OwnedIsAllocated, ExclusiveOwnership, LiveFile, TypeOK
  <2>5. ASSUME NEW k \in {"2M", "128G"}, NEW w \in Windows,
               AllocFault(f, k, w)
        PROVE  Rest'
    <3>1. w \notin allocated
      BY <2>5, AllocPicksFree DEF AllocFault
    <3> QED BY <1>0, <2>5, <3>1 DEF AllocFault
  <2>6. ASSUME NEW w \in Windows, NEW t \in UserTargets, ConfigWindow(f, w, t)
        PROVE  Rest'
    BY <1>0, <2>6 DEF ConfigWindow
  <2>7. ASSUME NEW w \in Windows, DeallocWindow(f, w) PROVE Rest'
    <3>1. IdleFilesEmpty' /\ ExclusiveOwnership'
      BY <2>7, <1>r, <1>t DEF DeallocWindow, IdleFilesEmpty,
         ExclusiveOwnership, LiveFile, TypeOK
    <3>2. mapped_count[f][w] = 0
      BY <2>7, <1>t DEF DeallocWindow, Busy, TypeOK
    <3>3. \A g \in Files : g # f /\ LiveFile(g) => w \notin owned[g]
      BY <2>7, <1>r DEF DeallocWindow, ExclusiveOwnership, LiveFile
    <3>4. OwnedIsAllocated'
      BY <2>7, <3>2, <3>3, <1>r, <1>t DEF DeallocWindow, OwnedIsAllocated,
         LiveFile, TypeOK
    <3> QED BY <3>1, <3>4
  <2>8. ASSUME NEW w \in Windows, NEW ok \in BOOLEAN, Mmap(f, w, ok)
        PROVE  Rest'
    BY <2>8, <1>r, <1>t DEF Mmap, IdleFilesEmpty, OwnedIsAllocated,
       ExclusiveOwnership, LiveFile, TypeOK
  <2>9. ASSUME NEW w \in Windows, VmaClose(f, w) PROVE Rest'
    BY <2>9, <1>r, <1>t DEF VmaClose, IdleFilesEmpty, OwnedIsAllocated,
       ExclusiveOwnership, LiveFile, TypeOK
  <2>10. ASSUME NEW w \in Windows, VmaCopy(f, w) PROVE Rest'
    BY <2>10, <1>r, <1>t DEF VmaCopy, IdleFilesEmpty, OwnedIsAllocated,
       ExclusiveOwnership, LiveFile, TypeOK
  <2> QED
    BY <1>9, <2>1, <2>2, <2>3, <2>4, <2>5, <2>6, <2>7, <2>8, <2>9, <2>10
       DEF FileStep
<1>10. ASSUME UNCHANGED vars PROVE Rest'
  BY <1>0, <1>10 DEF vars
<1>11. Rest'
  BY <1>1, <1>2, <1>3, <1>4, <1>5, <1>6, <1>7, <1>8, <1>9, <1>10
     DEF Next, ProbeStep, RemoveStep
<1> QED BY <1>t, <1>11 DEF OwnershipInv

\* In every environment, with any number of files and windows: no window is
\* owned by two live files, and what a file owns or maps is marked allocated,
\* through every interleaving of ALLOC, DEALLOC, mmap, fork, close and probe.
THEOREM Ownership == Spec => [](ExclusiveOwnership /\ OwnedIsAllocated)
<1>1. OwnershipInv => ExclusiveOwnership /\ OwnedIsAllocated
  BY DEF OwnershipInv
<1> QED BY OwnershipInit, OwnershipStep, <1>1, PTL DEF Spec

-----------------------------------------------------------------------------
(***************************************************************************)
(* Mappings.  With l2cpu_vm_ops lacking .open, the counts cover the VMAs   *)
(* only while nothing forks or splits a VMA: the hypothesis below is the   *)
(* exact point at which the driver depends on its users.                   *)
(***************************************************************************)

\* Without fork or VMA splits every VMA stays counted.
LEMMA CountsStep ==
  ASSUME "vma_copy" \notin Env
  PROVE  OwnershipInv /\ CountsCoverVmas /\ [Next]_vars => CountsCoverVmas'
<1> SUFFICES ASSUME OwnershipInv, CountsCoverVmas, [Next]_vars
             PROVE  CountsCoverVmas'
  OBVIOUS
<1>t. TypeOK
  BY DEF OwnershipInv
<1> USE BoundAssumption
<1>0. ASSUME UNCHANGED <<mapped_count, vmas>> PROVE CountsCoverVmas'
  BY <1>0 DEF CountsCoverVmas
<1>1. CASE ProbeStep
  <2>1. CASE ProbeFails
    BY <2>1 DEF ProbeFails, CountsCoverVmas, NoCounts
  <2>2. CASE ProbeStart \/ (\E w \in Windows : ProbeScanWindow(w))
    BY <1>0, <2>2 DEF ProbeStart, ProbeScanWindow, fileVars
  <2>3. CASE \E w \in Windows : ProbeInitWindow(w)
    BY <1>0, <2>3 DEF ProbeInitWindow, fileVars
  <2>4. CASE \E t \in TelemetryTargets, ok \in BOOLEAN : ProbeInitHwmon(t, ok)
    BY <1>0, <2>4 DEF ProbeInitHwmon, fileVars
  <2> QED BY <1>1, <2>1, <2>2, <2>3, <2>4 DEF ProbeStep
<1>2. CASE RemoveStep
  BY <1>0, <1>2 DEF RemoveStep, RemoveDealloc, RemoveDone, fileVars
<1>3. CASE \E t \in TelemetryTargets : HwmonRead(t)
  BY <1>0, <1>3 DEF HwmonRead, fileVars
<1>4. ASSUME NEW f \in Files, FileStep(f) PROVE CountsCoverVmas'
  <2>1. CASE Open(f) \/ Close(f)
    BY <1>0, <2>1 DEF Open, Close
  <2>2. CASE Release(f)
    BY <2>2, <1>t DEF Release, CountsCoverVmas, NoCounts, TypeOK
  <2>3. ASSUME NEW k, NEW w, AllocWindow(f, k, w) \/ AllocFault(f, k, w)
        PROVE  CountsCoverVmas'
    BY <1>0, <2>3 DEF AllocWindow, AllocFault, fileVars
  <2>4. ASSUME NEW w, NEW t, ConfigWindow(f, w, t) PROVE CountsCoverVmas'
    BY <1>0, <2>4 DEF ConfigWindow, fileVars
  <2>5. ASSUME NEW w, DeallocWindow(f, w) PROVE CountsCoverVmas'
    BY <1>0, <2>5 DEF DeallocWindow
  <2>6. ASSUME NEW w \in Windows, NEW ok \in BOOLEAN, Mmap(f, w, ok)
        PROVE  CountsCoverVmas'
    BY <2>6, <1>t DEF Mmap, CountsCoverVmas, TypeOK
  <2>7. ASSUME NEW w \in Windows, VmaClose(f, w) PROVE CountsCoverVmas'
    BY <2>7, <1>t DEF VmaClose, CountsCoverVmas, TypeOK
  <2>8. ASSUME NEW w, VmaCopy(f, w) PROVE CountsCoverVmas'
    BY <2>8 DEF VmaCopy
  <2> QED
    BY <1>4, <2>1, <2>2, <2>3, <2>4, <2>5, <2>6, <2>7, <2>8 DEF FileStep
<1>5. CASE UNCHANGED vars
  BY <1>0, <1>5 DEF vars, fileVars
<1> QED BY <1>1, <1>2, <1>3, <1>4, <1>5 DEF Next

\* If nothing forks or splits a VMA, l2cpu_vma_close never underflows and a
\* mapped window always belongs to the file it was mapped through: DEALLOC and
\* close cannot take it from under a mapping, even after failed remaps, early
\* opens or a module reload.
THEOREM Mappings ==
  ASSUME "vma_copy" \notin Env
  PROVE  Spec => [](MappedImpliesOwned /\ NoUnderflow)
<1>1. Init => CountsCoverVmas
  BY DEF Init, CountsCoverVmas, NoCounts
<1>2. OwnershipInv /\ CountsCoverVmas => MappedImpliesOwned /\ NoUnderflow
  <2> SUFFICES ASSUME OwnershipInv, CountsCoverVmas,
                      NEW f \in Files, NEW w \in Windows,
                      LiveFile(f), vmas[f][w] > 0
               PROVE  w \in owned[f] /\ mapped_count[f][w] > 0
    BY DEF MappedImpliesOwned, NoUnderflow
  <2>1. mapped_count[f][w] > 0
    BY BoundAssumption DEF OwnershipInv, TypeOK, CountsCoverVmas
  <2> QED BY <2>1 DEF OwnershipInv, OwnedIsAllocated
<1> QED BY OwnershipInit, OwnershipStep, CountsStep, <1>1, <1>2, PTL DEF Spec

\* While remaps succeed too, each mmap adds one VMA and one count and each
\* vma_close takes one of both away.
LEMMA ExactStep ==
  ASSUME "vma_copy" \notin Env, "remap_fail" \notin Env
  PROVE  TypeOK /\ mapped_count = vmas /\ [Next]_vars => (mapped_count = vmas)'
<1> SUFFICES ASSUME TypeOK, mapped_count = vmas, [Next]_vars
             PROVE  mapped_count' = vmas'
  OBVIOUS
<1> USE BoundAssumption
<1>0. ASSUME UNCHANGED <<mapped_count, vmas>> PROVE mapped_count' = vmas'
  BY <1>0
<1>1. CASE ProbeStep
  <2>1. CASE ProbeFails
    BY <2>1 DEF ProbeFails
  <2>2. CASE ProbeStart \/ (\E w \in Windows : ProbeScanWindow(w))
    BY <1>0, <2>2 DEF ProbeStart, ProbeScanWindow, fileVars
  <2>3. CASE \E w \in Windows : ProbeInitWindow(w)
    BY <1>0, <2>3 DEF ProbeInitWindow, fileVars
  <2>4. CASE \E t \in TelemetryTargets, ok \in BOOLEAN : ProbeInitHwmon(t, ok)
    BY <1>0, <2>4 DEF ProbeInitHwmon, fileVars
  <2> QED BY <1>1, <2>1, <2>2, <2>3, <2>4 DEF ProbeStep
<1>2. CASE RemoveStep
  BY <1>0, <1>2 DEF RemoveStep, RemoveDealloc, RemoveDone, fileVars
<1>3. CASE \E t \in TelemetryTargets : HwmonRead(t)
  BY <1>0, <1>3 DEF HwmonRead, fileVars
<1>4. ASSUME NEW f \in Files, FileStep(f) PROVE mapped_count' = vmas'
  <2>1. CASE Open(f) \/ Close(f)
    BY <1>0, <2>1 DEF Open, Close
  <2>2. CASE Release(f)
    <3>1. mapped_count[f] = NoCounts
      BY <2>2 DEF Release
    <3> QED BY <2>2, <3>1 DEF Release, TypeOK
  <2>3. ASSUME NEW k, NEW w, AllocWindow(f, k, w) \/ AllocFault(f, k, w)
        PROVE  mapped_count' = vmas'
    BY <1>0, <2>3 DEF AllocWindow, AllocFault, fileVars
  <2>4. ASSUME NEW w, NEW t, ConfigWindow(f, w, t) PROVE mapped_count' = vmas'
    BY <1>0, <2>4 DEF ConfigWindow, fileVars
  <2>5. ASSUME NEW w, DeallocWindow(f, w) PROVE mapped_count' = vmas'
    BY <1>0, <2>5 DEF DeallocWindow
  <2>6. ASSUME NEW w \in Windows, NEW ok \in BOOLEAN, Mmap(f, w, ok)
        PROVE  mapped_count' = vmas'
    <3>1. ok
      BY <2>6 DEF Mmap
    <3> QED BY <2>6, <3>1 DEF Mmap
  <2>7. ASSUME NEW w \in Windows, VmaClose(f, w) PROVE mapped_count' = vmas'
    <3>1. mapped_count[f][w] > 0
      BY <2>7 DEF VmaClose
    <3> QED BY <2>7, <3>1 DEF VmaClose
  <2>8. ASSUME NEW w, VmaCopy(f, w) PROVE mapped_count' = vmas'
    BY <2>8 DEF VmaCopy
  <2> QED
    BY <1>4, <2>1, <2>2, <2>3, <2>4, <2>5, <2>6, <2>7, <2>8 DEF FileStep
<1>5. CASE UNCHANGED vars
  BY <1>0, <1>5 DEF vars, fileVars
<1> QED BY <1>1, <1>2, <1>3, <1>4, <1>5 DEF Next

\* If moreover no remap fails, the count is the number of VMAs, in every
\* interleaving: a window that is no longer mapped can always be deallocated.
\* A failed remap and a copied VMA are the only two ways to lose this.
THEOREM Refcounts ==
  ASSUME "vma_copy" \notin Env, "remap_fail" \notin Env
  PROVE  Spec => []RefcountExact
<1>1. Init => mapped_count = vmas
  BY DEF Init
<1>2. mapped_count = vmas => RefcountExact
  BY DEF RefcountExact
<1> QED BY OwnershipInit, OwnershipStep, ExactStep, <1>1, <1>2, PTL
  DEF Spec, OwnershipInv

-----------------------------------------------------------------------------
(***************************************************************************)
(* Bookkeeping.  FirmwareUntouched needs the scan to be complete before    *)
(* anything is allocated (ProbeOrder), the scan to be right (Classified),  *)
(* and Classified needs every deallocation to reset what it frees, which   *)
(* holds because the allocated bitmap is exactly what is held.             *)
(***************************************************************************)

\* BookkeepingInv holds when the module is loaded.
LEMMA BookkeepingInit == Init => BookkeepingInv
<1> SUFFICES ASSUME Init PROVE BookkeepingInv
  OBVIOUS
<1>1. OwnershipInv
  BY OwnershipInit
<1>2. ProbeOrder /\ DriverWindowDedicated
  BY DEF Init, ProbeOrder, DriverWindowDedicated
<1>3. Classified /\ FirmwareUntouched
  BY DEF Init, Classified, FirmwareUntouched
<1>4. AllocatedIffHeld
  BY DEF Init, AllocatedIffHeld
<1> QED BY <1>1, <1>2, <1>3, <1>4 DEF BookkeepingInv

\* Probe and remove keep the bookkeeping.
LEMMA BookkeepingProbe ==
  ASSUME BookkeepingInv, OwnershipInv', ProbeStep \/ RemoveStep
  PROVE  BookkeepingInv'
<1> USE DEF BookkeepingInv
<1>t. TypeOK /\ TypeOK'
  BY DEF OwnershipInv
<1>i. IdleFilesEmpty
  BY DEF OwnershipInv
<1>e. phase # "live" => \A f \in Files : owned[f] = {}
  BY <1>i DEF ProbeOrder, IdleFilesEmpty, LiveFile
<1>1. CASE ProbeStart
  BY <1>1 DEF ProbeStart, fileVars, ProbeOrder, Classified, FirmwareUntouched,
     AllocatedIffHeld, DriverWindowDedicated
<1>2. ASSUME NEW w \in Windows, ProbeScanWindow(w) PROVE BookkeepingInv'
  <2>1. allocated = {}
    BY <1>2, <1>e DEF ProbeScanWindow, AllocatedIffHeld, ProbeOrder
  <2>2. is_configured(w) <=> w \in firmware
    BY <2>1, TargetAssumption DEF is_configured, Classified, FirmwareUntouched
  <2>3. Classified'
    BY <1>2, <2>2 DEF ProbeScanWindow, Classified
  <2> QED
    BY <1>2, <2>3 DEF ProbeScanWindow, fileVars, ProbeOrder, FirmwareUntouched,
       AllocatedIffHeld, DriverWindowDedicated
<1>3. ASSUME NEW w \in Windows, ProbeInitWindow(w) PROVE BookkeepingInv'
  <2>1. w \notin firmware
    BY <1>3, FirstZeroIn DEF ProbeInitWindow, Classified
  <2>2. allocated = {} /\ allocated' = {w} /\ driver_window' = {w}
    BY <1>3, <1>e DEF ProbeInitWindow, AllocatedIffHeld, ProbeOrder
  <2>3. \A f \in Files : owned'[f] = {}
    BY <1>3, <1>e DEF ProbeInitWindow, fileVars
  <2>4. AllocatedIffHeld' /\ DriverWindowDedicated'
    BY <1>3, <2>2, <2>3 DEF ProbeInitWindow, AllocatedIffHeld,
       DriverWindowDedicated
  <2>5. ProbeOrder'
    BY <1>3, <2>2 DEF ProbeInitWindow, fileVars, ProbeOrder
  <2>6. Classified' /\ FirmwareUntouched'
    BY <1>3, <2>1, <2>2 DEF ProbeInitWindow, Classified, FirmwareUntouched
  <2> QED BY <2>4, <2>5, <2>6
<1>4. CASE ProbeFails
  <2>1. allocated = {} /\ \A f \in Files : file[f] = "none"
    BY <1>4, <1>e DEF ProbeFails, AllocatedIffHeld, ProbeOrder
  <2>2. ProbeOrder'
    BY <1>4, <2>1 DEF ProbeFails, ProbeOrder, LiveFile
  <2>3. AllocatedIffHeld' /\ DriverWindowDedicated'
    BY <1>4 DEF ProbeFails, ProbeOrder, AllocatedIffHeld, DriverWindowDedicated
  <2>4. Classified' /\ FirmwareUntouched'
    BY <1>4, <2>1 DEF ProbeFails, Classified, FirmwareUntouched
  <2> QED BY <2>2, <2>3, <2>4
<1>5. ASSUME NEW t \in TelemetryTargets, NEW ok \in BOOLEAN,
             ProbeInitHwmon(t, ok)
      PROVE  BookkeepingInv'
  <2>1. PICK w \in driver_window : regs' = [regs EXCEPT ![w] = t]
    BY <1>5 DEF ProbeInitHwmon, AimDriverWindow, configure_window
  <2>2. w \in allocated
    BY <1>5 DEF ProbeInitHwmon, DriverWindowDedicated
  <2>3. Classified' /\ FirmwareUntouched'
    BY <1>5, <1>t, <2>1, <2>2 DEF ProbeInitHwmon, Classified,
       FirmwareUntouched, TypeOK
  <2>4. ProbeOrder'
    BY <1>5 DEF ProbeInitHwmon, fileVars, ProbeOrder
  <2>5. AllocatedIffHeld' /\ DriverWindowDedicated'
    BY <1>5 DEF ProbeInitHwmon, fileVars, AllocatedIffHeld,
       DriverWindowDedicated
  <2> QED BY <2>3, <2>4, <2>5
<1>6. CASE RemoveDealloc
  <2>1. \A f \in Files : owned'[f] = {}
    BY <1>6, <1>i DEF RemoveDealloc, fileVars, IdleFilesEmpty, LiveFile
  <2>2. Classified' /\ FirmwareUntouched'
    BY <1>6, <1>t DEF RemoveDealloc, ResetRegs, Classified, FirmwareUntouched,
       TypeOK
  <2>3. ProbeOrder'
    BY <1>6 DEF RemoveDealloc, fileVars, ProbeOrder
  <2>4. AllocatedIffHeld' /\ DriverWindowDedicated'
    BY <1>6, <2>1 DEF RemoveDealloc, AllocatedIffHeld, DriverWindowDedicated
  <2> QED BY <2>2, <2>3, <2>4
<1>7. CASE RemoveDone
  <2>1. Classified' /\ FirmwareUntouched'
    BY <1>7 DEF RemoveDone, Classified, FirmwareUntouched
  <2>2. ProbeOrder'
    BY <1>7 DEF RemoveDone, fileVars, ProbeOrder
  <2>3. AllocatedIffHeld' /\ DriverWindowDedicated'
    BY <1>7 DEF RemoveDone, fileVars, AllocatedIffHeld, DriverWindowDedicated
  <2> QED BY <2>1, <2>2, <2>3
<1> QED
  BY <1>1, <1>2, <1>3, <1>4, <1>5, <1>6, <1>7 DEF ProbeStep, RemoveStep

\* The calls of a file keep the bookkeeping.
LEMMA BookkeepingFile ==
  ASSUME "early_open" \notin Env, BookkeepingInv, OwnershipInv',
         NEW f \in Files, FileStep(f)
  PROVE  BookkeepingInv'
<1> USE DEF BookkeepingInv
<1>t. TypeOK /\ TypeOK'
  BY DEF OwnershipInv
<1>o. ExclusiveOwnership /\ OwnedIsAllocated /\ IdleFilesEmpty
  BY DEF OwnershipInv
<1>w. phase = "live" => \A g \in Files : owned[g] \cap driver_window = {}
  BY DEF DriverWindowDedicated
<1>1. CASE Open(f)
  <2>1. phase = "live"
    BY <1>1 DEF Open, ProbeOrder
  <2>2. ProbeOrder'
    BY <1>1, <2>1 DEF Open, probeVars, ProbeOrder
  <2> QED
    BY <1>1, <2>2 DEF Open, probeVars, Classified, FirmwareUntouched,
       AllocatedIffHeld, DriverWindowDedicated
<1>2. ASSUME file[f] \in {"open", "closed"} PROVE phase = "live"
  BY <1>2 DEF ProbeOrder
<1>3. ASSUME UNCHANGED <<probeVars, regs, allocated, owned>>,
             phase = "live"
      PROVE  BookkeepingInv'
  <2>1. ProbeOrder'
    BY <1>3 DEF probeVars, ProbeOrder
  <2> QED
    BY <1>3, <2>1 DEF probeVars, Classified, FirmwareUntouched,
       AllocatedIffHeld, DriverWindowDedicated
<1>4. CASE Close(f)
  BY <1>2, <1>3, <1>4 DEF Close
<1>5. ASSUME NEW w \in Windows, VmaClose(f, w) \/ VmaCopy(f, w)
      PROVE  BookkeepingInv'
  BY <1>2, <1>3, <1>5 DEF VmaClose, VmaCopy, LiveFile
<1>6. ASSUME NEW w \in Windows, NEW ok \in BOOLEAN, Mmap(f, w, ok)
      PROVE  BookkeepingInv'
  BY <1>2, <1>3, <1>6 DEF Mmap
\* A set of windows that f owns is given up and reset, as DEALLOC and release do.
<1>7. ASSUME NEW S \in SUBSET owned[f], LiveFile(f),
             UNCHANGED probeVars,
             allocated' = allocated \ S,
             regs' = ResetRegs(S),
             owned' = [owned EXCEPT ![f] = @ \ S]
      PROVE  BookkeepingInv'
  <2>1. phase = "live" /\ phase' = "live"
    BY <1>2, <1>7 DEF LiveFile, probeVars
  <2>2. ProbeOrder'
    BY <1>7, <2>1 DEF probeVars, ProbeOrder
  <2>3. \A w \in S : w \in Windows /\ w \notin firmware /\ w \notin driver_window
    BY <1>7, <1>o, <1>w, <2>1, <1>t DEF OwnedIsAllocated, FirmwareUntouched,
       TypeOK
  <2>4. Classified' /\ FirmwareUntouched'
    BY <1>7, <2>3, <1>t DEF probeVars, ResetRegs, Classified,
       FirmwareUntouched, TypeOK
  <2>5. \A g \in Files : owned'[g] \subseteq owned[g]
    BY <1>7, <1>t DEF TypeOK
  <2>6. DriverWindowDedicated'
    BY <1>7, <2>1, <2>3, <2>5 DEF probeVars, DriverWindowDedicated
  <2>7. \A g \in Files : owned'[g] = owned[g] \ S
    <3> TAKE g \in Files
    <3>1. CASE g = f
      BY <1>7, <3>1, <1>t DEF TypeOK
    <3>2. CASE g # f
      <4>1. owned[g] \cap S = {}
        BY <1>7, <3>2, <1>o DEF ExclusiveOwnership, IdleFilesEmpty
      <4> QED BY <1>7, <3>2, <4>1, <1>t DEF TypeOK
    <3> QED BY <3>1, <3>2
  <2>8. AllocatedIffHeld'
    <3>1. UNION {owned'[g] : g \in Files} = (UNION {owned[g] : g \in Files}) \ S
      BY <2>7
    <3>2. driver_window \cap S = {} /\ driver_window' = driver_window
      BY <1>7, <2>3 DEF probeVars
    <3> QED BY <1>7, <2>1, <3>1, <3>2 DEF AllocatedIffHeld
  <2> QED BY <2>2, <2>4, <2>6, <2>8
<1>8. CASE Release(f)
  <2>1. owned' = [owned EXCEPT ![f] = @ \ owned[f]]
    BY <1>8, <1>t DEF Release, TypeOK
  <2> QED BY <1>7, <1>8, <2>1 DEF Release, LiveFile
<1>9. ASSUME NEW w \in Windows, DeallocWindow(f, w) PROVE BookkeepingInv'
  <2>1. {w} \in SUBSET owned[f]
    BY <1>9 DEF DeallocWindow
  <2> QED BY <1>7, <1>9, <2>1 DEF DeallocWindow, LiveFile
<1>10. ASSUME NEW k, NEW w \in Windows, AllocWindow(f, k, w)
       PROVE  BookkeepingInv'
  <2>1. phase = "live" /\ phase' = "live"
    BY <1>2, <1>10 DEF AllocWindow, probeVars
  <2>2. w \notin allocated /\ w \notin reserved /\ w \notin firmware
    BY <1>10, <2>1, AllocPicksFree DEF AllocWindow, ProbeOrder, Classified
  <2>3. ProbeOrder'
    BY <1>10, <2>1 DEF AllocWindow, probeVars, ProbeOrder
  <2>4. Classified' /\ FirmwareUntouched'
    BY <1>10, <2>2 DEF AllocWindow, probeVars, Classified, FirmwareUntouched
  <2>5. \A g \in Files :
          owned'[g] = IF g = f THEN owned[g] \cup {w} ELSE owned[g]
    BY <1>10, <1>t DEF AllocWindow, TypeOK
  <2>6. DriverWindowDedicated'
    BY <1>10, <2>1, <2>2, <2>5 DEF AllocWindow, probeVars,
       DriverWindowDedicated
  <2>7. AllocatedIffHeld'
    <3>1. UNION {owned'[g] : g \in Files} =
            (UNION {owned[g] : g \in Files}) \cup {w}
      BY <2>5
    <3> QED BY <1>10, <2>1, <3>1 DEF AllocWindow, probeVars, AllocatedIffHeld
  <2> QED BY <2>3, <2>4, <2>6, <2>7
<1>11. ASSUME NEW k, NEW w \in Windows, AllocFault(f, k, w)
       PROVE  BookkeepingInv'
  <2>1. phase = "live"
    BY <1>2, <1>11 DEF AllocFault
  <2>2. w \notin allocated /\ w \notin reserved /\ w \notin firmware
    BY <1>11, <2>1, AllocPicksFree DEF AllocFault, ProbeOrder, Classified
  <2>3. regs' = regs /\ allocated' = allocated
    BY <1>11, <2>2, <1>t DEF AllocFault, ResetRegs, Classified, TypeOK
  <2> QED BY <1>3, <1>11, <2>1, <2>3 DEF AllocFault, fileVars
<1>12. ASSUME NEW w \in Windows, NEW t \in UserTargets, ConfigWindow(f, w, t)
       PROVE  BookkeepingInv'
  <2>1. phase = "live"
    BY <1>2, <1>12 DEF ConfigWindow
  <2>2. w \in allocated
    BY <1>12, <1>o DEF ConfigWindow, OwnedIsAllocated, LiveFile
  <2>3. Classified' /\ FirmwareUntouched'
    BY <1>12, <2>2, <1>t DEF ConfigWindow, configure_window, probeVars,
       Classified, FirmwareUntouched, TypeOK
  <2>4. ProbeOrder'
    BY <1>12 DEF ConfigWindow, probeVars, fileVars, ProbeOrder
  <2> QED
    BY <1>12, <2>3, <2>4 DEF ConfigWindow, probeVars, fileVars,
       AllocatedIffHeld, DriverWindowDedicated
<1> QED
  BY <1>1, <1>4, <1>5, <1>6, <1>8, <1>9, <1>10, <1>11, <1>12 DEF FileStep

\* Every step of the driver keeps the bookkeeping in such an environment.
LEMMA BookkeepingStep ==
  ASSUME "early_open" \notin Env, "late_read" \notin Env
  PROVE  BookkeepingInv /\ [Next]_vars => BookkeepingInv'
<1> SUFFICES ASSUME BookkeepingInv, [Next]_vars PROVE BookkeepingInv'
  OBVIOUS
<1>1. OwnershipInv'
  BY OwnershipStep DEF BookkeepingInv
<1>2. CASE ProbeStep \/ RemoveStep
  BY <1>1, <1>2, BookkeepingProbe
<1>3. CASE \E f \in Files : FileStep(f)
  BY <1>1, <1>3, BookkeepingFile
<1>4. ASSUME NEW t \in TelemetryTargets, HwmonRead(t) PROVE BookkeepingInv'
  <2>1. phase = "live"
    BY <1>4 DEF HwmonRead, BookkeepingInv, OwnershipInv, TypeOK, ProbeOrder
  <2>2. PICK w \in driver_window : regs' = [regs EXCEPT ![w] = t]
    BY <1>4 DEF HwmonRead, AimDriverWindow, configure_window
  <2>3. w \in allocated
    BY <2>1 DEF BookkeepingInv, DriverWindowDedicated
  <2>4. Classified' /\ FirmwareUntouched'
    BY <1>4, <2>2, <2>3 DEF HwmonRead, probeVars, Classified,
       FirmwareUntouched, BookkeepingInv, OwnershipInv, TypeOK
  <2>5. ProbeOrder'
    BY <1>4 DEF HwmonRead, probeVars, fileVars, ProbeOrder, BookkeepingInv
  <2> QED
    BY <1>1, <1>4, <2>4, <2>5 DEF HwmonRead, probeVars, fileVars,
       BookkeepingInv, AllocatedIffHeld, DriverWindowDedicated
<1>5. CASE UNCHANGED vars
  <2>1. ProbeOrder'
    BY <1>5 DEF vars, probeVars, fileVars, ProbeOrder, BookkeepingInv
  <2> QED
    BY <1>1, <1>5, <2>1 DEF vars, probeVars, fileVars, BookkeepingInv,
       Classified, FirmwareUntouched, AllocatedIffHeld, DriverWindowDedicated
<1> QED BY <1>2, <1>3, <1>4, <1>5 DEF Next

\* When nobody opens the device before probe is done and no sensor is read
\* while remove runs, the bookkeeping is right in every reachable state:
\* firmware's windows keep their registers and are never allocated, the scan
\* reserves firmware's windows and no others even after reloads, the telemetry
\* window is the driver's alone, the allocated bitmap is exactly what is held,
\* and free windows are in their reset state.
THEOREM Bookkeeping ==
  ASSUME "early_open" \notin Env, "late_read" \notin Env
  PROVE  Spec => [](/\ FirmwareUntouched
                    /\ ReservedIsFirmware
                    /\ DriverWindowDedicated
                    /\ AllocatedIffHeld
                    /\ FreeWindowsIdentity)
<1>1. BookkeepingInv => /\ FirmwareUntouched
                        /\ ReservedIsFirmware
                        /\ DriverWindowDedicated
                        /\ AllocatedIffHeld
                        /\ FreeWindowsIdentity
  <2> SUFFICES ASSUME BookkeepingInv
               PROVE  ReservedIsFirmware /\ FreeWindowsIdentity
    BY DEF BookkeepingInv
  <2>1. ReservedIsFirmware
    BY DEF BookkeepingInv, Classified, ReservedIsFirmware
  <2>2. FreeWindowsIdentity
    BY DEF BookkeepingInv, Classified, ProbeOrder, FreeWindowsIdentity, InUse
  <2> QED BY <2>1, <2>2
<1> QED BY BookkeepingInit, BookkeepingStep, <1>1, PTL DEF Spec

-----------------------------------------------------------------------------
\* There are finitely many windows of each kind.
LEMMA KindFinite ==
  ASSUME NEW k \in {"2M", "128G"} PROVE IsFiniteSet(OfKind(k))
<1>1. IsFiniteSet({k})
  BY FS_Singleton
<1>2. ASSUME NEW n \in Nat PROVE IsFiniteSet({k} \X (0..n-1))
  <2>1. IsFiniteSet(0..n-1)
    BY FS_Interval
  <2> QED BY <1>1, <2>1, FS_Product
<1>3. IsFiniteSet({k} \X (0..Count2M-1)) /\ IsFiniteSet({k} \X (0..Count128G-1))
  BY <1>2, CountAssumption
<1>4. IsFiniteSet(({k} \X (0..Count2M-1)) \cup ({k} \X (0..Count128G-1)))
  BY <1>3, FS_Union
<1>5. OfKind(k) \in SUBSET (({k} \X (0..Count2M-1)) \cup ({k} \X (0..Count128G-1)))
  <2> SUFFICES ASSUME NEW w \in OfKind(k)
               PROVE  w \in ({k} \X (0..Count2M-1)) \cup ({k} \X (0..Count128G-1))
    OBVIOUS
  <2>1. w[1] = k
    BY DEF OfKind
  <2>2. CASE w \in {"2M"} \X (0..Count2M-1)
    BY <2>1, <2>2
  <2>3. CASE w \in {"128G"} \X (0..Count128G-1)
    BY <2>1, <2>3
  <2> QED BY <2>2, <2>3 DEF OfKind, Windows
<1> QED BY <1>4, <1>5, FS_Subset

\* In such an environment the "free" numbers of debugfs are the windows ALLOC
\* can still hand out: the unsigned subtraction never wraps, because the
\* allocated and the reserved bitmap never overlap.
THEOREM Statistics ==
  ASSUME "early_open" \notin Env, "late_read" \notin Env
  PROVE  Spec => []StatsAddUp
<1>1. BookkeepingInv => StatsAddUp
  <2> SUFFICES ASSUME BookkeepingInv, NEW k \in {"2M", "128G"}
               PROVE  StatsFree(k) = Cardinality(OfKind(k) \ InUse)
    BY DEF StatsAddUp
  <2> DEFINE A == allocated \cap OfKind(k)
             R == reserved \cap OfKind(k)
  <2>1. A \cap R = {}
    BY DEF BookkeepingInv, Classified, FirmwareUntouched
  <2>2. IsFiniteSet(OfKind(k)) /\ IsFiniteSet(A) /\ IsFiniteSet(R)
    BY KindFinite, FS_Subset
  <2>3. /\ Cardinality(OfKind(k)) \in Nat
        /\ Cardinality(A) \in Nat
        /\ Cardinality(R) \in Nat
    BY <2>2, FS_CardinalityType
  <2>4. Cardinality(A \cup R) = Cardinality(A) + Cardinality(R)
    BY <2>1, <2>2, <2>3, FS_Union, FS_EmptySet
  <2>5. OfKind(k) \cap InUse = A \cup R
    BY DEF InUse
  <2>6. Cardinality(OfKind(k) \ InUse) = Cardinality(OfKind(k)) - Cardinality(A \cup R)
    BY <2>2, <2>5, FS_Difference
  <2> QED BY <2>3, <2>4, <2>6 DEF StatsFree
<1> QED BY BookkeepingInit, BookkeepingStep, <1>1, PTL DEF Spec
=============================================================================
