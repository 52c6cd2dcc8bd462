---------------------------- MODULE NocPoolProofs ----------------------------
(***************************************************************************)
(* NocDriver implements WindowPool, for every number of files and windows. *)
(*                                                                         *)
(* The mapping reads the holders of a window off the bitmaps.  That a      *)
(* bitmap update is a step of the pool depends on the bookkeeping being    *)
(* exact (BookkeepingInv) and on every VMA being counted                   *)
(* (CountsCoverVmas), so the two are the invariant of the proof.           *)
(***************************************************************************)
EXTENDS NocDriverProofs

RefinementInv == BookkeepingInv /\ CountsCoverVmas

\* The pool's variables.
HolderBar == [w \in Windows |-> Holder(w)]
MappedBar == {w \in Windows : \E f \in Files : vmas[f][w] > 0}

-----------------------------------------------------------------------------
\* What a file owns is held by that file alone.
LEMMA OwnerHolds ==
  ASSUME BookkeepingInv, NEW f \in Files, NEW w \in owned[f]
  PROVE  /\ w \in Windows
         /\ Holder(w) = {f}
         /\ w \in allocated /\ w \notin firmware /\ w \notin driver_window
         /\ phase = "live"
<1>1. LiveFile(f) /\ w \in Windows
  BY DEF BookkeepingInv, OwnershipInv, IdleFilesEmpty, TypeOK
<1>2. phase = "live"
  BY <1>1 DEF BookkeepingInv, ProbeOrder, LiveFile
<1>3. w \in allocated /\ w \notin firmware
  BY <1>1 DEF BookkeepingInv, OwnershipInv, OwnedIsAllocated, FirmwareUntouched
<1>4. w \notin driver_window
  BY <1>2 DEF BookkeepingInv, DriverWindowDedicated
<1>5. \A g \in Files : w \in owned[g] => g = f
  BY <1>1 DEF BookkeepingInv, OwnershipInv, ExclusiveOwnership, IdleFilesEmpty
<1> QED BY <1>1, <1>2, <1>3, <1>4, <1>5 DEF Holder

\* While the driver is there it alone holds the telemetry window.
LEMMA DriverHolds ==
  ASSUME BookkeepingInv, NEW w \in driver_window, phase # "removing"
  PROVE  /\ w \in Windows
         /\ Holder(w) = {"driver"}
         /\ w \in allocated
<1>1. w \in Windows
  BY KindIsWindow DEF BookkeepingInv, OwnershipInv, TypeOK
<1>2. w \in allocated /\ \A f \in Files : w \notin owned[f]
  BY DEF BookkeepingInv, DriverWindowDedicated
<1>3. w \notin firmware
  BY <1>2 DEF BookkeepingInv, FirmwareUntouched
<1> QED BY <1>1, <1>2, <1>3 DEF Holder

\* What is neither firmware's nor allocated has no holder.
LEMMA FreeHasNoHolder ==
  ASSUME BookkeepingInv, NEW w \in Windows, w \notin firmware, w \notin allocated
  PROVE  Holder(w) = {}
<1>1. \A f \in Files : w \notin owned[f]
  BY OwnerHolds
<1>2. phase = "removing" \/ w \notin driver_window
  BY DEF BookkeepingInv, DriverWindowDedicated
<1> QED BY <1>1, <1>2 DEF Holder

\* A mapped window belongs to the file it is mapped through.
LEMMA MappedOwned ==
  ASSUME RefinementInv, NEW f \in Files, NEW w \in Windows, vmas[f][w] > 0
  PROVE  w \in owned[f]
<1>1. LiveFile(f)
  BY DEF RefinementInv, BookkeepingInv, OwnershipInv, IdleFilesEmpty, NoCounts
<1>2. mapped_count[f][w] > 0
  BY BoundAssumption DEF RefinementInv, CountsCoverVmas, BookkeepingInv,
     OwnershipInv, TypeOK
<1> QED BY <1>1, <1>2 DEF RefinementInv, BookkeepingInv, OwnershipInv,
           OwnedIsAllocated

-----------------------------------------------------------------------------
\* Steps of the pool, in terms of the mapping.
LEMMA PoolStutters ==
  ASSUME \A w \in Windows : Holder(w)' = Holder(w), regs' = regs,
         MappedBar' = MappedBar
  PROVE  UNCHANGED Pool!vars
BY DEF Pool!vars, MappedBar

LEMMA PoolAcquires ==
  ASSUME NEW p \in Files \cup {"driver"}, NEW w \in Windows,
         Holder(w) = {}, Holder(w)' = {p},
         \A v \in Windows \ {w} : Holder(v)' = Holder(v),
         regs' = regs, MappedBar' = MappedBar
  PROVE  Pool!Next
BY DEF Pool!Next, Pool!Acquire, MappedBar

LEMMA PoolAims ==
  ASSUME NEW p \in Files \cup {"driver"}, NEW w \in Windows, NEW t \in Targets,
         Holder(w) = {p}, regs' = [regs EXCEPT ![w] = t],
         \A v \in Windows : Holder(v)' = Holder(v), MappedBar' = MappedBar
  PROVE  Pool!Next
BY DEF Pool!Next, Pool!Aim, MappedBar

LEMMA PoolSurrenders ==
  ASSUME NEW p \in Files \cup {"driver"}, NEW S \in SUBSET Windows,
         \A w \in S : Holder(w) = {p} /\ Holder(w)' = {},
         \A w \in Windows \ S : Holder(w)' = Holder(w),
         S \cap MappedBar = {},
         regs' = ResetRegs(S), MappedBar' = MappedBar
  PROVE  Pool!Next
<1>1. Pool!Surrender(p, S)
  <2>1. HolderBar' = [w \in Windows |-> IF w \in S THEN {} ELSE HolderBar[w]]
    BY DEF HolderBar
  <2> QED BY <2>1 DEF Pool!Surrender, MappedBar, HolderBar, ResetRegs
<1> QED BY <1>1 DEF Pool!Next

LEMMA PoolMaps ==
  ASSUME NEW p \in Files \cup {"driver"}, NEW w \in Windows,
         Holder(w) = {p}, \A v \in Windows : Holder(v)' = Holder(v),
         regs' = regs, MappedBar' = MappedBar \cup {w}
  PROVE  Pool!Next
BY DEF Pool!Next, Pool!Map, MappedBar

LEMMA PoolUnmaps ==
  ASSUME NEW w \in Windows,
         \A v \in Windows : Holder(v)' = Holder(v),
         regs' = regs, MappedBar' = MappedBar \ {w}
  PROVE  Pool!Next
BY DEF Pool!Next, Pool!Unmap, MappedBar

-----------------------------------------------------------------------------
\* Probe and remove, on the mapping: the driver acquires and aims its window,
\* and surrenders it; all else stutters.
LEMMA ProbeRefines ==
  ASSUME RefinementInv, RefinementInv', ProbeStep \/ RemoveStep
  PROVE  Pool!Next \/ UNCHANGED Pool!vars
<1> USE DEF RefinementInv
<1>t. TypeOK
  BY DEF BookkeepingInv, OwnershipInv
<1>e. phase # "live" => \A f \in Files : owned[f] = {} /\ vmas[f] = NoCounts
  BY DEF BookkeepingInv, OwnershipInv, ProbeOrder, IdleFilesEmpty, LiveFile
<1>s. ASSUME UNCHANGED <<firmware, driver_window, regs, owned, vmas>>,
             driver_window = {} \/ (phase # "removing" /\ phase' # "removing")
      PROVE  UNCHANGED Pool!vars
  BY <1>s, PoolStutters DEF Holder, MappedBar
<1>1. CASE ProbeStart
  BY <1>1, <1>s DEF ProbeStart, fileVars
<1>2. ASSUME NEW w \in Windows, ProbeScanWindow(w) PROVE UNCHANGED Pool!vars
  BY <1>2, <1>s DEF ProbeScanWindow, fileVars
<1>3. ASSUME NEW w \in Windows, ProbeInitWindow(w) PROVE Pool!Next
  <2>1. w \notin firmware /\ driver_window = {} /\ \A f \in Files : owned[f] = {}
    BY <1>3, <1>e, FirstZeroIn DEF ProbeInitWindow, BookkeepingInv, Classified,
       ProbeOrder
  <2>2. Holder(w) = {} /\ Holder(w)' = {"driver"}
    BY <1>3, <2>1 DEF ProbeInitWindow, fileVars, Holder
  <2>3. \A v \in Windows \ {w} : Holder(v)' = Holder(v)
    BY <1>3, <2>1 DEF ProbeInitWindow, fileVars, Holder
  <2>4. MappedBar' = MappedBar
    BY <1>3 DEF ProbeInitWindow, fileVars, MappedBar
  <2> QED BY <1>3, <2>2, <2>3, <2>4, PoolAcquires DEF ProbeInitWindow
<1>4. CASE ProbeFails
  <2>1. \A f \in Files : owned'[f] = owned[f] /\ vmas'[f] = vmas[f]
    BY <1>4, <1>e DEF ProbeFails
  <2>2. owned' = owned /\ vmas' = vmas
    BY <1>4, <1>t, <2>1 DEF ProbeFails, TypeOK
  <2> QED BY <1>4, <1>s, <2>2 DEF ProbeFails
<1>5. ASSUME NEW t \in TelemetryTargets, NEW ok \in BOOLEAN,
             ProbeInitHwmon(t, ok)
      PROVE  Pool!Next
  <2>1. PICK w \in driver_window : regs' = [regs EXCEPT ![w] = t]
    BY <1>5 DEF ProbeInitHwmon, AimDriverWindow, configure_window
  <2>2. w \in Windows /\ Holder(w) = {"driver"}
    BY <1>5, DriverHolds DEF ProbeInitHwmon
  <2>3. \A v \in Windows : Holder(v)' = Holder(v)
    BY <1>5 DEF ProbeInitHwmon, fileVars, Holder
  <2>4. MappedBar' = MappedBar
    BY <1>5 DEF ProbeInitHwmon, fileVars, MappedBar
  <2>5. t \in Targets
    BY DEF Targets
  <2> QED BY <2>1, <2>2, <2>3, <2>4, <2>5, PoolAims
<1>6. CASE RemoveDealloc
  <2>1. \A f \in Files : owned[f] = {} /\ vmas[f] = NoCounts
    BY <1>6 DEF RemoveDealloc, BookkeepingInv, OwnershipInv, IdleFilesEmpty,
       LiveFile
  <2>2. allocated = driver_window
    BY <1>6, <2>1 DEF RemoveDealloc, BookkeepingInv, AllocatedIffHeld
  <2>3. \A w \in driver_window : Holder(w) = {"driver"} /\ Holder(w)' = {}
    <3> TAKE w \in driver_window
    <3>1. Holder(w) = {"driver"}
      BY <1>6, DriverHolds DEF RemoveDealloc
    <3>2. w \notin firmware
      BY <2>2 DEF BookkeepingInv, FirmwareUntouched
    <3>3. Holder(w)' = {}
      BY <1>6, <2>1, <3>2 DEF RemoveDealloc, fileVars, Holder
    <3> QED BY <3>1, <3>3
  <2>4. \A w \in Windows \ driver_window : Holder(w)' = Holder(w)
    BY <1>6 DEF RemoveDealloc, fileVars, Holder
  <2>5. MappedBar = {} /\ MappedBar' = {}
    BY <1>6, <2>1 DEF RemoveDealloc, fileVars, MappedBar, NoCounts
  <2>6. driver_window \in SUBSET Windows
    BY <1>t, KindIsWindow DEF TypeOK
  <2> QED
    BY <1>6, <2>2, <2>3, <2>4, <2>5, <2>6, PoolSurrenders DEF RemoveDealloc
<1>7. CASE RemoveDone
  <2>1. \A w \in Windows : Holder(w)' = Holder(w)
    BY <1>7 DEF RemoveDone, fileVars, Holder
  <2>2. MappedBar' = MappedBar
    BY <1>7 DEF RemoveDone, fileVars, MappedBar
  <2> QED BY <1>7, <2>1, <2>2, PoolStutters DEF RemoveDone
<1> QED
  BY <1>1, <1>2, <1>3, <1>4, <1>5, <1>6, <1>7 DEF ProbeStep, RemoveStep

\* The calls of a file, on the mapping.
LEMMA FileRefines ==
  ASSUME "vma_copy" \notin Env, RefinementInv, RefinementInv',
         NEW f \in Files, FileStep(f)
  PROVE  Pool!Next \/ UNCHANGED Pool!vars
<1> USE DEF RefinementInv
<1>t. TypeOK /\ TypeOK'
  BY DEF BookkeepingInv, OwnershipInv
<1>h. ASSUME UNCHANGED <<probeVars, owned>>
      PROVE  \A w \in Windows : Holder(w)' = Holder(w)
  BY <1>h DEF probeVars, Holder
<1>1. CASE Open(f) \/ Close(f)
  <2>1. UNCHANGED <<probeVars, owned, regs, vmas>>
    BY <1>1 DEF Open, Close
  <2> QED BY <1>h, <2>1, PoolStutters DEF MappedBar
\* f gives up the windows in S, none of which it has mapped.
<1>2. ASSUME NEW S \in SUBSET owned[f], \A w \in S : vmas[f][w] = 0,
             UNCHANGED <<probeVars, vmas>>,
             regs' = ResetRegs(S),
             owned' = [owned EXCEPT ![f] = @ \ S]
      PROVE  Pool!Next
  <2>1. \A w \in S : w \in Windows /\ Holder(w) = {f} /\ w \notin firmware
                     /\ w \notin driver_window
    BY <1>2, OwnerHolds
  <2>2. \A w \in S : Holder(w)' = {}
    <3> TAKE w \in S
    <3>1. \A g \in Files : w \notin owned'[g]
      BY <1>2, <1>t, OwnerHolds DEF TypeOK, Holder
    <3> QED BY <1>2, <2>1, <3>1 DEF probeVars, Holder
  <2>3. \A w \in Windows \ S : Holder(w)' = Holder(w)
    <3> TAKE w \in Windows \ S
    <3>1. \A g \in Files : w \in owned'[g] <=> w \in owned[g]
      BY <1>2, <1>t DEF TypeOK
    <3> QED BY <1>2, <3>1 DEF probeVars, Holder
  <2>4. S \cap MappedBar = {}
    <3> SUFFICES ASSUME NEW w \in S, NEW g \in Files, vmas[g][w] > 0
                 PROVE  FALSE
      BY DEF MappedBar
    <3>1. w \in owned[g]
      BY <2>1, MappedOwned
    <3>2. g = f
      BY <2>1, <3>1 DEF Holder
    <3> QED BY <1>2, <3>2
  <2>5. MappedBar' = MappedBar
    BY <1>2 DEF MappedBar
  <2>6. S \in SUBSET Windows
    BY <2>1
  <2> QED BY <1>2, <2>1, <2>2, <2>3, <2>4, <2>5, <2>6, PoolSurrenders
<1>3. CASE Release(f)
  <2>1. owned' = [owned EXCEPT ![f] = @ \ owned[f]]
    BY <1>3, <1>t DEF Release, TypeOK
  <2>2. \A w \in owned[f] : vmas[f][w] = 0
    BY <1>3, <1>t DEF Release, NoCounts, TypeOK
  <2> QED BY <1>2, <1>3, <2>1, <2>2 DEF Release
<1>4. ASSUME NEW w \in Windows, DeallocWindow(f, w) PROVE Pool!Next
  <2>1. {w} \in SUBSET owned[f] /\ vmas[f][w] = 0
    BY <1>4, <1>t, BoundAssumption DEF DeallocWindow, Busy, CountsCoverVmas,
       TypeOK
  <2> QED BY <1>2, <1>4, <2>1 DEF DeallocWindow
<1>5. ASSUME NEW k \in {"2M", "128G"}, NEW w \in Windows, AllocWindow(f, k, w)
      PROVE  Pool!Next
  <2>1. phase = "live" /\ w \notin allocated /\ w \notin firmware
    BY <1>5, AllocPicksFree DEF AllocWindow, BookkeepingInv, ProbeOrder,
       Classified
  <2>2. Holder(w) = {}
    BY <2>1, FreeHasNoHolder
  <2>3. w \in owned'[f]
    BY <1>5, <1>t DEF AllocWindow, TypeOK
  <2>4. Holder(w)' = {f}
    <3>1. \A g \in Files : w \in owned'[g] <=> g = f
      BY <1>5, <1>t, <2>2 DEF AllocWindow, TypeOK, Holder
    <3> QED BY <1>5, <2>1, <2>2, <3>1 DEF AllocWindow, probeVars, Holder
  <2>5. \A v \in Windows \ {w} : Holder(v)' = Holder(v)
    <3> TAKE v \in Windows \ {w}
    <3>1. \A g \in Files : v \in owned'[g] <=> v \in owned[g]
      BY <1>5, <1>t DEF AllocWindow, TypeOK
    <3> QED BY <1>5, <3>1 DEF AllocWindow, probeVars, Holder
  <2>6. MappedBar' = MappedBar
    BY <1>5 DEF AllocWindow, MappedBar
  <2> QED BY <1>5, <2>2, <2>4, <2>5, <2>6, PoolAcquires DEF AllocWindow
<1>6. ASSUME NEW k \in {"2M", "128G"}, NEW w \in Windows, AllocFault(f, k, w)
      PROVE  UNCHANGED Pool!vars
  <2>1. phase = "live" /\ w \notin allocated /\ w \notin firmware
    BY <1>6, AllocPicksFree DEF AllocFault, BookkeepingInv, ProbeOrder,
       Classified
  <2>2. regs' = regs
    BY <1>6, <2>1, <1>t DEF AllocFault, ResetRegs, BookkeepingInv, Classified,
       TypeOK
  <2> QED BY <1>6, <1>h, <2>2, PoolStutters DEF AllocFault, fileVars, MappedBar
<1>7. ASSUME NEW w \in Windows, NEW t \in UserTargets, ConfigWindow(f, w, t)
      PROVE  Pool!Next
  <2>1. Holder(w) = {f}
    BY <1>7, OwnerHolds DEF ConfigWindow
  <2>2. t \in Targets
    BY DEF Targets
  <2>3. MappedBar' = MappedBar
    BY <1>7 DEF ConfigWindow, fileVars, MappedBar
  <2> QED
    BY <1>7, <1>h, <2>1, <2>2, <2>3, PoolAims DEF ConfigWindow, fileVars,
       configure_window
<1>8. ASSUME NEW w \in Windows, NEW ok \in BOOLEAN, Mmap(f, w, ok)
      PROVE  Pool!Next \/ UNCHANGED Pool!vars
  <2>1. Holder(w) = {f}
    BY <1>8, OwnerHolds DEF Mmap
  <2>2. CASE ok
    <3>1. MappedBar' = MappedBar \cup {w}
      BY <1>8, <2>2, <1>t, BoundAssumption DEF Mmap, MappedBar, TypeOK
    <3> QED BY <1>8, <1>h, <2>1, <3>1, PoolMaps DEF Mmap
  <2>3. CASE ~ ok
    BY <1>8, <2>3, <1>h, PoolStutters DEF Mmap, MappedBar
  <2> QED BY <2>2, <2>3
<1>9. ASSUME NEW w \in Windows, VmaClose(f, w)
      PROVE  Pool!Next \/ UNCHANGED Pool!vars
  <2>1. w \in owned[f] /\ w \in MappedBar
    BY <1>9, MappedOwned DEF VmaClose, MappedBar
  <2>2. \A g \in Files : g # f => ~ (vmas[g][w] > 0)
    BY <2>1, OwnerHolds, MappedOwned DEF Holder
  <2>3. \A g \in Files, v \in Windows :
          vmas'[g][v] = IF g = f /\ v = w THEN vmas[f][w] - 1 ELSE vmas[g][v]
    BY <1>9, <1>t DEF VmaClose, TypeOK
  <2>4. vmas[f][w] \in Nat
    BY <1>t, BoundAssumption DEF TypeOK
  <2>5. CASE vmas[f][w] = 1
    <3>1. MappedBar' = MappedBar \ {w}
      BY <2>2, <2>3, <2>5 DEF MappedBar
    <3> QED BY <1>9, <1>h, <3>1, PoolUnmaps DEF VmaClose
  <2>6. CASE vmas[f][w] > 1
    <3>1. MappedBar' = MappedBar
      BY <2>2, <2>3, <2>4, <2>6 DEF MappedBar
    <3> QED BY <1>9, <1>h, <3>1, PoolStutters DEF VmaClose
  <2> QED BY <1>9, <2>4, <2>5, <2>6 DEF VmaClose
<1>10. ASSUME NEW w \in Windows, VmaCopy(f, w) PROVE FALSE
  BY <1>10 DEF VmaCopy
<1> QED
  BY <1>1, <1>3, <1>4, <1>5, <1>6, <1>7, <1>8, <1>9, <1>10 DEF FileStep

-----------------------------------------------------------------------------
\* Module load is an initial state of the pool: firmware's windows are held.
LEMMA InitRefines == Init => Pool!Init
<1> SUFFICES ASSUME Init PROVE Pool!Init
  OBVIOUS
<1>1. \A w \in Windows : Holder(w) = IF w \in firmware THEN {"firmware"} ELSE {}
  BY DEF Init, Holder
<1>2. HolderBar \in [Windows -> {{}, {"firmware"}}]
  BY <1>1 DEF HolderBar
<1>3. regs \in [Windows -> Targets]
  BY TypeInit DEF TypeOK
<1>4. \A w \in Windows : HolderBar[w] = {} <=> regs[w] = Identity
  BY <1>1, TargetAssumption DEF Init, HolderBar
<1>5. MappedBar = {}
  BY DEF Init, MappedBar, NoCounts
<1> QED BY <1>2, <1>3, <1>4, <1>5 DEF Pool!Init, HolderBar, MappedBar

\* The driver implements the window pool for any number of files and windows,
\* through reloads, failed remaps and failed copies to user memory, as long as
\* nothing forks or splits a VMA, opens the device during probe or reads a
\* sensor during remove: at every step a window has at most one holder, only its
\* holder aims it, it is not given up while mapped, and it is reset when given up.
THEOREM Refinement ==
  ASSUME "vma_copy" \notin Env, "early_open" \notin Env, "late_read" \notin Env
  PROVE  Spec => PoolSpec
<1>1. Init => RefinementInv
  BY BookkeepingInit DEF RefinementInv, Init, CountsCoverVmas, NoCounts
<1>2. RefinementInv /\ [Next]_vars => RefinementInv'
  BY BookkeepingStep, CountsStep DEF RefinementInv, BookkeepingInv
<1>3. RefinementInv /\ RefinementInv' /\ [Next]_vars => [Pool!Next]_Pool!vars
  <2> SUFFICES ASSUME RefinementInv, RefinementInv', [Next]_vars
               PROVE  Pool!Next \/ UNCHANGED Pool!vars
    OBVIOUS
  <2>1. CASE ProbeStep \/ RemoveStep
    BY <2>1, ProbeRefines
  <2>2. ASSUME NEW t \in TelemetryTargets, HwmonRead(t) PROVE Pool!Next
    <3>1. phase # "removing"
      BY <2>2 DEF HwmonRead
    <3>2. PICK w \in driver_window : regs' = [regs EXCEPT ![w] = t]
      BY <2>2 DEF HwmonRead, AimDriverWindow, configure_window
    <3>3. w \in Windows /\ Holder(w) = {"driver"}
      BY <3>1, DriverHolds DEF RefinementInv
    <3>4. (\A v \in Windows : Holder(v)' = Holder(v)) /\ MappedBar' = MappedBar
      BY <2>2 DEF HwmonRead, probeVars, fileVars, Holder, MappedBar
    <3>5. t \in Targets
      BY DEF Targets
    <3> QED BY <3>2, <3>3, <3>4, <3>5, PoolAims
  <2>3. CASE \E f \in Files : FileStep(f)
    BY <2>3, FileRefines
  <2>4. CASE UNCHANGED vars
    <3>1. (\A v \in Windows : Holder(v)' = Holder(v)) /\ MappedBar' = MappedBar
      BY <2>4 DEF vars, probeVars, fileVars, Holder, MappedBar
    <3> QED BY <2>4, <3>1, PoolStutters DEF vars
  <2> QED BY <2>1, <2>2, <2>3, <2>4 DEF Next
<1> QED BY InitRefines, <1>1, <1>2, <1>3, PTL DEF Spec, PoolSpec, Pool!Spec
=============================================================================
