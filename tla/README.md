# Verification of the Blackhole X280 support code

TLA+ models, TLC runs and TLAPS proofs for the code under `src/`: a Linux driver
that hands out NOC windows on the X280 (L2CPU) cores of a Blackhole chip, a
shared-memory network link between an X280 and its PCIe host, and the host-side
tools around them.

`PROJECT.json` lists components, runs, mutants, the map from definitions to source
lines, findings, hazards and theorems.  Run a model with
`tlc -config NocDriver.cfg MCNocDriver`, check the proofs with
`tlapm NocDriverProofs.tla`, and so on for `NocPoolProofs`, `NocClientProofs`, `RingLemmas`,
`X280NetProofs`, `ConsoleProofs`, `HostTlbProofs` and `HostAccessProofs`.

## Inventory

| Component | State | Operations | What is hard |
|---|---|---|---|
| `x280-noc/driver/l2cpu_noc.c` | reserved / allocated bitmaps, TLB registers, telemetry window; per file: owned bitmaps, mmap counts | probe (publish, scan, telemetry window, hwmon), remove, open, release, ALLOC / CONFIG / DEALLOC for 2M and 128G windows, mmap, vma_close, hwmon read, debugfs statistics | probe publishes before it has scanned; file, VMA and window lifetimes differ; fork and VMA splits; sensor reads take no lock; registers survive a reload; `noc->lock` against `mmap_lock` |
| `x280-net/l2cpu_net.c` + `blackhole-thing/x280-net.cpp` | two rings with head and tail in X280 memory, interrupt bit, NAPI state, queue state | host loop (TAP to ring, ring to TAP), irq handler, NAPI poll, xmit, open, stop, polling timer, probe | lost wake-ups, full rings, the handler's read-modify-write, failed allocations, link changes under traffic |
| `x280-noc/include/uapi/uapi.hpp` | per window object: handle, mapping, cached configuration | construct, reconfigure, read and write words and blocks, destroy; Tensix objects | the cache must stay true after failed ioctls; constructors that throw; alignment rules of library and driver differ; threads in ioctl and mmap at the same time |
| `blackhole-thing/console.cpp` | two byte rings shared with OpenSBI, Ctrl-A state, terminal settings | find_uart, loop, push_char, pop_char, retry after reset | busy-waits that look at nothing else; exits where it means to retry; a chip that is reset under it |
| `blackhole-thing/src/blackhole_pcie.*`, `tlb_window.hpp` | free lists of host TLB windows, mapped BARs | construct, map, access, release, pin, iATU, destroy | per-process free lists over one card, exceptions between take and hand-over, bounds checks |
| `l2cpu_core.hpp`, `pcie_core.hpp`, `memory_for_x280.cpp`, `tensix_reset.cpp`, `mmio_bench.cpp`, `iommu_test.cpp` | none of their own (hardware registers) | sequences of window operations | shared PCIe entry 20; half-way exceptions; windows that start inside a block |
| `blackhole-thing/src/arc_msg.hpp` | message register | send, poll, time out | not modelled: no program uses it |
| driver tests, logging, utilities, layouts | none | | not modelled: statements about the driver; pure I/O and data layout |

Interactions: processes call the driver through ioctl and mmap; their VMAs keep
the file, and so its windows, alive after `close`.  hwmon and debugfs call into
the same driver state.  The network driver and the host program meet only in
shared memory and one interrupt bit.  The library sees the driver through ioctl and
mmap, and two locks: `noc->lock` and the process's `mmap_lock`.  Host programs reach the
chip only through TLB windows, whose registers all processes share; the console
meets the firmware in two rings that a chip reset may wipe at any time.

What makes each part correct: windows have one owner and are reset when they
change hands (driver); a transfer lands where it was asked for and no error path keeps a window
(library, host TLB); what enters a ring leaves it once and in order, and nobody
waits forever (network, console).

## Modules

| Module | Models |
|---|---|
| `WindowPool` | abstract promise of the NOC driver: at most one holder per window, only the holder aims it, nothing is surrendered while mapped, what is surrendered is reset |
| `NocDriver` | the driver itself; `PoolSpec` states that it implements `WindowPool` |
| `MCNocDriver` | TLC instance of `NocDriver` (symmetry of files) |
| `NocDriverProofs` | theorems about `NocDriver` |
| `NocPoolProofs` | `NocDriver` implements `WindowPool` |
| `PacketFifo` | abstract promise of one network direction: a bounded FIFO |
| `X280Net` | both rings and all actors of the network link; `RxFifo`, `TxFifo` state that each ring implements `PacketFifo` |
| `RingLemmas` | facts about rings of n cells of which one stays empty |
| `X280NetProofs` | theorems about `X280Net`, on `RingLemmas` |
| `MCX280Net` | the setups `X280Net` is checked in |
| `NocClient` | the uapi library: threads of one process on top of `WindowPool` (INSTANCE), with the locks, counts and alignment checks of the driver |
| `MCNocClient` | the programs of two threads |
| `NocClientProofs` | theorems about `NocClient` |
| `HostPrograms` | register routines and host programs as sequences of window operations; `WellWritten`, what the proofs ask of programs |
| `HostTlb` | `BlackholePciDevice` and `TlbWindow`; executes `HostPrograms` |
| `MCHostTlb` | which programs run next to each other, in one process or in two; that they are `WellWritten` |
| `HostTlbProofs` | theorems about the index lists of `HostTlb` |
| `HostAccessProofs` | theorems about the accesses of `HostTlb` |
| `Console` | the virtual UART console next to firmware, user and chip resets; `UartInFifo` and `UartOutFifo` state that its rings implement `PacketFifo` |
| `MCConsole` | the setups `Console` is checked in |
| `ConsoleProofs` | theorems about `Console`, on `RingLemmas` |

How they compose: `NocDriver` is shown to implement `WindowPool`, and `NocClient` is built on
the actions of `WindowPool`, so that what is checked about the library rests on what the driver
was shown to promise.  `X280Net` and `Console` are both held to `PacketFifo`.

### NocDriver and the code

A window is `<<kind, id>>`.  `reserved`, `allocated`, `owned[f]` and
`mapped_count[f]` are the bitmaps and counters of the same name (2M and 128G
together, because their handlers are textual twins).  `regs[w]` abstracts the TLB
register: its reset value (`Identity`), what firmware left, or a target.
`driver_window` holds the window of `driver_window_id`.  `file[f]` is the life of a
`struct file`: `closed` means that the last descriptor is gone while VMAs may
still pin it; `Release` runs when they are gone.  `vmas[f][w]` counts the VMAs that
really exist: the truth that `mapped_count` tries to track.  `firmware` is the set
of windows configured before the driver was loaded, chosen in `Init`.

Every ioctl, mmap, vma_close and release runs under `noc->lock` and is one action.
Probe takes no lock: one action per scanned window, one for choosing the telemetry
window, one for hwmon.  Remove is two actions, because the hwmon device is managed
by devm and disappears only after `l2cpu_platform_remove` has returned.  Calls the
driver refuses (EPERM, EBUSY, EINVAL, ENOSPC, EOVERFLOW) change nothing and are
stuttering steps.  `Env` says which of four events, that nothing in the driver
prevents, happen: `early_open`, `vma_copy`, `remap_fail`, `late_read`.

### X280Net and the code

A step is one access to shared memory or to a kernel flag, so the check of a full
ring, the slot, the head index and the interrupt are separate steps of the host;
the same holds for xmit (check, stop or slot, head), poll (check, copy, free,
complete) and the handler (read status, clear, wake and schedule).  NAPI is external and
modelled by its states: `napi_schedule_prep` on a scheduled or disabled instance sets
MISSED, `napi_complete_done` reschedules if it is set.  A `setup` fixed in `Init` says
which traffic there is, whether the driver polls by timer, whether the link may go
down and whether allocations fail.  Oversized packets are dropped by xmit; the length
tests of poll and of the host cannot fail because both ends only publish lengths within
`MAX_PACKET_SIZE`, so they do not appear.  Stores are assumed to become visible in
program order.

### NocClient and the code

`th[t]` is a thread: the place in its call (`pc`, `op`) and its window object (`win`, `size`,
the cached `config`, the `settings` that hops keep).  `plan` says what the object is for: one
the program keeps, the temporary of `NOC::read_block` and its siblings, or that of a
Tensix, whose constructor reads NOC_NODE_ID through it and throws if the tile answers with
another id (what it answers is left open).  An ioctl is entering it
(`LockNoc`), the copy from or to user memory (which may `Fault` and then needs
`mmap_lock`), and its body; mmap and munmap take `mmap_lock` (`LockMmap`) and wait for
`noc->lock` inside the driver.  The pool variables move only by actions of
`WindowPool`.  `counted` is the positive mmap count that makes DEALLOC return EBUSY.  `Request`
is the check in front of a transfer and the decision whether the cached
configuration can be used; because the configuration struct has padding, memcmp may
miss equal ones, and the model allows both.  Threads share the NOC object and own
their windows, as the classes (no locking of their own) require.

### HostTlb, HostPrograms and the code

`free[p]` are the three index lists of a process, used from the back; `wins[t]`
the TlbWindow objects of a thread; `regs` the card's TLB registers and `writer` the
process that wrote each one last.  map and release run under `tlb_mutex` and are one action each;
every load and store is one action.  An exception ends the program (`Throw`); its windows are
then destroyed in reverse order, one per step, because each callback takes `tlb_mutex` for itself
(`Unwind`).  `lost` records indices that left the list
before make_unique threw.

An address is a block (what a TLB register can hold) and a word offset.  An
access is followed through both translations: which hardware window the BAR
address falls into, what its register says, and, for the PCIe tile, what the entry's word in
SII_A says.  Each step of a program carries the location the program means, so
that "reached" and "meant" are separate.  The programs of `HostPrograms` are the
functions of the same name.

### Console and the code

`pc` walks through `main`, `find_uart` and `uart_loop`.  In push_char and pop_char the check,
the load of an index (`index`), the access to the character and the store of the index are
steps of their own, so a reset may fall between the eye catcher and the magic, the check and
the spin, the store and the head, or inside the read-modify-write of an index.  The
loads inside can_push, can_pop and a comparison of the eye catcher are one step each, and so are pop_char's
loads of the tail and of the character.  A card that left the bus reads as all ones:
the magic is wrong, both indices are equal and the last slot's.  `exit(0)` inside `find_uart` runs
no destructor; `pc` tells it (`exit0`) from the end by Ctrl-A x (`exited`).  The firmware and the chip are external: the firmware is the other end of the
rings, a reset leaves the rings with the indices in `Garbage`, the descriptor
survives or not.

## Runs

| Run | Shows |
|---|---|
| `noc_driver` (pass) | 2 files, three 2M windows and one 128G window, every firmware layout, reloads, failing remaps, `INT_MAX` = 2: bookkeeping, reference counts, statistics, refinement of `WindowPool` |
| `noc_adverse` (pass) | two 2M windows; early opens, forks and late sensor reads together: ownership stays exclusive |
| `noc_early_open` (violation) | `FirmwareUntouched`: ALLOC before the scan returns a firmware window |
| `noc_vma_copy` (violation) | `NoUnderflow`: an uncounted VMA brings the count to zero under a live mapping |
| `noc_remap_fail` (violation) | `RefcountExact`: a failed remap stays counted |
| `noc_late_read` (violation) | `ReservedIsFirmware`: a sensor read during remove costs a window at the next load |
| `net_fifo` (pass) | rings of 4 slots, budget 2, two different packets (and an oversized one), one direction at a time: both rings are FIFOs |
| `net_progress` (pass) | rings of 2 slots, both directions, interrupt driver that is up from the start, with and without failing allocations, and polling driver with link changes and failing allocations: nothing waits forever, but for one stall |
| `net_link_up` (violation) | `RxUnderTraffic`: a ring filled while the link is down is never drained |
| `noc_client` (pass) | two threads, two 2M windows and one of 128G, every firmware layout, with and without page faults and failing remaps: cache, transfers, error paths, and that every call returns but for one inversion |
| `host_tlb` (pass) | 118 setups of two host programs in one or two processes, with failing allocations, pins and constructors: indices, targets of accesses, final register contents |
| `console` (pass) | rings of 3 slots; a steady chip with and without a reader, and one that is reset at any step, boots or not, keeps its DRAM or not: FIFO both ways, output and exit key, where the console can hang, reattachment |

What the code does not guarantee, and how the properties of the passing runs say so:

* `CallsReturn` excepts `AbbaDeadlock`: an ioctl faults on user memory under `noc->lock`
  while another thread, in mmap or munmap, holds `mmap_lock` and waits for `noc->lock`.
  The property says that there is no other hang.
* `RxProgress` excepts `Starved`: when `netdev_alloc_skb` fails, poll completes with packets left in the
  ring (`l2cpu_net.c:122-137`) and the interrupt-driven driver, the default build, polls again only on the
  next interrupt.  The host raises none while the ring is full, so the packets may
  stay there for ever.  The polling timer does not have this stall.
* `NothingLeaks` excepts a window whose remap failed: its count stays, the
  constructor's DEALLOC gets EBUSY and only closing the NOC object frees it.
* `SmallMappingReach`: a 4 GiB window object can only reach the first 4 GiB of
  each 128 GiB block, because the driver wants 128 GiB alignment.
* `AccessReaches` excepts the word at `size()`, which the check `address > window_size`
  accepts, and windows that another process re-aimed.
* `LoopComesRound` excepts `push_char` on a full ring that nobody reads and `pop_char` after
  a reset has emptied the ring its caller saw; there neither Ctrl-A x nor a
  changed magic is noticed.
* `Reattaches` has as its hypothesis that `find_uart` never meets a chip without a descriptor (down, off the
  bus, or with its DRAM lost): there it ends the process with `exit(0)`, in a loop that has
  just printed "Retrying..." (`console.cpp:205`), and `exit(0)` is no success for the property.  It also
  excepts the spin of `pop_char`.
* `DriverWindowDedicated` is stated without early opens: `initialize_driver_window` consults the reserved bitmap
  only and would choose a window that a file opened during probe already owns.

Deadlock is not checked in `noc_client` (the inversion above is one), in `host_tlb`
(programs end) and in `console` (it may exit).

Bounds.  Two files show every conflict between owners; three 2M windows give one
to the driver and one to each file, or one to firmware, so that the pool runs dry;
one 128G window shows that the kinds do not mix.  `INT_MAX` = 2 and at most two VMAs
per window and file reach the overflow branch and the second mapping of the tests.
The rings wrap around several times; two packet values suffice for order because
the code never looks at contents, and progress does not depend on them.
In `noc_client` the sizes 2 MiB, 4 GiB and 128 GiB shrink to 2, 4 and 8 (their order and
divisibility is all the code uses), the 8 bytes up to which accesses must be aligned to 3; the transfers include cache hits, block-crossing
and misaligned ones, one of 3 bytes that passes the mask test without being a multiple of its size, and one beyond the first 4 GiB of a window.  In `host_tlb` a 2M window has 24 words and a 4G one 32, enough to keep all
registers a program touches apart; two windows of each kind, and the kernel's, make the
lists run dry with two threads.  tensix_reset visits 2 tiles of 140 and
configure_prefetcher 2 of 4 units (the loop bodies are the same).  Accesses are
words, so the alignment tests of TlbWindow never fire.  The inbound iATU's base address is 0.
In `console` three keys and three characters fill a ring of three slots and wrap it; Ctrl-A x
needs two keys, and one reset may come at any step.

Fairness (`FairSpec` of `X280Net`).  The host loop is a `while (1)` around a `select`
with a timeout, so it keeps taking steps; a pending interrupt is taken, a scheduled
poll runs, the timer re-arms itself, a transmission that started goes on: weak
fairness.  Strong fairness of `PollCopy` says that an allocation that is retried forever
succeeds at some time.  Nothing forces traffic: `TxResumes` and `RxUnderTraffic` have it
as a hypothesis.

`FairSpec` of `NocClient` is strong fairness of each thread inside a call: kernel mutexes
and rwsems queue their waiters, so a thread does not miss a lock that is released again and
again.  What the program asks for, and faults, are not fair.  `FairSpec` of `Console` is weak
fairness of the console's thread, of a firmware that reads at all, and of the boot of
a chip that boots at all.  Nobody has to type, print or reset.

## Proofs

Every theorem holds for all values of the constants that satisfy the named `ASSUME`s of its
model, which TLC also evaluates on the instances it checks.  In each case the property is not
inductive; what follows names the inductive invariant and why its parts are needed.

### The driver (`NocDriverProofs`, `NocPoolProofs`)

Any number of files and windows, any targets and any
`INT_MAX`.  Assumptions on the constants: the counts are natural numbers, `Env` is a set
of the four events, and neither telemetry nor firmware targets equal the reset value.

* `TypeCorrect`: `TypeOK` is itself inductive.
* `Ownership`, in every environment: `ExclusiveOwnership` is not inductive, because ALLOC
  consults the allocated bitmap and not the other files.  `OwnershipInv` adds that what a live
  file owns is allocated, that a counted window is owned (so DEALLOC's counter test and
  its bitmap update agree), and that a file that is not live owns nothing (so a
  new file starts empty).
* `Mappings`, without `vma_copy`: `CountsCoverVmas` (VMAs never outnumber the count) together with
  `OwnershipInv` gives `MappedImpliesOwned` and `NoUnderflow`.
* `Refcounts`, without `vma_copy` and `remap_fail`: counts and VMAs move together, which gives
  `RefcountExact`.
* `Bookkeeping`, without `early_open` and `late_read`: `BookkeepingInv` adds that no file is open outside
  the live phase (`ProbeOrder`) and that what was scanned is classified right and unused
  windows are reset in every phase (`Classified`).  It yields `FirmwareUntouched`, `ReservedIsFirmware`,
  `DriverWindowDedicated`, `AllocatedIffHeld` and `FreeWindowsIdentity`.
* `Statistics`: reserved and allocated windows are disjoint (from `BookkeepingInv`), so the
  cardinalities that debugfs subtracts add up and nothing wraps.
* `Refinement`, without `early_open`, `vma_copy` and `late_read`: `NocDriver` implements `WindowPool`.  The mapping
  reads the holder of a window off the bitmaps; each action is shown to be a step of the pool or
  to leave it alone, under `BookkeepingInv` and `CountsCoverVmas`.

The hypotheses are sharp: for each event they exclude, a violation run shows what goes wrong.

### The library (`NocClientProofs`)

Any number of threads and windows, any sizes in the order 2 MiB < 4 GiB < 128 GiB (no divisibility
is needed), any programs.  `ClientInv` says of every thread, at every place inside its call,
what it knows about its window (`ThreadInv`: whether it is held, aimed, mapped and counted, what the
register contains, and which request is under way), that no two objects have the same window
(`ExclusiveObjects`), and that a held window belongs to an object or to a failed remap
(`HeldAccounted`).  It gives `ClientTypes`, `Cache`, `Accesses`, `Reach` and `NoLeak`.  The assumptions on the
constants say that programs ask for positive sizes and non-empty transfers, that
`None` is none of the other values and that a default configuration exists.

### The rings (`RingLemmas`, `X280NetProofs`, `ConsoleProofs`)

`RingLemmas` shows, for every ring size above one, what filling the cell at the head and
advancing an index do to the sequence of entries between the reader and the writer.  Both rings
of the network link and both rings of the console rest on it.

* `NetTypes`, `RxIsFifo`, `TxIsFifo`: any ring size, budget, packets and setups.  `RingInv` adds to the types that a
  writer that has passed its test for room still has room when it stores, and that a
  reader that is about to free a cell has one to free, with the packet it copied: the other
  side can only have helped meanwhile.
* `ConsoleTypes`, `Terminal`: any history of resets.  The terminal's settings are the console's own exactly between
  `EnterRawMode` and the end of the loop (`TermInv`).
* `UartInIsFifo`, `UartOutIsFifo`: on a chip that is not reset (`Steady`).  `SteadyInv` says that the descriptor and magic
  the console found stay, that the rings are empty until the firmware has booted, and that room and
  characters seen, and the indices loaded, are still those of the rings when they are used.

### The host's windows (`HostTlbProofs`, `HostAccessProofs`)

Any number of threads, processes and windows of each kind (one of them the kernel's) and all
programs.  `SetupsAssumption` asks only that a map step names a kind and an offset below the window's
size, as the masking of the address guarantees.

* `HostTypes`, `IndexPlaces`: `HostInv` = `TypeInv` and `Places`.  `IndicesConserved` speaks of the union
  of the lists; the induction needs the places one by one: a window object is off its own
  kind's list (`HeldApart`, so that giving its index back causes no repetition), listed
  indices are not lost (`ListedApart`), no index is in two objects (`HeldOnce`), every index is
  somewhere once the constructor has run (`AllPlaced`), and before that nothing is held (`NotYet`).
* `AccessesReach`, `StoresDelivered`: for programs that are `WellWritten`, that is, which have a scope (which
  map step is behind each window at each step), access the windows they hold and
  mean the address behind them, never store at the word behind a window, and use a PCIe entry for the
  DBI only after pointing it there while nobody points it elsewhere.  `MCHostTlb` evaluates this for
  all programs of `HostPrograms` (`ProgramsAssumption`).  `AccessInv` says that the objects a thread holds are the ones
  its scope names (`Framed`), that a register still holds what the map step wrote unless another
  process wrote it (`StillAimed`: an index that is handed out comes from the process's own list, so by
  `HeldApart` no other window of the process has it), and that what was stored is in memory or overtaken
  by a later store to the same place (`Delivered`; it also shows that the entry points to the DBI).

### Model-checked only

Liveness under fairness is out of the prover's reach: `RxProgress`, `TxResumes`, `CallsReturn`, `OutputPrinted`, `ExitKeyWorks`,
`LoopComesRound` and `Reattaches` (and the violation `RxUnderTraffic`).  Every other
property of the passing runs is stated by a theorem.  That the programs of
`HostPrograms` are well written is evaluated, not proved: they are concrete, and their scopes are
computed by recursion.

## Not modelled

* `arc_msg.hpp`: no program includes it, and its comment says that it was written for other chips;
  there is no caller from which to take how messages and retries are combined.
* Unlocked sensor reads as two steps (configure, load): the model takes a read as one.
  It matters only when two sensors lie in different 2 MiB regions.
* Mappings that start inside a window: library and tests map from the base.
* Overflow in the sensor conversions (from 4295 W on): the models have no sensor values.
* The network driver's probe next to a host that is already running, and its
  removal: the code makes no promise there that a property could state.
* What a call on freed memory does after a failed probe or a sysfs unbind.
* Host writes to the X280's TLB registers against the driver on the X280: `HostTlb` shows that
  they arrive; the driver's model assumes that nobody else writes them.
* Two places where `HostPrograms` and `HostTlb` follow the code into what looks unintended: the upper limit of an
  inbound iATU region is written relative to the PCIe address instead of the register
  base (`pcie_core.hpp:152`), and the destructor leaves BAR2 mapped (`blackhole_pcie.cpp:251`, although
  `blackhole_pcie.hpp:66` says it unmaps the BARs).
* Bytes of transfers, register bit fields, TAP and socket setup, statistics counters, timing,
  formatting, logging, data layouts.

## Plan

Everything the first plan listed is proved.  What could follow: the abstract specification of one
process's index lists (a pool per kind) with `HostTlb` as its refinement; the console's rings across
a reset (what a boot may lose, instead of the hypothesis `Steady`); that a thread in `NocClient` waits only for
locks that are held, as the safety part of `CallsReturn`.
