------------------------------ MODULE NocClient ------------------------------
(***************************************************************************)
(* User programs of the NOC driver (x280-noc/include/uapi/uapi.hpp): NOC,  *)
(* NocWindow, SmartNocWindow and Tensix, used by the threads of one        *)
(* process that share one NOC object.  Every window object belongs to one  *)
(* thread.  The driver is what NocDriver was shown to implement, the       *)
(* module WindowPool, plus what a caller can feel of its implementation:   *)
(* noc->lock, the kernel's mmap_lock, the mmap count that refuses DEALLOC, *)
(* and the alignment that the CONFIG ioctls demand.                        *)
(*                                                                         *)
(* A system call is the step that enters it, the copy from or to user      *)
(* memory (which may fault), and its body.                                 *)
(***************************************************************************)
EXTENDS Integers, FiniteSets

CONSTANTS Threads,
          None,          \* no thread, no window, no request
          Identity,      \* register value of a window nobody holds
          FirmwareTarget,\* value firmware left in the windows it uses
          Count2M,       \* WINDOW_2M_COUNT
          Count128G,     \* WINDOW_128G_COUNT
          TwoMegs,       \* TWO_MEGS and the driver's WINDOW_2M_SIZE
          FourGigs,      \* FOUR_GIGS
          Size128G,      \* the driver's WINDOW_128G_SIZE
          MaxWord,       \* the 8 bytes up to which accesses must be aligned
          Tiles,         \* <<x, y>> of the tiles the programs use
          Settings,      \* ordering, posted, static_vc...: the other fields
          Program        \* what each thread may ask for (ProgramAssumption)

(***************************************************************************)
(* Setups: what the kernel may do to the programs.                         *)
(*   fault       a copy from or to user memory faults (page swapped out)   *)
(*   remap_fail  io_remap_pfn_range fails in mmap                          *)
(***************************************************************************)
VARIABLES setup,       \* subset of the events above
          fd,          \* the NOC object exists: /dev/l2cpu-noc is open
          th,          \* each thread: its call and its window object
          noc_lock,    \* the thread that holds noc->lock
          mmap_lock,   \* the thread that holds the process's mmap_lock
          counted,     \* windows with a positive mmap count in the driver
          holder, target, mapped   \* the pool

pool == <<holder, target, mapped>>
vars == <<setup, fd, th, noc_lock, mmap_lock, counted, pool>>

ASSUME CountAssumption == Count2M \in Nat /\ Count128G \in Nat
ASSUME SizeAssumption == /\ {TwoMegs, FourGigs, Size128G} \subseteq Nat
                         /\ MaxWord \in 0..8
                         /\ 0 < TwoMegs
                         /\ TwoMegs < FourGigs
                         /\ FourGigs < Size128G

\* A noc_window_config that nobody filled in has tile (0, 0).
ASSUME DefaultAssumption == <<0, 0>> \in Tiles /\ Settings # {}

\* Sizes (powers of two) and configurations of windows, transfers, and the
\* tiles of Tensix objects.
ASSUME ProgramAssumption ==
  \A t \in Threads :
    /\ Program[t].sizes \subseteq Nat \ {0}
    /\ Program[t].configs \subseteq [tile : Tiles, addr : Nat, settings : Settings]
    /\ Program[t].requests \subseteq [tile : Tiles, addr : Nat, n : Nat \ {0}]
    /\ Program[t].tensix \subseteq Tiles

-----------------------------------------------------------------------------
Windows == ({"2M"} \X (0..Count2M-1)) \cup ({"128G"} \X (0..Count128G-1))
WindowSize(w) == IF w[1] = "2M" THEN TwoMegs ELSE Size128G
Kind(size) == IF size <= TwoMegs THEN "2M" ELSE "128G"

\* struct noc_window_config; window_id is the window's own.
Configs == [tile : Tiles, addr : Nat, settings : Settings]

\* The arguments of a transfer: tile, address and size.
Requests == [tile : Tiles, addr : Nat, n : Nat \ {0}]

ASSUME NoneAssumption == None \notin Threads \cup Windows \cup Configs \cup Requests

Pool == INSTANCE WindowPool
          WITH Parties <- {"fd"}, Firmware <- "firmware",
               Targets <- Configs \cup {Identity, FirmwareTarget}

\* SmartNocWindow: the part of an address the window is aimed at, and the rest.
WindowAddr(addr, size) == addr - (addr % size)
Offset(addr, size) == addr % size

\* configure_window_2M / _128G: EINVAL unless addr is a multiple of the size.
AlignedToMapping(w, addr, size) == addr % size = 0
Aligned(w, addr, size) == addr % WindowSize(w) = 0

\* addr & (n - 1), for the n up to 8 that are tested: with n a power of two the
\* remainder, for 3 and 5 to 7 fewer bits.
Unaligned(addr, n) ==
  \E bit \in {1, 2, 4} : (addr \div bit) % 2 = 1 /\ ((n - 1) \div bit) % 2 = 1

\* The checks at the head of read_block and write_block.  (write_block compares
\* with FOUR_GIGS first: the second check refuses all that that lets through.)
ChecksWithoutCrossing(r, size) ==
  r.n <= size /\ (r.n <= MaxWord => ~ Unaligned(r.addr, r.n))
Checks(r, size) ==
  /\ r.n <= size
  /\ r.n + Offset(r.addr, size) <= size
  /\ r.n <= MaxWord => ~ Unaligned(r.addr, r.n)

\* The configuration of a transfer: the initial one, hopped to the tile.
Aimed(r, s) ==
  [tile |-> r.tile, addr |-> WindowAddr(r.addr, s.size), settings |-> s.settings]

\* Blackhole::is_tensix: rows 2 to 11 of the two blocks of columns.
is_tensix(tile) == /\ tile[2] \in 2..11
                   /\ tile[1] \in 1..7 \cup 10..16

\* find_first_zero_bit over the windows of a kind that nobody holds.
FirstFree(k) == LET free == {w \in Windows : w[1] = k /\ holder[w] = {}}
                IN  {w \in free : \A v \in free : w[2] <= v[2]}

-----------------------------------------------------------------------------
\* A thread without a call and without a window.  plan: what the window is for
\* (an object the program keeps, one NOC::read_block call, a Tensix object).
Idle == [pc |-> "idle", op |-> "none", plan |-> "keep", win |-> None,
         size |-> 0, config |-> None, want |-> None, settings |-> None,
         req |-> None]

Init == /\ setup \in SUBSET {"fault", "remap_fail"}
        /\ fd = FALSE
        /\ th = [t \in Threads |-> Idle]
        /\ noc_lock = None
        /\ mmap_lock = None
        /\ counted = {}
        /\ holder \in [Windows -> {{}, {"firmware"}}]
        /\ target = [w \in Windows |->
                       IF holder[w] = {} THEN Identity ELSE FirmwareTarget]
        /\ mapped = {}

locks == <<noc_lock, mmap_lock>>
Unlock == noc_lock' = None /\ UNCHANGED mmap_lock

\* The thread goes on at pc, inside the system call op.
Goto(t, pc, op) == th' = [th EXCEPT ![t].pc = pc, ![t].op = op]

\* The end of an ioctl of a constructor or destructor: the object is gone.
Gone(t) == th' = [th EXCEPT ![t] = Idle]

-----------------------------------------------------------------------------
\* NOC objects.
OpenNoc == /\ ~ fd
           /\ fd' = TRUE
           /\ UNCHANGED <<setup, th, locks, counted, pool>>

\* ~NOC, after the last window object: release gives up what is left.
CloseNoc == /\ fd
            /\ \A t \in Threads : th[t] = Idle
            /\ fd' = FALSE
            /\ counted' = {}
            /\ Pool!Surrender("fd", {w \in Windows : holder[w] = {"fd"}})
            /\ UNCHANGED <<setup, th, locks>>

-----------------------------------------------------------------------------
\* Calls of the program.
NewWindow(t, size, c, plan, r) ==
  /\ fd
  /\ th[t] = Idle
  /\ th' = [th EXCEPT ![t] =
              [pc |-> "lock", op |-> "alloc", plan |-> plan, win |-> None,
               size |-> size, config |-> None, want |-> c,
               settings |-> c.settings, req |-> r]]
  /\ UNCHANGED <<setup, fd, locks, counted, pool>>

DefaultConfig == [tile |-> <<0, 0>>, addr |-> 0,
                  settings |-> CHOOSE x \in Settings : TRUE]

\* SmartNocWindow(fd, size, initial_config), open_window_2M, open_window_4G.
Construct(t) == \E size \in Program[t].sizes, c \in Program[t].configs :
                  NewWindow(t, size, c, "keep", None)

\* NOC::read32, write32, read_block, write_block: a window for one transfer.
OneShot(t) == \E r \in Program[t].requests :
  NewWindow(t, IF r.n <= TwoMegs THEN TwoMegs ELSE FourGigs, DefaultConfig,
            "call", r)

\* Tensix(noc, x, y): a 2M window, whose first use reads NOC_NODE_ID.
OpenTensix(t) == \E tile \in Program[t].tensix :
  NewWindow(t, TwoMegs, DefaultConfig, "tensix", [tile |-> tile, addr |-> 0, n |-> 1])

\* What the program does with a finished window: nothing yet, or destroy it.
AfterCall(s) == IF s.plan = "call" THEN "munmap" ELSE "ready"

Refuse(t) ==
  /\ th' = [th EXCEPT ![t].pc = IF th[t].plan = "keep" THEN "ready" ELSE "munmap",
                      ![t].op = "none", ![t].req = None, ![t].want = None]

\* read_block or write_block: the checks, then reconfigure, which skips the
\* ioctl when the bytes of the configuration are the cached ones.  The struct
\* has padding, so that equal configurations may still compare different.
Request(t, r) ==
  LET s == th[t]
      c == Aimed(r, s)
  IN  /\ s.pc = "ready"
      /\ IF Checks(r, s.size) /\ (s.plan = "tensix" => is_tensix(r.tile))
           THEN \/ /\ c = s.config
                   /\ th' = [th EXCEPT ![t].pc = "access", ![t].req = r]
                \/ th' = [th EXCEPT ![t].pc = "lock", ![t].op = "reconfig",
                                    ![t].want = c, ![t].req = r]
           ELSE Refuse(t)
      /\ UNCHANGED <<setup, fd, locks, counted, pool>>

\* The load or store through the mapping.  A Tensix keeps its window if the node
\* id it read is its own; what the tile answers is up to the chip, and on another
\* id the constructor throws and the window is destroyed.
Access(t) ==
  /\ th[t].pc = "access"
  /\ LET s == th[t] IN
       \E pc \in {AfterCall(s), "munmap"} :
         /\ pc = "munmap" => s.plan # "keep"
         /\ th' = [th EXCEPT ![t].pc = pc, ![t].req = None,
                             ![t].plan = IF s.plan = "tensix" THEN "keep" ELSE s.plan]
  /\ UNCHANGED <<setup, fd, locks, counted, pool>>

\* ~NocWindow.
Destroy(t) ==
  /\ th[t].pc = "ready"
  /\ th[t].plan = "keep"
  /\ Goto(t, "munmap", "none")
  /\ UNCHANGED <<setup, fd, locks, counted, pool>>

-----------------------------------------------------------------------------
\* l2cpu_cdev_ioctl takes noc->lock and copies under it.
LockNoc(t) ==
  /\ th[t].pc = "lock"
  /\ noc_lock = None
  /\ noc_lock' = t
  /\ Goto(t, "copy", th[t].op)
  /\ UNCHANGED <<setup, fd, mmap_lock, counted, pool>>

\* The user page is not there: the fault handler wants mmap_lock.
Fault(t) ==
  /\ "fault" \in setup
  /\ th[t].pc = "copy"
  /\ Goto(t, "fault", th[t].op)
  /\ UNCHANGED <<setup, fd, locks, counted, pool>>

FaultDone(t) ==
  /\ th[t].pc = "fault"
  /\ mmap_lock = None
  /\ Goto(t, "copied", th[t].op)
  /\ UNCHANGED <<setup, fd, locks, counted, pool>>

InIoctl(t, ops) == th[t].pc \in {"copy", "copied"} /\ th[t].op \in ops

\* ioctl_alloc_*: first free window, or ENOSPC and the constructor throws.
IoctlAlloc(t) ==
  /\ InIoctl(t, {"alloc"})
  /\ LET k == Kind(th[t].size)
     IN  \/ /\ FirstFree(k) = {}
            /\ Gone(t)
            /\ UNCHANGED pool
         \/ \E w \in FirstFree(k) :
              /\ Pool!Acquire("fd", w)
              /\ th' = [th EXCEPT ![t].pc = "lock", ![t].win = w,
                          ![t].op = IF th[t].size > WindowSize(w) THEN "undo"
                                                              ELSE "config"]
  /\ Unlock
  /\ UNCHANGED <<setup, fd, counted>>

\* ioctl_config_* as the constructor calls it: on EINVAL it deallocates.
IoctlConfig(t) ==
  /\ InIoctl(t, {"config"})
  /\ LET s == th[t] IN
       IF Aligned(s.win, s.want.addr, s.size)
         THEN Pool!Aim("fd", s.win, s.want) /\ Goto(t, "mmap", "none")
         ELSE UNCHANGED pool /\ Goto(t, "lock", "undo")
  /\ Unlock
  /\ UNCHANGED <<setup, fd, counted>>

ReconfigCachesFirst(t) ==
  /\ InIoctl(t, {"reconfig"})
  /\ LET s == th[t] IN
       IF Aligned(s.win, s.want.addr, s.size)
         THEN /\ Pool!Aim("fd", s.win, s.want)
              /\ th' = [th EXCEPT ![t].pc = "access", ![t].op = "none",
                                  ![t].config = s.want, ![t].want = None]
         ELSE /\ UNCHANGED pool
              /\ th' = [th EXCEPT ![t].pc = AfterCall(s), ![t].op = "none",
                                  ![t].req = None,
                                  ![t].config = s.want, ![t].want = None]
  /\ Unlock
  /\ UNCHANGED <<setup, fd, counted>>

ReconfigKeepsLock(t) ==
  /\ InIoctl(t, {"reconfig"})
  /\ LET s == th[t] IN
       IF Aligned(s.win, s.want.addr, s.size)
         THEN /\ Pool!Aim("fd", s.win, s.want)
              /\ th' = [th EXCEPT ![t].pc = "access", ![t].op = "none",
                                  ![t].config = s.want, ![t].want = None]
              /\ Unlock
         ELSE UNCHANGED <<pool, locks>> /\ Refuse(t)
  /\ UNCHANGED <<setup, fd, counted>>

\* ... and as reconfigure calls it: the cache follows a success only.
IoctlReconfig(t) ==
  /\ InIoctl(t, {"reconfig"})
  /\ LET s == th[t] IN
       IF Aligned(s.win, s.want.addr, s.size)
         THEN /\ Pool!Aim("fd", s.win, s.want)
              /\ th' = [th EXCEPT ![t].pc = "access", ![t].op = "none",
                                  ![t].config = s.want, ![t].want = None]
         ELSE UNCHANGED pool /\ Refuse(t)
  /\ Unlock
  /\ UNCHANGED <<setup, fd, counted>>

DeallocOnlyInDestructor(t) ==
  /\ InIoctl(t, {"dealloc", "undo"})
  /\ IF th[t].op = "undo" \/ th[t].win \in counted
       THEN UNCHANGED pool
       ELSE Pool!Surrender("fd", {th[t].win})
  /\ Gone(t)
  /\ Unlock
  /\ UNCHANGED <<setup, fd, counted>>

\* ioctl_dealloc_*: EBUSY while the count is positive; nobody looks at the
\* result, the object is gone either way.
IoctlDealloc(t) ==
  /\ InIoctl(t, {"dealloc", "undo"})
  /\ IF th[t].win \in counted
       THEN UNCHANGED pool
       ELSE Pool!Surrender("fd", {th[t].win})
  /\ Gone(t)
  /\ Unlock
  /\ UNCHANGED <<setup, fd, counted>>

\* mmap(2) and munmap(2) take mmap_lock before the driver is called.
LockMmap(t) ==
  /\ th[t].pc \in {"mmap", "munmap"}
  /\ mmap_lock = None
  /\ mmap_lock' = t
  /\ Goto(t, IF th[t].pc = "mmap" THEN "mmapping" ELSE "munmapping", "none")
  /\ UNCHANGED <<setup, fd, noc_lock, counted, pool>>

CountNothing(w) == counted
CountMapping(w) == counted \cup {w}

\* l2cpu_cdev_mmap: waits for noc->lock.  The count grows even when the remap
\* failed; then the constructor tries to deallocate.
CdevMmap(t, ok) ==
  /\ th[t].pc = "mmapping"
  /\ ok \/ "remap_fail" \in setup
  /\ noc_lock = None
  /\ counted' = CountMapping(th[t].win)
  /\ mmap_lock' = None
  /\ IF ok
       THEN /\ Pool!Map("fd", th[t].win)
            /\ th' = [th EXCEPT ![t].pc = "ready", ![t].config = th[t].want,
                                ![t].want = None]
       ELSE UNCHANGED pool /\ Goto(t, "lock", "undo")
  /\ UNCHANGED <<setup, fd, noc_lock>>

\* l2cpu_vma_close: waits for noc->lock; then the destructor's DEALLOC.
VmaClose(t) ==
  /\ th[t].pc = "munmapping"
  /\ noc_lock = None
  /\ counted' = counted \ {th[t].win}
  /\ mmap_lock' = None
  /\ Pool!Unmap(th[t].win)
  /\ Goto(t, "lock", "dealloc")
  /\ UNCHANGED <<setup, fd, noc_lock>>

-----------------------------------------------------------------------------
\* What the program decides, and what follows inside a call.
Choice(t) == \/ Construct(t) \/ OneShot(t) \/ OpenTensix(t)
             \/ \E r \in Program[t].requests : th[t].plan = "keep" /\ Request(t, r)
             \/ Destroy(t)

Proceed(t) ==
  \/ th[t].plan # "keep" /\ Request(t, th[t].req)
  \/ Access(t)
  \/ LockNoc(t) \/ FaultDone(t)
  \/ IoctlAlloc(t) \/ IoctlConfig(t) \/ IoctlReconfig(t) \/ IoctlDealloc(t)
  \/ LockMmap(t) \/ VmaClose(t)
  \/ \E ok \in BOOLEAN : CdevMmap(t, ok)

Next == \/ OpenNoc \/ CloseNoc
        \/ \E t \in Threads : Choice(t) \/ Proceed(t) \/ Fault(t)

Spec == Init /\ [][Next]_vars

\* A thread runs, and one that waits for a kernel mutex or rwsem is given it in
\* the end if it becomes free again and again (both queue their waiters).
Fairness == \A t \in Threads : SF_vars(Proceed(t))
FairSpec == Spec /\ Fairness

-----------------------------------------------------------------------------
(***************************************************************************)
(* Properties.                                                             *)
(***************************************************************************)

Objects == {t \in Threads : th[t].pc \in {"ready", "access"}}

ThreadStates ==
  [pc : {"idle", "lock", "copy", "fault", "copied", "mmap", "mmapping", "ready",
         "access", "munmap", "munmapping"},
   op : {"none", "alloc", "config", "reconfig", "dealloc", "undo"},
   plan : {"keep", "call", "tensix"},
   win : Windows \cup {None}, size : Nat, config : Configs \cup {None},
   want : Configs \cup {None}, settings : Settings \cup {None},
   req : Requests \cup {None}]

\* Types of the threads, the locks, the pool and the driver's counts; what is
\* mapped is counted.
TypeOK ==
  /\ setup \subseteq {"fault", "remap_fail"}
  /\ fd \in BOOLEAN
  /\ th \in [Threads -> ThreadStates]
  /\ noc_lock \in Threads \cup {None}
  /\ mmap_lock \in Threads \cup {None}
  /\ holder \in [Windows -> {{}, {"fd"}, {"firmware"}}]
  /\ target \in [Windows -> Configs \cup {Identity, FirmwareTarget}]
  /\ counted \subseteq Windows
  /\ mapped \subseteq counted

\* NocWindow::reconfigure skips the ioctl on a cached configuration.  That is
\* right only because the cache is what the TLB register holds, after failed
\* ioctls too.
CacheCoherent ==
  \A t \in Objects : target[th[t].win] = th[t].config

\* When read_block or write_block touches its mapping, the window is this
\* file's and mapped, the whole transfer is inside it, it lands at the tile and
\* address that were asked for, and the ordering settings are those the window
\* was opened with (uapi.hpp:102).
AccessHits ==
  \A t \in Threads : th[t].pc = "access" =>
    LET s == th[t]
        off == Offset(s.req.addr, s.size)
    IN  /\ holder[s.win] = {"fd"}
        /\ s.win \in mapped
        /\ off + s.req.n <= s.size
        /\ s.size <= WindowSize(s.win)
        /\ target[s.win].tile = s.req.tile
        /\ target[s.win].addr + off = s.req.addr
        /\ target[s.win].settings = s.settings

\* SmartNocWindow aligns to the size it mapped, the driver to the size of its
\* window: an object that maps less than the driver's window (open_window_4G,
\* 4 GiB of 128) can only ever reach the first part of each window-sized block,
\* every other address is refused by the CONFIG ioctl.
SmallMappingReach ==
  \A t \in Threads : th[t].pc = "access" =>
    th[t].req.addr % WindowSize(th[t].win) < th[t].size

\* Constructors that throw and destructors give their window back: what the
\* file holds belongs to exactly one object, except a window whose remap failed
\* (its count stays, DEALLOC said EBUSY, close frees it).
NothingLeaks ==
  \A w \in Windows : holder[w] = {"fd"} =>
    LET users == {t \in Threads : th[t].win = w}
    IN  \/ Cardinality(users) = 1
        \/ users = {} /\ "remap_fail" \in setup /\ w \in counted \ mapped

\* A thread inside a system call, or with a NOC::read_block still to finish.
Calling(t) == \/ th[t].pc \notin {"idle", "ready"}
              \/ th[t].pc = "ready" /\ th[t].plan # "keep"

\* One thread faults under noc->lock while another one, in mmap or munmap,
\* holds mmap_lock and waits for noc->lock.
AbbaDeadlock ==
  \E t, u \in Threads : /\ th[t].pc = "fault" /\ noc_lock = t
                        /\ th[u].pc \in {"mmapping", "munmapping"}
                        /\ mmap_lock = u

\* Every call returns, whatever the other threads do, on the error paths too:
\* the one way for threads to wait for each other for ever is the inversion of
\* noc->lock and mmap_lock that a fault under noc->lock makes possible.
CallsReturn == \A t \in Threads : Calling(t) ~> (~ Calling(t) \/ AbbaDeadlock)
=============================================================================
