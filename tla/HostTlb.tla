------------------------------ MODULE HostTlb ------------------------------
(***************************************************************************)
(* BlackholePciDevice (blackhole_pcie.cpp) and TlbWindow (tlb_window.hpp): *)
(* threads of one or two host processes map inbound TLB windows of the     *)
(* card, access the chip through them and give them back, each following   *)
(* one of the HostPrograms.                                                *)
(*                                                                         *)
(* map_tlb_* and the release callbacks run under tlb_mutex, so each is one *)
(* action.  A process keeps its own lists of free indices; the TLB         *)
(* registers are the card's, and any process can write any of them.        *)
(***************************************************************************)
EXTENDS HostPrograms

CONSTANTS Threads, Procs,
          Setups,      \* which thread runs which program, in which process
          NumWC,       \* BH_NUM_2M_WC_TLBS
          NumUC,       \* BH_NUM_2M_UC_TLBS + 1: one is left to the kernel
          Num4G,       \* BH_NUM_4G_TLBS
          None         \* register value before any process wrote it

(***************************************************************************)
(* A setup gives the process and the program of each thread, and says what *)
(* may go wrong:                                                           *)
(*   bad_alloc   make_unique fails after the index was taken               *)
(*   pin_fail    the PIN_PAGES ioctl fails                                 *)
(*   no_card     the constructor of BlackholePciDevice fails               *)
(***************************************************************************)
VARIABLES proc,        \* proc[t]: the process thread t runs in
          events,      \* subset of the events above
          dev,         \* life cycle of each process's BlackholePciDevice
          bars,        \* the BARs each process has mapped
          prog,        \* prog[t]: the steps of thread t
          pc,          \* pc[t]: the next step (past the end: finished)
          thrown,      \* threads that ended with an exception
          free,        \* free_tlb_indices_* of each process
          wins,        \* wins[t]: the TlbWindow objects thread t holds
          lost,        \* lost[p]: indices whose window object never existed
          regs,        \* the card's TLB registers: tile and block
          writer,      \* the process that wrote each register last
          mem          \* what was stored in the chip, by location

setup == <<proc, events, prog>>
device == <<dev, bars>>
vars == <<setup, device, pc, thrown, free, wins, lost, regs, writer, mem>>

Kinds == {"WC", "UC", "4G"}

\* What a TLB register holds for a map step: the tile and the address' high bits.
Aim(s) == [tile |-> s.to.tile, block |-> s.to.block]

ASSUME CountAssumption == /\ NumWC \in Nat \ {0}
                          /\ NumUC \in Nat \ {0, 1}
                          /\ Num4G \in Nat \ {0}

\* A window is asked for at an address, whose low bits are the offset.
ASSUME SetupsAssumption ==
  \A s \in Setups :
    /\ s.proc \in [Threads -> Procs]
    /\ DOMAIN s.prog = Threads
    /\ \A t \in Threads :
         /\ Len(s.prog[t]) \in Nat /\ DOMAIN s.prog[t] = 1..Len(s.prog[t])
         /\ \A k \in DOMAIN s.prog[t] :
              s.prog[t][k].do = "map" =>
                /\ s.prog[t][k].kind \in Kinds
                /\ s.prog[t][k].to.off \in 0..Words(s.prog[t][k].kind)-1
                /\ Aim(s.prog[t][k]) # None

-----------------------------------------------------------------------------

\* TLB register indices: 2M windows (WC, then UC), then 4G windows.
UC_START == NumWC
START_4G == NumWC + NumUC
Indices == 0..(START_4G + Num4G - 1)
KernelIndex == START_4G - 1
IndicesOf(kind) == CASE kind = "WC" -> 0..(UC_START - 1)
                     [] kind = "UC" -> UC_START..(START_4G - 1)
                     [] kind = "4G" -> START_4G..(START_4G + Num4G - 1)

\* The constructor's lists: iota over WC, UC less the kernel's, and 4G; the WC
\* list is reversed, so that its lowest index is handed out first.
InitialFree ==
  [k \in Kinds |->
     CASE k = "WC" -> [i \in 1..NumWC |-> NumWC - i]
       [] k = "UC" -> [i \in 1..NumUC-1 |-> UC_START + i - 1]
       [] k = "4G" -> [i \in 1..Num4G |-> START_4G + i - 1]]

Init == /\ \E s \in Setups : /\ proc = s.proc
                             /\ prog = s.prog
                             /\ events = s.events
        /\ dev = [p \in Procs |-> "none"]
        /\ bars = [p \in Procs |-> {}]
        /\ pc = [t \in Threads |-> 1]
        /\ thrown = {}
        /\ free = [p \in Procs |-> [k \in Kinds |-> <<>>]]
        /\ wins = [t \in Threads |-> <<>>]
        /\ lost = [p \in Procs |-> {}]
        /\ regs = [i \in Indices |-> None]
        /\ writer = [i \in Indices |-> None]
        /\ mem = [l \in {} |-> None]

\* A thread ends behind its last step, or when an exception has unwound it.
Finished(t) == IF t \in thrown THEN wins[t] = <<>> ELSE pc[t] > Len(prog[t])
AtStep(t, ops) == /\ dev[proc[t]] = "open"
                  /\ t \notin thrown
                  /\ ~ Finished(t)
                  /\ prog[t][pc[t]].do \in ops
Step(t) == prog[t][pc[t]]

Advance(t) == pc' = [pc EXCEPT ![t] = @ + 1] /\ UNCHANGED thrown

\* An exception leaves the program.
Throw(t) == thrown' = thrown \cup {t} /\ UNCHANGED pc

\* The destructor of the newest window: its callback pushes the index to the
\* back of the list it was taken from.
ReleaseToWC(t) ==
  LET w == Last(wins[t])
  IN  /\ wins[t] # <<>>
      /\ free' = [free EXCEPT ![proc[t]]["WC"] = Append(free[proc[t]]["WC"], w.index)]
      /\ wins' = [wins EXCEPT ![t] = Front(wins[t])]
Release(t) ==
  LET w == Last(wins[t])
  IN  /\ wins[t] # <<>>
      /\ free' = [free EXCEPT ![proc[t]][w.kind] =
                    Append(free[proc[t]][w.kind], w.index)]
      /\ wins' = [wins EXCEPT ![t] = Front(wins[t])]

-----------------------------------------------------------------------------
ThreadsOf(p) == {t \in Threads : proc[t] = p}

\* The constructor opens the card, maps its BARs and fills the lists.
OpenDevice(p) ==
  /\ dev[p] = "none" /\ ThreadsOf(p) # {}
  /\ dev' = [dev EXCEPT ![p] = "open"]
  /\ bars' = [bars EXCEPT ![p] = {"bar0", "bar2", "bar4"}]
  /\ free' = [free EXCEPT ![p] = InitialFree]
  /\ UNCHANGED <<setup, pc, thrown, wins, lost, regs, writer, mem>>

\* An ioctl of the constructor throws, or a CHECK aborts: no thread gets going,
\* and the BARs that were mapped until then stay mapped.
OpenFails(p, mapped) ==
  /\ "no_card" \in events
  /\ dev[p] = "none" /\ ThreadsOf(p) # {}
  /\ dev' = [dev EXCEPT ![p] = "failed"]
  /\ bars' = [bars EXCEPT ![p] = mapped]
  /\ thrown' = thrown \cup ThreadsOf(p)
  /\ UNCHANGED <<setup, pc, free, wins, lost, regs, writer, mem>>

\* The destructor, after the last window object: BAR2 is not unmapped.
CloseDevice(p) ==
  /\ dev[p] = "open"
  /\ \A t \in ThreadsOf(p) : Finished(t)
  /\ dev' = [dev EXCEPT ![p] = "closed"]
  /\ bars' = [bars EXCEPT ![p] = @ \ {"bar0", "bar4"}]
  /\ UNCHANGED <<setup, pc, thrown, free, wins, lost, regs, writer, mem>>

-----------------------------------------------------------------------------
\* map_tlb_2M_WC, _UC, _4G: the back of the list; the register is written
\* before the index leaves the list.
AimRegister(t, s, i) ==
  /\ regs' = [regs EXCEPT ![i] = Aim(s)]
  /\ writer' = [writer EXCEPT ![i] = proc[t]]

\* A window that does not start at the bottom of its block is shorter.
ApparentSizeWhole(kind, off) == Words(kind)
ApparentSize(kind, off) == Words(kind) - off

MapWindow(t) ==
  LET s == Step(t)
      list == free[proc[t]][s.kind]
      i == Last(list)
  IN  /\ AtStep(t, {"map"})
      /\ list # <<>>
      /\ AimRegister(t, s, i)
      /\ free' = [free EXCEPT ![proc[t]][s.kind] = Front(list)]
      /\ wins' = [wins EXCEPT ![t] = Append(wins[t],
                    [kind |-> s.kind, index |-> i, off |-> s.to.off,
                     size |-> ApparentSize(s.kind, s.to.off)])]
      /\ Advance(t)
      /\ UNCHANGED <<setup, device, lost, mem>>

\* make_unique throws after pop_back: nobody will give the index back.
MapBadAlloc(t) ==
  LET s == Step(t)
      list == free[proc[t]][s.kind]
  IN  /\ "bad_alloc" \in events
      /\ AtStep(t, {"map"})
      /\ list # <<>>
      /\ AimRegister(t, s, Last(list))
      /\ free' = [free EXCEPT ![proc[t]][s.kind] = Front(list)]
      /\ lost' = [lost EXCEPT ![proc[t]] = lost[proc[t]] \cup {Last(list)}]
      /\ Throw(t)
      /\ UNCHANGED <<setup, device, wins, mem>>

\* "No free ... TLB entries available".
MapThrows(t) ==
  /\ AtStep(t, {"map"})
  /\ free[proc[t]][Step(t).kind] = <<>>
  /\ Throw(t)
  /\ UNCHANGED <<setup, device, free, wins, lost, regs, writer, mem>>

\* unique_ptr: the window destroyed is the newest.
FreeWindow(t) ==
  /\ AtStep(t, {"free"})
  /\ Release(t)
  /\ Advance(t)
  /\ UNCHANGED <<setup, device, lost, regs, writer, mem>>

\* After an exception the windows are destroyed, the last one first; every
\* callback takes tlb_mutex for itself.
Unwind(t) ==
  /\ t \in thrown
  /\ Release(t)
  /\ UNCHANGED <<setup, device, pc, thrown, lost, regs, writer, mem>>

-----------------------------------------------------------------------------
\* What the checks of TlbWindow let through: a single word at an address that
\* is not greater than the size, a block that ends within the size.
InBounds(w, s) == IF s.n = 1 THEN s.off <= w.size ELSE s.off + s.n <= w.size

BarSlotBottom(w, k) ==
  LET size == Words(w.kind)
  IN  [index |-> w.index + (k \div size), off |-> k % size]

\* Where in the BAR word k past the base of a window is: the windows of BAR0,
\* and those of BAR4, lie next to each other.
BarSlot(w, k) ==
  LET size == Words(w.kind)
  IN  [index |-> w.index + ((w.off + k) \div size), off |-> (w.off + k) % size]

\* The NOC location a slot reaches: what the card's register says.
Reached(slot) == IF slot.index \in Indices /\ regs[slot.index] # None
                   THEN Loc(regs[slot.index].tile, regs[slot.index].block, slot.off)
                   ELSE Loc("nowhere", <<"none", 0>>, slot.off)

\* The second translation: an access to the PCIe tile through entry i goes to
\* the DBI if the entry's word in SII_A says so, else onto the bus.
ThroughEntry(l) ==
  IF l.block[1] # "ENTRY" THEN l
  ELSE LET data == Loc(l.tile, SII, l.block[2])
       IN  IF data \in DOMAIN mem /\ mem[data] = "dbi"
             THEN [l EXCEPT !.block = DBI]
             ELSE [l EXCEPT !.block = <<"BUS", 0>>]

Target(w, k) == ThroughEntry(Reached(BarSlot(w, k)))

\* volatile loads and stores, memcpy.
Access(t) ==
  LET s == Step(t)
      w == wins[t][s.at]
      l == Target(w, s.off)
  IN  /\ AtStep(t, {"load", "store"})
      /\ InBounds(w, s)
      /\ mem' = IF s.do = "load" THEN mem
                ELSE [x \in DOMAIN mem \cup {l} |-> IF x = l THEN s.val ELSE mem[x]]
      /\ Advance(t)
      /\ UNCHANGED <<setup, device, free, wins, lost, regs, writer>>

AccessSwallowed(t) ==
  /\ AtStep(t, {"load", "store"})
  /\ ~ InBounds(wins[t][Step(t).at], Step(t))
  /\ Advance(t)
  /\ UNCHANGED <<setup, device, free, wins, lost, regs, writer, mem>>

\* "Out of bounds access".
AccessThrows(t) ==
  /\ AtStep(t, {"load", "store"})
  /\ ~ InBounds(wins[t][Step(t).at], Step(t))
  /\ Throw(t)
  /\ UNCHANGED <<setup, device, free, wins, lost, regs, writer, mem>>

\* configure_iatu_region's stores go to BAR2 directly.
PokeBar2(t) ==
  LET s == Step(t)
  IN  /\ AtStep(t, {"poke"})
      /\ mem' = [x \in DOMAIN mem \cup {s.for} |-> IF x = s.for THEN s.val ELSE mem[x]]
      /\ Advance(t)
      /\ UNCHANGED <<setup, device, free, wins, lost, regs, writer>>

\* map_for_dma: throws if the ioctl fails.
PinPages(t) ==
  /\ AtStep(t, {"pin"})
  /\ \/ Advance(t)
     \/ "pin_fail" \in events /\ Throw(t)
  /\ UNCHANGED <<setup, device, free, wins, lost, regs, writer, mem>>

Next == \/ \E p \in Procs : \/ OpenDevice(p) \/ CloseDevice(p)
                            \/ \E m \in {{}, {"bar0"}, {"bar0", "bar2"}} : OpenFails(p, m)
        \/ \E t \in Threads : \/ MapWindow(t) \/ MapBadAlloc(t) \/ MapThrows(t)
                              \/ FreeWindow(t) \/ Unwind(t)
                              \/ Access(t) \/ AccessThrows(t)
                              \/ PokeBar2(t) \/ PinPages(t)

Spec == Init /\ [][Next]_vars

-----------------------------------------------------------------------------
(***************************************************************************)
(* Properties.                                                             *)
(***************************************************************************)

OneProcess == \A t, u \in Threads : proc[t] = proc[u]

Held(p) == UNION {{wins[t][k].index : k \in DOMAIN wins[t]} : t \in ThreadsOf(p)}

\* Types; a window object never claims more than what is left of its window.
TypeOK ==
  /\ proc \in [Threads -> Procs]
  /\ thrown \subseteq Threads
  /\ dev \in [Procs -> {"none", "open", "failed", "closed"}]
  /\ bars \in [Procs -> SUBSET {"bar0", "bar2", "bar4"}]
  /\ \A p \in Procs, k \in Kinds : free[p][k] \in Seq(Indices)
  /\ lost \in [Procs -> SUBSET Indices]
  /\ DOMAIN regs = Indices
  /\ writer \in [Indices -> Procs \cup {None}]
  /\ \A t \in Threads : \A k \in DOMAIN wins[t] :
       LET w == wins[t][k]
       IN  w.index \in Indices /\ w.size >= 1 /\ w.off + w.size <= Words(w.kind)

\* Within a process every index is exactly once on its own kind's free list, in
\* a live window object, or lost to a bad_alloc: however threads interleave
\* map_tlb_*, release and exceptions, no index is handed out twice, and a
\* release never strays to the list of the other caching type.  The kernel's
\* index ("HACK: reserve one for kernel", blackhole_pcie.cpp:36) is never among
\* them, and no process ever writes its register.
IndicesConserved ==
  \A p \in {p \in Procs : dev[p] \in {"open", "closed"}} :
    /\ \A k \in Kinds : ToSet(free[p][k]) \subseteq IndicesOf(k)
                        /\ IsInjective(free[p][k])
    /\ \A t, u \in ThreadsOf(p) : \A j \in DOMAIN wins[t], k \in DOMAIN wins[u] :
         wins[t][j].index = wins[u][k].index => t = u /\ j = k
    /\ LET listed == UNION {ToSet(free[p][k]) : k \in Kinds}
       IN  /\ listed \cap Held(p) = {}
           /\ (listed \cup Held(p)) \cap lost[p] = {}
           /\ listed \cup Held(p) \cup lost[p] = Indices \ {KernelIndex}
    /\ writer[KernelIndex] = None

\* A load or store that TlbWindow does not refuse reaches the tile and address
\* that the program means, through the host's TLB and, for the DBI, through the
\* PCIe tile's entry 20 too.  Two exceptions, and no other: the word at offset
\* size(), which the check (tlb_window.hpp:81) accepts and which belongs to the
\* next window; and windows that another process re-aimed, because it has the
\* same index on its own free list (blackhole_pcie.hpp:43), entry 20 included.
AccessReaches ==
  \A t \in Threads :
    AtStep(t, {"load", "store"}) =>
      LET s == Step(t)
          w == wins[t][s.at]
      IN  InBounds(w, s) =>
            \/ /\ Target(w, s.off) = s.for
               /\ BarSlot(w, s.off + s.n - 1).index = w.index
            \/ s.n = 1 /\ s.off = w.size
            \/ writer[w.index] # proc[t]
            \/ s.for.block = DBI /\ ~ OneProcess

\* A register the program of t stores to at step k, not stored to again by t
\* later, nor by any other thread.
LastStore(t, k) ==
  /\ prog[t][k].do \in {"store", "poke"}
  /\ \A u \in Threads : \A j \in DOMAIN prog[u] :
       (/\ prog[u][j].do \in {"store", "poke"}
        /\ prog[u][j].for = prog[t][k].for) => (u = t /\ j <= k)

\* A program that ran to its end left what it meant to leave: every TLB word of
\* the X280, PCIe entry, iATU, prefetcher and reset register has the value the
\* program stored last, whatever other threads of the process did meanwhile.
ProgramsDeliver ==
  OneProcess =>
    \A t \in Threads : Finished(t) /\ t \notin thrown =>
      \A k \in DOMAIN prog[t] : LastStore(t, k) =>
        /\ prog[t][k].for \in DOMAIN mem
        /\ mem[prog[t][k].for] = prog[t][k].val
=============================================================================
