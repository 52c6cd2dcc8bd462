---------------------------- MODULE HostPrograms ----------------------------
(***************************************************************************)
(* What the host programs of blackhole-thing do to the chip, as sequences  *)
(* of the operations of BlackholePciDevice and TlbWindow: the register     *)
(* routines of L2CPU (l2cpu_core.hpp) and PCIeCore (pcie_core.hpp), and    *)
(* the programs memory_for_x280, tensix_reset, mmio_bench, iommu_test and  *)
(* the set-up of x280-net.  HostTlb executes them.                         *)
(*                                                                         *)
(* An address is a block (what a TLB register can hold, its high bits) and *)
(* a word offset in the block.  Offsets are scaled: a 2M window has        *)
(* Words("UC") words, the registers keep their order and do not overlap.   *)
(***************************************************************************)
EXTENDS Integers, SequencesExt

\* Words of a window of each kind: TLB size 1 << 21 and 1 << 32.
Words(kind) == IF kind = "4G" THEN 32 ELSE 24

Loc(tile, block, off) == [tile |-> tile, block |-> block, off |-> off]

\* Steps.  at: which of the windows the thread holds; for: what the program
\* means to reach with this access.
MapStep(kind, tile, block, off) ==
  [do |-> "map", kind |-> kind, to |-> Loc(tile, block, off)]
Store(at, off, val, loc) ==
  [do |-> "store", at |-> at, off |-> off, n |-> 1, val |-> val, for |-> loc]
Load(at, off, n, loc) ==
  [do |-> "load", at |-> at, off |-> off, n |-> n, for |-> loc]
FreeStep == [do |-> "free"]
Poke(off, val) == [do |-> "poke", val |-> val, for |-> Loc("pcie", <<"BAR2", 0>>, off)]
Pin == [do |-> "pin"]

-----------------------------------------------------------------------------
\* L2CPU::read32 and write32: a window for one access, at its bottom.
read32(tile, block, off) ==
  <<MapStep("UC", tile, block, off), Load(1, 0, 1, Loc(tile, block, off)), FreeStep>>
write32(tile, block, off, val) ==
  <<MapStep("UC", tile, block, off), Store(1, 0, val, Loc(tile, block, off)), FreeStep>>

\* L2CPU_REGISTERS starts in the middle of a 2M block: the window that is
\* mapped there is only half as large.
REGS == <<"L2CPU_REGISTERS", 0>>
REGS_OFF == 12

\* Register words of the X280's own TLBs (one 2M entry in this scale).
Tlb2MWord(index, j) == (4 * index) + j
Tlb128GWord(index, j) == 4 + (3 * index) + j

\* The window is mapped once and written word by word.
configure_noc_tlb_2M(tile, index, config) ==
  <<MapStep("UC", tile, REGS, REGS_OFF)>>
  \o [j \in 1..4 |-> Store(1, Tlb2MWord(index, j - 1), <<config, j>>,
                           Loc(tile, REGS, REGS_OFF + Tlb2MWord(index, j - 1)))]
  \o <<FreeStep>>

configure_noc_tlb_128G(tile, index, config) ==
  <<MapStep("UC", tile, REGS, REGS_OFF)>>
  \o [j \in 1..3 |-> Store(1, Tlb128GWord(index, j - 1), <<config, j>>,
                           Loc(tile, REGS, REGS_OFF + Tlb128GWord(index, j - 1)))]
  \o <<FreeStep>>

print_noc_tlb_2M(tile, index) ==
  <<MapStep("UC", tile, REGS, REGS_OFF)>>
  \o [j \in 1..4 |-> Load(1, Tlb2MWord(index, j - 1), 1,
                          Loc(tile, REGS, REGS_OFF + Tlb2MWord(index, j - 1)))]
  \o <<FreeStep>>

print_noc_tlb_128G(tile, index) ==
  <<MapStep("UC", tile, REGS, REGS_OFF)>>
  \o [j \in 1..3 |-> Load(1, Tlb128GWord(index, j - 1), 1,
                          Loc(tile, REGS, REGS_OFF + Tlb128GWord(index, j - 1)))]
  \o <<FreeStep>>

\* Two of the four prefetchers: read and write both control words.
configure_prefetcher(tile, ctrl0, ctrl1) ==
  LET PREFETCH == <<"L2CPU_PREFETCH", 0>>
      Unit(u) == read32(tile, PREFETCH, 2 * u) \o write32(tile, PREFETCH, 2 * u, ctrl0)
                 \o read32(tile, PREFETCH, (2 * u) + 1)
                 \o write32(tile, PREFETCH, (2 * u) + 1, ctrl1)
  IN  Unit(0) \o Unit(1)

-----------------------------------------------------------------------------
\* PCIeCore.  SII_A holds one word per NOC->PCIe TLB entry; the accesses of
\* entry i are those at i << 58, and go to the DBI if the entry says so.
SII == <<"SII_A", 0>>
ENTRY(i) == <<"ENTRY", i>>
DBI == <<"DBI", 0>>
DBI_TLB_INDEX == 20

write_sii32(tile, off, val) ==
  <<MapStep("UC", tile, SII, 0), Store(1, off, val, Loc(tile, SII, off)), FreeStep>>
read_sii32(tile, off) ==
  <<MapStep("UC", tile, SII, 0), Load(1, off, 1, Loc(tile, SII, off)), FreeStep>>

configure_noc_tlb_data(tile, index, data) ==
  <<MapStep("UC", tile, SII, 0), Store(1, index, data, Loc(tile, SII, index)), FreeStep>>

dump_noc_tlb_data(tile, index) ==
  <<MapStep("UC", tile, SII, 0), Load(1, index, 1, Loc(tile, SII, index)), FreeStep>>

write_dbi_register(tile, off, val) ==
  configure_noc_tlb_data(tile, DBI_TLB_INDEX, "dbi")
  \o <<MapStep("UC", tile, ENTRY(DBI_TLB_INDEX), off),
       Store(1, 0, val, Loc(tile, DBI, off)), FreeStep>>

read_dbi_register(tile, off) ==
  configure_noc_tlb_data(tile, DBI_TLB_INDEX, "dbi")
  \o <<MapStep("UC", tile, ENTRY(DBI_TLB_INDEX), off),
       Load(1, 0, 1, Loc(tile, DBI, off)), FreeStep>>

\* Register j of inbound iATU region r; a region has 9 words in this scale.
IatuReg(r, j) == (9 * r) + j

\* Seven registers of the region; the eighth write adds the upper limit's
\* offset to base, the PCIe address, instead of to reg_base.  A region that does
\* not exist throws before the first write.
configure_inbound_iatu(tile, region, base) ==
  IF region >= 16 THEN <<>>
  ELSE FlattenSeq([j \in 1..7 |-> write_dbi_register(tile, IatuReg(region, j - 1),
                                                    <<"iatu", j>>)])
       \o write_dbi_register(tile, base + 8, <<"iatu", 8>>)

-----------------------------------------------------------------------------
\* BlackholePciDevice::configure_iatu_region: nine stores to BAR2, no window.
configure_iatu_region(region, target) ==
  [j \in 1..9 |-> Poke(IatuReg(region, j - 1), <<target, j>>)]

\* memory_for_x280: pin a buffer, aim iATU region 0 at it, and X280 window 0
\* at NOC->PCIe entry 4.
memory_for_x280 ==
  <<Pin>> \o configure_iatu_region(0, "iova")
  \o configure_noc_tlb_128G("l2cpu", 0, "entry4")

\* memory_for_x280.cpp, wtf(): the X280 windows 0 and 1 to two PCIe entries,
\* then a pattern in another L2CPU's DRAM and window 0 aimed there.
wtf == configure_noc_tlb_data("pcie", 0, "dbi")
       \o configure_noc_tlb_128G("l2cpu", 0, "entry0")
       \o configure_noc_tlb_data("pcie", 1, "bypass")
       \o configure_noc_tlb_128G("l2cpu", 1, "entry1")
       \o write32("dram", <<"DRAM", 0>>, 0, "magic")
       \o configure_noc_tlb_128G("l2cpu", 0, "other")
       \o configure_noc_tlb_2M("l2cpu", 0, "other")

\* memory_for_x280.cpp, figure_x280_dram_relationship(): marks in the DRAMs,
\* read back directly and through the L2CPU's two ports.
figure_x280_dram_relationship ==
  write32("dram", <<"DRAM", 0>>, 0, "beef0") \o write32("dram2", <<"DRAM", 0>>, 0, "beef1")
  \o read32("dram", <<"DRAM", 0>>, 0) \o read32("dram2", <<"DRAM", 0>>, 0)
  \o read32("l2cpu", <<"SYSTEM_PORT", 0>>, 0) \o read32("l2cpu", <<"MEMORY_PORT", 0>>, 0)

\* tensix_reset: assert, deassert and assert again, tile after tile.
tensix_reset ==
  LET Reset(x, v) == write32(x, <<"RESET", 0>>, 5, v)
      Tile(x) == Reset(x, "asserted") \o Reset(x, "deasserted") \o Reset(x, "asserted")
  IN  Tile("tensix1") \o Tile("tensix2")

\* x280-net: two 4G windows for as long as the program runs, the shared memory
\* and the interrupt register (destroyed in the reverse order).
x280_net ==
  <<MapStep("4G", "l2cpu", <<"NET_BUFFERS", 0>>, 3),
    MapStep("4G", "l2cpu", <<"X280_REGS", 0>>, 7),
    Store(1, 2, "packet", Loc("l2cpu", <<"NET_BUFFERS", 0>>, 5)),
    Store(2, 1, "irq", Loc("l2cpu", <<"X280_REGS", 0>>, 8)),
    FreeStep, FreeStep>>

\* mmio_bench: blocks of growing size from the bottom of one 4G window.
mmio_bench ==
  <<MapStep("4G", "dram", <<"DRAM", 0>>, 0)>>
  \o [k \in 1..2 |-> Load(1, 0, 16 * k, Loc("dram", <<"DRAM", 0>>, 0))]
  \o <<FreeStep>>

\* iommu_test, test2(): the pinned buffer read back through the PCIe tile.
iommu_test == <<Pin>> \o read32("pcie", <<"IOVA", 0>>, 0)
-----------------------------------------------------------------------------
(***************************************************************************)
(* What the proofs ask of programs (the programs above comply).            *)
(***************************************************************************)
Writes(s) == s.do \in {"store", "poke"}

\* scope[j] lists, for step j of program P, the steps that mapped the windows
\* in use, oldest first.
Scoped(P, scope) ==
  /\ \A j \in 1..Len(P)+1 : scope[j] \in Seq(1..Len(P))
  /\ scope[1] = <<>>
  /\ \A j \in 1..Len(P) :
       CASE P[j].do = "map"  -> scope[j+1] = Append(scope[j], j)
         [] P[j].do = "free" -> scope[j] # <<>> /\ scope[j+1] = Front(scope[j])
         [] OTHER            -> scope[j+1] = scope[j]

\* The word of SII_A that access to the PCIe tile depends on, for a window that
\* map step m made.
EntryWord(m) == Loc(m.to.tile, SII, m.to.block[2])

\* Access s means the words behind the address m was mapped for, or the DBI's
\* behind the PCIe tile's entry; no store is aimed at the word behind the window.
Means(s, m) ==
  /\ s.off \in Nat /\ s.n \in Nat \ {0}
  /\ s.for = Loc(m.to.tile, IF m.to.block[1] = "ENTRY" THEN DBI ELSE m.to.block,
                 m.to.off + s.off)
  /\ s.do = "store" => s.n = 1 /\ s.off # Words(m.kind) - m.to.off

\* A program that uses an entry has pointed it at the DBI before, and nobody
\* points it elsewhere.
PointsEntry(progs, t, j, m) ==
  m.to.block[1] = "ENTRY" =>
    /\ \E i \in 1..j-1 : Writes(progs[t][i]) /\ progs[t][i].for = EntryWord(m)
    /\ \A u \in DOMAIN progs : \A i \in 1..Len(progs[u]) :
         Writes(progs[u][i]) /\ progs[u][i].for = EntryWord(m) => progs[u][i].val = "dbi"

WellWritten(progs, scopes) ==
  \A t \in DOMAIN progs :
    LET P == progs[t]
        scope == scopes[P]
    IN  /\ Scoped(P, scope)
        /\ \A j \in 1..Len(P) : P[j].do \in {"load", "store"} =>
             /\ P[j].at \in DOMAIN scope[j]
             /\ Means(P[j], P[scope[j][P[j].at]])
             /\ PointsEntry(progs, t, j, P[scope[j][P[j].at]])
=============================================================================
