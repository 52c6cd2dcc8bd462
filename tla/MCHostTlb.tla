----------------------------- MODULE MCHostTlb -----------------------------
(***************************************************************************)
(* HostTlb with two threads that each run one of the host programs.        *)
(***************************************************************************)
EXTENDS HostTlb

CONSTANTS t1, t2, p1, p2

Pair(a, b, p, e) == [proc |-> (t1 :> p1 @@ t2 :> p), prog |-> (t1 :> a @@ t2 :> b),
                     events |-> e]

\* Uses of the class that the programs of the repository do not make: a write-combined
\* window in the middle of its block, and offsets at and past its size().
wc_client ==
  <<MapStep("WC", "dram", <<"DRAM", 1>>, 20),
    Store(1, 3, "wc", Loc("dram", <<"DRAM", 1>>, 23)),
    Load(1, 4, 1, Loc("dram", <<"DRAM", 1>>, 24)),
    Store(1, 5, "past", Loc("dram", <<"DRAM", 1>>, 25)),
    FreeStep>>

\* A register of SII_A written, the TLBs printed.
dump == write_sii32("pcie", 22, "sii") \o print_noc_tlb_2M("l2cpu", 0)
        \o print_noc_tlb_128G("l2cpu", 0)
        \o dump_noc_tlb_data("pcie", 0) \o read_sii32("pcie", 22)

\* Threads of one process: long programs against each other, and one DBI
\* access against a whole iATU region.
Together ==
  {Pair(a, b, p1, e) :
     a \in {memory_for_x280, wtf, x280_net, mmio_bench, wc_client,
            configure_inbound_iatu("pcie", 1, 0)},
     b \in {figure_x280_dram_relationship, tensix_reset, x280_net, wc_client,
            iommu_test, configure_prefetcher("l2cpu", "ctrl0", "ctrl1"),
            read_dbi_register("pcie", 3) \o write_dbi_register("pcie", 3, "dbi3"),
            dump},
     e \in {{}, {"bad_alloc", "pin_fail"}}}

\* Two programs at the same time, as two processes.
Apart ==
  {Pair(a, b, p2, {}) :
     a \in {x280_net, wc_client, memory_for_x280,
            write_dbi_register("pcie", 1, "dbi1")},
     b \in {x280_net, wc_client, iommu_test, print_noc_tlb_128G("l2cpu", 0),
            write_dbi_register("pcie", 3, "dbi3")}}

MCSetups == Together \cup Apart
            \cup {Pair(wc_client, iommu_test, p, {"no_card"}) : p \in {p1, p2}}

\* The programs keep the rules under which HostTlbProofs shows that accesses
\* reach what they mean.
ScopeOf(P) ==
  LET scope[j \in 1..Len(P)+1] ==
        IF j = 1 THEN <<>>
        ELSE CASE P[j-1].do = "map"  -> Append(scope[j-1], j - 1)
               [] P[j-1].do = "free" -> Front(scope[j-1])
               [] OTHER              -> scope[j-1]
  IN  scope

ASSUME ProgramsAssumption ==
  LET scopes == [P \in {s.prog[t] : s \in MCSetups, t \in Threads} |-> ScopeOf(P)]
  IN  \A s \in MCSetups : WellWritten(s.prog, scopes)
=============================================================================
