----------------------------- MODULE MCX280Net -----------------------------
(***************************************************************************)
(* X280Net on rings of two or three slots.                                 *)
(***************************************************************************)
EXTENDS X280Net

Traffic == {"tap_traffic", "stack_traffic"}

\* Contents and order, one direction at a time.
FifoSetups == {{"tap_traffic", "alloc_fail"}, {"stack_traffic", "link_flap"}}

\* Both directions: the interrupt-driven interface that is up from the start,
\* without and with failing allocations, and the polling one in the worst
\* conditions.
ProgressSetups == {Traffic, Traffic \cup {"alloc_fail"},
                   Traffic \cup {"polling", "link_flap", "alloc_fail"}}

\* The interrupt-driven interface that comes up late.
LateSetups == {Traffic \cup {"link_flap"}}
=============================================================================
