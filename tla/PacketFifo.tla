----------------------------- MODULE PacketFifo -----------------------------
(***************************************************************************)
(* What one direction of the shared-memory network link promises: packets  *)
(* come out in the order they went in, each at most once, none invented,   *)
(* and at most Capacity are under way.                                     *)
(***************************************************************************)
EXTENDS Naturals, Sequences

CONSTANTS Packets, NoPacket, Capacity,
          Lossy         \* the reader may lose a packet it takes out

VARIABLES queue,        \* published, not yet taken
          out           \* the packet handed over last

Init == queue = <<>> /\ out = NoPacket

Enq(p) == /\ Len(queue) < Capacity
          /\ queue' = Append(queue, p)
          /\ UNCHANGED out

Deq == /\ queue # <<>>
       /\ queue' = Tail(queue)
       /\ out' = Head(queue) \/ (Lossy /\ UNCHANGED out)

Next == Deq \/ \E p \in Packets : Enq(p)

Spec == Init /\ [][Next]_<<queue, out>>
=============================================================================
