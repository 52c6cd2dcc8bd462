------------------------------- MODULE X280Net -------------------------------
(***************************************************************************)
(* The network link between an X280 and its PCIe host: two rings in X280   *)
(* memory, the Linux driver on the X280 (x280-net/l2cpu_net.c) and the     *)
(* user-space program on the host (blackhole-thing/x280-net.cpp), which    *)
(* moves packets between the rings and a TAP interface.                    *)
(*                                                                         *)
(* Actors: the host's loop; on the X280 the interrupt handler, the NAPI    *)
(* poll, the transmit path (serialised by the stack), the administrator    *)
(* who takes the link up and down and, with X280_POLLING_MODE, a timer.    *)
(* A step is one access to shared memory or to a kernel flag.              *)
(* Stores reach memory in program order (smp_wmb on the X280, a release    *)
(* fence on the host).  A packet is its payload; lengths within            *)
(* MAX_PACKET_SIZE are all alike, longer ones are Oversize.                *)
(***************************************************************************)
EXTENDS Naturals, Sequences

CONSTANTS N,            \* NUM_PACKETS
          Budget,       \* NAPI budget
          RxPackets,    \* what the host's TAP interface can yield
          TxPackets,    \* what the X280's stack sends
          Oversize,     \* the TxPackets longer than MAX_PACKET_SIZE
          NoPacket,
          Setups        \* the setups to consider, each a set of Features

(***************************************************************************)
(*   tap_traffic    the host's TAP interface yields packets                *)
(*   stack_traffic  the X280's stack sends packets                         *)
(*   polling        the driver is built with X280_POLLING_MODE             *)
(*   link_flap      the interface starts down and may go down again        *)
(*   alloc_fail     netdev_alloc_skb may return NULL                       *)
(***************************************************************************)
Features == {"tap_traffic", "stack_traffic", "polling", "link_flap",
             "alloc_fail"}

ASSUME RingAssumption == N \in Nat /\ N > 1 /\ Budget \in Nat \ {0}
ASSUME SetupsAssumption == Setups \subseteq SUBSET Features
ASSUME PacketAssumption ==
  Oversize \subseteq TxPackets /\ NoPacket \notin RxPackets \cup TxPackets

VARIABLES setup,                      \* fixed: how this system was built
          rx_slot, rx_head, rx_tail,  \* ring Host -> X280
          tx_slot, tx_head, tx_tail,  \* ring X280 -> Host
          host_pc, buffer, tap_out,   \* host loop, read buffer, TAP output
          irq_bit, irq_pc,            \* bit 27 of register 0x404, handler
          napi, missed,               \* NAPI state and its MISSED bit
          poll_pc, work_done, stack_out,  \* x280_net_poll, received packet
          up, queue_stopped,          \* interface up, netif_stop_queue
          skb, xmit_pc                \* packet the stack wants sent, xmit

rxVars == <<rx_slot, rx_head, rx_tail>>
txVars == <<tx_slot, tx_head, tx_tail>>
hostVars == <<host_pc, buffer, tap_out>>
irqVars == <<irq_bit, irq_pc>>
napiVars == <<napi, missed>>
pollVars == <<poll_pc, work_done, stack_out>>
linkVars == <<up, queue_stopped>>
xmitVars == <<skb, xmit_pc>>
vars == <<setup, rxVars, txVars, hostVars, irqVars, napiVars, pollVars,
          linkVars, xmitVars>>

Slots == 0..N-1
SuccUnwrapped(i) == i + 1
Succ(i) == (i + 1) % N

\* One slot stays empty, or head = tail would be ambiguous.
FullIgnored(head, tail) == FALSE
Full(head, tail) == Succ(head) = tail

-----------------------------------------------------------------------------
\* After x280_net_probe: indices zero, NAPI added but not enabled.
Init == /\ setup \in Setups
        /\ rx_slot \in [Slots -> {NoPacket}] /\ rx_head = 0 /\ rx_tail = 0
        /\ tx_slot \in [Slots -> {NoPacket}] /\ tx_head = 0 /\ tx_tail = 0
        /\ host_pc = "select" /\ buffer = NoPacket /\ tap_out = NoPacket
        /\ irq_bit = FALSE /\ irq_pc = "idle"
        /\ up = ("link_flap" \notin setup) /\ queue_stopped = FALSE
        /\ napi = (IF up THEN "idle" ELSE "disabled") /\ missed = FALSE
        /\ poll_pc = "check" /\ work_done = 0 /\ stack_out = NoPacket
        /\ skb = NoPacket /\ xmit_pc = "check"

-----------------------------------------------------------------------------
(***************************************************************************)
(* The host's loop.  select() has a 1 us timeout and never blocks.         *)
(***************************************************************************)
HostIdle == /\ host_pc = "select"
            /\ host_pc' = "drain"
            /\ UNCHANGED <<setup, rxVars, txVars, buffer, tap_out, irqVars,
                           napiVars, pollVars, linkVars, xmitVars>>

\* A packet from the TAP interface; it is dropped when the ring is full.
HostRead(p) ==
  /\ host_pc = "select" /\ "tap_traffic" \in setup
  /\ IF Full(rx_head, rx_tail)
       THEN host_pc' = "drain" /\ UNCHANGED buffer
       ELSE host_pc' = "slot" /\ buffer' = p
  /\ UNCHANGED <<setup, rxVars, txVars, tap_out, irqVars, napiVars, pollVars,
                 linkVars, xmitVars>>

HostSlot ==
  /\ host_pc = "slot"
  /\ rx_slot' = [rx_slot EXCEPT ![rx_head] = buffer]
  /\ buffer' = NoPacket
  /\ host_pc' = "head"
  /\ UNCHANGED <<setup, rx_head, rx_tail, txVars, tap_out, irqVars, napiVars,
                 pollVars, linkVars, xmitVars>>

HostHead ==
  /\ host_pc = "head"
  /\ rx_head' = Succ(rx_head)
  /\ host_pc' = "irq"
  /\ UNCHANGED <<setup, rx_slot, rx_tail, txVars, buffer, tap_out, irqVars,
                 napiVars, pollVars, linkVars, xmitVars>>

HostIrq ==
  /\ host_pc = "irq"
  /\ irq_bit' = TRUE
  /\ host_pc' = "drain"
  /\ UNCHANGED <<setup, rxVars, txVars, buffer, tap_out, irq_pc, napiVars,
                 pollVars, linkVars, xmitVars>>

\* while (tx_tail != tx_head): write to the TAP (which may fail: the packet is
\* lost), then free the slot.
HostDrain(ok) ==
  /\ host_pc = "drain"
  /\ IF tx_tail = tx_head
       THEN host_pc' = "select" /\ UNCHANGED tap_out
       ELSE /\ host_pc' = "free"
            /\ tap_out' = IF ok THEN tx_slot[tx_tail] ELSE tap_out
  /\ UNCHANGED <<setup, rxVars, txVars, buffer, irqVars, napiVars, pollVars,
                 linkVars, xmitVars>>

HostFree ==
  /\ host_pc = "free"
  /\ tx_tail' = Succ(tx_tail)
  /\ host_pc' = "drain"
  /\ UNCHANGED <<setup, rxVars, tx_slot, tx_head, buffer, tap_out, irqVars,
                 napiVars, pollVars, linkVars, xmitVars>>

HostStep == \/ HostIdle \/ HostSlot \/ HostHead \/ HostIrq \/ HostFree
            \/ \E p \in RxPackets : HostRead(p)
            \/ \E ok \in BOOLEAN : HostDrain(ok)

-----------------------------------------------------------------------------
(***************************************************************************)
(* NAPI (external: Linux).  napi_schedule_prep on an instance that is      *)
(* already scheduled, or disabled, only sets MISSED; napi_complete_done    *)
(* schedules again if MISSED was set.                                      *)
(***************************************************************************)
ScheduleForgets ==
  /\ napi' = IF napi = "idle" THEN "sched" ELSE napi
  /\ UNCHANGED missed

Schedule == IF napi = "idle" THEN napi' = "sched" /\ UNCHANGED missed
                             ELSE missed' = TRUE /\ UNCHANGED napi

Complete == /\ napi' = IF missed THEN "sched" ELSE "idle"
            /\ missed' = FALSE

\* x280_irq_handler: read the status, write it back with bit 27 clear (a host
\* write in between is lost), wake the queue, schedule NAPI.
IrqRead == /\ irq_pc = "idle" /\ irq_bit
           /\ irq_pc' = "clear"
           /\ UNCHANGED <<setup, rxVars, txVars, hostVars, irq_bit, napiVars,
                          pollVars, linkVars, xmitVars>>

IrqClear == /\ irq_pc = "clear"
            /\ irq_bit' = FALSE
            /\ irq_pc' = "schedule"
            /\ UNCHANGED <<setup, rxVars, txVars, hostVars, napiVars, pollVars,
                           linkVars, xmitVars>>

IrqScheduleNoWake ==
  /\ irq_pc = "schedule"
  /\ Schedule
  /\ irq_pc' = "idle"
  /\ UNCHANGED <<setup, rxVars, txVars, hostVars, irq_bit, pollVars, linkVars,
                 xmitVars>>

IrqSchedule == /\ irq_pc = "schedule"
               /\ queue_stopped' = FALSE
               /\ Schedule
               /\ irq_pc' = "idle"
               /\ UNCHANGED <<setup, rxVars, txVars, hostVars, irq_bit,
                              pollVars, up, xmitVars>>

\* x280_timer_cb, every 10 ms from probe on.  It does not wake the queue.
TimerTick == /\ "polling" \in setup
             /\ Schedule
             /\ UNCHANGED <<setup, rxVars, txVars, hostVars, irqVars, pollVars,
                            linkVars, xmitVars>>

-----------------------------------------------------------------------------
(***************************************************************************)
(* x280_net_poll.                                                          *)
(***************************************************************************)
PollReady == napi = "sched" /\ poll_pc = "check" /\ work_done < Budget

PollCheck == /\ PollReady
             /\ rx_tail # rx_head
             /\ poll_pc' = "copy"
             /\ UNCHANGED <<setup, rxVars, txVars, hostVars, irqVars, napiVars,
                            work_done, stack_out, linkVars, xmitVars>>

PollCopy == /\ poll_pc = "copy"
            /\ stack_out' = rx_slot[rx_tail]
            /\ poll_pc' = "free"
            /\ UNCHANGED <<setup, rxVars, txVars, hostVars, irqVars, napiVars,
                           work_done, linkVars, xmitVars>>

PollFree == /\ poll_pc = "free"
            /\ rx_tail' = Succ(rx_tail)
            /\ work_done' = work_done + 1
            /\ poll_pc' = "check"
            /\ UNCHANGED <<setup, rx_slot, rx_head, txVars, hostVars, irqVars,
                           napiVars, stack_out, linkVars, xmitVars>>

\* Out of packets (the ring was seen empty), or out of memory for an skb: the
\* poll breaks off with budget to spare and completes in a step of its own.
PollBreak == /\ \/ PollReady /\ rx_tail = rx_head
                \/ poll_pc = "copy" /\ "alloc_fail" \in setup
             /\ poll_pc' = "complete"
             /\ UNCHANGED <<setup, rxVars, txVars, hostVars, irqVars, napiVars,
                            work_done, stack_out, linkVars, xmitVars>>

PollComplete == /\ poll_pc = "complete"
                /\ Complete
                /\ poll_pc' = "check"
                /\ work_done' = 0
                /\ UNCHANGED <<setup, rxVars, txVars, hostVars, irqVars,
                               stack_out, linkVars, xmitVars>>

\* The whole budget was used: no napi_complete_done, the core polls again.
PollAgain == /\ napi = "sched" /\ poll_pc = "check" /\ work_done = Budget
             /\ work_done' = 0
             /\ UNCHANGED <<setup, rxVars, txVars, hostVars, irqVars, napiVars,
                            poll_pc, stack_out, linkVars, xmitVars>>

-----------------------------------------------------------------------------
(***************************************************************************)
(* The transmit path.  The stack offers a packet and retries it after      *)
(* NETDEV_TX_BUSY; it calls xmit only while the queue is not stopped.      *)
(***************************************************************************)
StackSend(p) == /\ "stack_traffic" \in setup
                /\ skb = NoPacket /\ xmit_pc = "check"
                /\ skb' = p
                /\ UNCHANGED <<setup, rxVars, txVars, hostVars, irqVars,
                               napiVars, pollVars, linkVars, xmit_pc>>

XmitAnySize ==
  /\ xmit_pc = "check" /\ skb # NoPacket /\ up /\ ~ queue_stopped
  /\ xmit_pc' = IF Full(tx_head, tx_tail) THEN "stop" ELSE "slot"
  /\ UNCHANGED <<setup, rxVars, txVars, hostVars, irqVars, napiVars, pollVars,
                 linkVars, skb>>

XmitCheck ==
  /\ xmit_pc = "check" /\ skb # NoPacket /\ up /\ ~ queue_stopped
  /\ CASE skb \in Oversize -> skb' = NoPacket /\ UNCHANGED xmit_pc
       [] skb \notin Oversize /\ Full(tx_head, tx_tail) ->
            xmit_pc' = "stop" /\ UNCHANGED skb
       [] OTHER -> xmit_pc' = "slot" /\ UNCHANGED skb
  /\ UNCHANGED <<setup, rxVars, txVars, hostVars, irqVars, napiVars, pollVars,
                 linkVars>>

XmitStop == /\ xmit_pc = "stop"
            /\ queue_stopped' = TRUE
            /\ xmit_pc' = "check"
            /\ UNCHANGED <<setup, rxVars, txVars, hostVars, irqVars, napiVars,
                           pollVars, up, skb>>

XmitSlot == /\ xmit_pc = "slot"
            /\ tx_slot' = [tx_slot EXCEPT ![tx_head] = skb]
            /\ xmit_pc' = "head"
            /\ UNCHANGED <<setup, rxVars, tx_head, tx_tail, hostVars, irqVars,
                           napiVars, pollVars, linkVars, skb>>

XmitHead == /\ xmit_pc = "head"
            /\ tx_head' = Succ(tx_head)
            /\ skb' = NoPacket
            /\ xmit_pc' = "check"
            /\ UNCHANGED <<setup, rxVars, tx_slot, tx_tail, hostVars, irqVars,
                           napiVars, pollVars, linkVars>>

-----------------------------------------------------------------------------
\* x280_net_open.  A MISSED bit left over from before stays set.
LinkUp == /\ ~ up
          /\ up' = TRUE
          /\ napi' = "idle"
          /\ queue_stopped' = FALSE
          /\ UNCHANGED <<setup, rxVars, txVars, hostVars, irqVars, missed,
                         pollVars, xmitVars>>

\* x280_net_stop: napi_disable waits for a running poll, the stack for xmit.
LinkDown == /\ "link_flap" \in setup
            /\ up /\ napi = "idle" /\ xmit_pc = "check"
            /\ up' = FALSE
            /\ napi' = "disabled"
            /\ queue_stopped' = TRUE
            /\ UNCHANGED <<setup, rxVars, txVars, hostVars, irqVars, missed,
                           pollVars, xmitVars>>

-----------------------------------------------------------------------------
IrqStep == IrqRead \/ IrqClear \/ IrqSchedule
PollStep == \/ PollCheck \/ PollCopy \/ PollFree
            \/ PollBreak \/ PollComplete \/ PollAgain
XmitStep == XmitCheck \/ XmitStop \/ XmitSlot \/ XmitHead

Next == \/ HostStep \/ IrqStep \/ TimerTick \/ PollStep \/ XmitStep
        \/ \E p \in TxPackets : StackSend(p)
        \/ LinkUp \/ LinkDown

Spec == Init /\ [][Next]_vars

(***************************************************************************)
(* The host's loop keeps running; a pending interrupt is taken, a          *)
(* scheduled poll and a started transmission run, the timer fires, and an  *)
(* skb allocation that is retried forever succeeds eventually.  Neither    *)
(* the TAP interface nor the stack need ever offer a packet.               *)
(***************************************************************************)
FairSpec == /\ Spec
            /\ WF_vars(HostStep) /\ WF_vars(IrqStep) /\ WF_vars(TimerTick)
            /\ WF_vars(PollStep) /\ SF_vars(PollCopy) /\ WF_vars(XmitStep)

-----------------------------------------------------------------------------
(***************************************************************************)
(* Properties.                                                             *)
(***************************************************************************)

\* Types: indices stay inside the rings, slots hold packets.
TypeOK ==
  /\ setup \in Setups
  /\ rx_slot \in [Slots -> RxPackets \cup {NoPacket}]
  /\ tx_slot \in [Slots -> TxPackets \cup {NoPacket}]
  /\ {rx_head, rx_tail, tx_head, tx_tail} \subseteq Slots
  /\ host_pc \in {"select", "slot", "head", "irq", "drain", "free"}
  /\ buffer \in RxPackets \cup {NoPacket}
  /\ tap_out \in TxPackets \cup {NoPacket}
  /\ irq_bit \in BOOLEAN /\ irq_pc \in {"idle", "clear", "schedule"}
  /\ napi \in {"disabled", "idle", "sched"} /\ missed \in BOOLEAN
  /\ poll_pc \in {"check", "copy", "free", "complete"}
  /\ work_done \in 0..Budget
  /\ stack_out \in RxPackets \cup {NoPacket}
  /\ up \in BOOLEAN /\ queue_stopped \in BOOLEAN
  /\ skb \in TxPackets \cup {NoPacket}
  /\ xmit_pc \in {"check", "stop", "slot", "head"}

\* The published packets of a ring whose first `taken` ones were handed over.
Published(slot, head, tail, taken) ==
  LET first == (tail + taken) % N
  IN  [i \in 1..((head + N - first) % N) |-> slot[(first + i - 1) % N]]

Rx == INSTANCE PacketFifo
        WITH Packets <- RxPackets, Capacity <- N - 1, Lossy <- FALSE,
             queue <- Published(rx_slot, rx_head, rx_tail,
                                IF poll_pc = "free" THEN 1 ELSE 0),
             out <- stack_out
Tx == INSTANCE PacketFifo
        WITH Packets <- TxPackets \ Oversize, Capacity <- N - 1, Lossy <- TRUE,
             queue <- Published(tx_slot, tx_head, tx_tail,
                                IF host_pc = "free" THEN 1 ELSE 0),
             out <- tap_out

\* Host -> X280: the stack receives the host's packets in order, none twice,
\* none lost once published, through budget exhaustion and failed allocations.
RxFifo == Rx!Spec

\* X280 -> host: the TAP gets the X280's packets in order, none twice; only a
\* failed TAP write loses one, and no oversized packet gets into the ring.
TxFifo == Tx!Spec

\* The interrupt-driven driver after a failed allocation: poll has completed with
\* packets left, nothing is pending, and only an interrupt would poll again.
\* (The host raises none while the ring is full.)
Starved == /\ "alloc_fail" \in setup /\ "polling" \notin setup
           /\ napi = "idle" /\ irq_pc = "idle" /\ ~ irq_bit

\* A packet waiting in the rx ring of an interface that stays up is eventually
\* received: no interrupt is lost between the host's write, the handler's
\* read-modify-write, MISSED and the end of a poll.  There is one exception:
\* without the polling timer, a failed netdev_alloc_skb ends the poll and may
\* be the last thing that ever happens to this packet.
RxProgress ==
  \A i \in Slots :
    \/ (up /\ rx_tail = i /\ rx_head # i) ~> (rx_tail # i \/ ~ up)
    \/ <>[](Starved /\ up /\ rx_tail = i /\ rx_head # i)

\* A packet refused because the tx ring was full is sent eventually, provided
\* the host keeps sending: its interrupts are all that wakes the queue.
TxResumes ==
  []<>(host_pc = "irq") => ((up /\ skb # NoPacket) ~> (skb = NoPacket \/ ~ up))

\* The same for an interface that comes up late, as the usage note of
\* l2cpu_net.c has it (insmod first, ip link up later): as long as the TAP
\* keeps offering packets, reception does not stop.
RxUnderTraffic ==
  []<><<\E p \in RxPackets : HostRead(p)>>_vars => RxProgress
=============================================================================
