---------------------------- MODULE X280NetProofs ----------------------------
(***************************************************************************)
(* Machine-checked proofs about X280Net, for rings of any size above one,  *)
(* any NAPI budget, any packets and any setup.                             *)
(***************************************************************************)
EXTENDS X280Net, RingLemmas

-----------------------------------------------------------------------------
\* The rings are the ones of RingLemmas.
LEMMA RingSize == N \in Nat \ {0, 1} /\ Slots = Cells(N)
BY RingAssumption DEF Slots, Cells

LEMMA SuccIs ==
  ASSUME NEW i \in Slots
  PROVE  Succ(i) \in Slots
BY RingSize, NextCell DEF Succ

\* Published, without remainders.
LEMMA PublishedIs ==
  ASSUME NEW slot, NEW h \in Slots, NEW f \in Slots, NEW tail \in Slots,
         NEW taken \in {0, 1}, f = IF taken = 1 THEN Succ(tail) ELSE tail
  PROVE  Published(slot, h, tail, taken) = Entries(N, slot, h, f)
<1>1. (tail + taken) % N = f
  <2>1. CASE taken = 0
    <3>1. tail \in 0..2*N-1 /\ tail < N
      BY RingAssumption DEF Slots
    <3> QED BY <2>1, <3>1, RingSize, WrapMod DEF Wrap
  <2>2. CASE taken = 1
    BY <2>2 DEF Succ
  <2> QED BY <2>1, <2>2
<1>2. (h + N - f) % N = Held(N, h, f)
  BY RingSize, HeldMod
<1>3. \A i \in 1..Held(N, h, f) : (f + i - 1) % N = Wrap(N, f + i - 1)
  BY RingSize, EntryCell
<1> QED BY <1>1, <1>2, <1>3 DEF Published, Entries

-----------------------------------------------------------------------------
\* Types: the flags, and the rest.  A packet in hand is within the budget.
FlagTypes == /\ irq_bit \in BOOLEAN
             /\ missed \in BOOLEAN
             /\ up \in BOOLEAN
             /\ queue_stopped \in BOOLEAN

RestTypes ==
  /\ setup \in Setups
  /\ rx_slot \in [Slots -> RxPackets \cup {NoPacket}]
  /\ tx_slot \in [Slots -> TxPackets \cup {NoPacket}]
  /\ rx_head \in Slots /\ rx_tail \in Slots
  /\ tx_head \in Slots /\ tx_tail \in Slots
  /\ host_pc \in {"select", "slot", "head", "irq", "drain", "free"}
  /\ buffer \in RxPackets \cup {NoPacket}
  /\ tap_out \in TxPackets \cup {NoPacket}
  /\ irq_pc \in {"idle", "clear", "schedule"}
  /\ napi \in {"disabled", "idle", "sched"}
  /\ poll_pc \in {"check", "copy", "free", "complete"}
  /\ work_done \in 0..Budget
  /\ poll_pc \in {"copy", "free"} => work_done < Budget
  /\ stack_out \in RxPackets \cup {NoPacket}
  /\ skb \in TxPackets \cup {NoPacket}
  /\ xmit_pc \in {"check", "stop", "slot", "head"}

TypeInv == FlagTypes /\ RestTypes

LEMMA TypeInvTypeOK == TypeInv => TypeOK
<1> SUFFICES ASSUME TypeInv PROVE TypeOK
  OBVIOUS
<1>1. {rx_head, rx_tail, tx_head, tx_tail} \subseteq Slots
  BY DEF TypeInv, RestTypes
<1> QED BY <1>1, Zenon DEF TypeInv, RestTypes, FlagTypes, TypeOK

LEMMA TypeInit == Init => TypeInv
<1> SUFFICES ASSUME Init PROVE TypeInv
  OBVIOUS
<1>1. FlagTypes
  BY Zenon DEF Init, FlagTypes
<1>2. napi \in {"disabled", "idle", "sched"}
  BY DEF Init
<1>3. 0 \in Slots /\ 0 \in 0..Budget
  BY RingAssumption DEF Slots
<1> QED BY <1>1, <1>2, <1>3 DEF Init, TypeInv, RestTypes

LEMMA HostTypes ==
  ASSUME TypeInv, HostStep PROVE TypeInv'
<1> USE DEF TypeInv, rxVars, txVars, hostVars, irqVars, napiVars,
          pollVars, linkVars, xmitVars
<1>1. CASE HostIdle
  <2>1. FlagTypes'
    BY <1>1, Zenon DEF HostIdle, FlagTypes
  <2>2. RestTypes'
    BY <1>1 DEF HostIdle, RestTypes
  <2> QED BY <2>1, <2>2
<1>2. CASE HostSlot
  <2>1. FlagTypes'
    BY <1>2, Zenon DEF HostSlot, FlagTypes
  <2>2. RestTypes'
    BY <1>2 DEF HostSlot, RestTypes
  <2> QED BY <2>1, <2>2
<1>3. CASE HostHead
  <2>1. FlagTypes'
    BY <1>3, Zenon DEF HostHead, FlagTypes
  <2>2. RestTypes'
    BY <1>3, SuccIs DEF HostHead, RestTypes
  <2> QED BY <2>1, <2>2
<1>4. CASE HostIrq
  <2>1. FlagTypes'
    BY <1>4, Zenon DEF HostIrq, FlagTypes
  <2>2. RestTypes'
    BY <1>4 DEF HostIrq, RestTypes
  <2> QED BY <2>1, <2>2
<1>5. CASE HostFree
  <2>1. FlagTypes'
    BY <1>5, Zenon DEF HostFree, FlagTypes
  <2>2. RestTypes'
    BY <1>5, SuccIs DEF HostFree, RestTypes
  <2> QED BY <2>1, <2>2
<1>6. ASSUME NEW p \in RxPackets, HostRead(p) PROVE TypeInv'
  <2>1. FlagTypes'
    BY <1>6, Zenon DEF HostRead, FlagTypes
  <2>2. RestTypes'
    BY <1>6 DEF HostRead, RestTypes
  <2> QED BY <2>1, <2>2
<1>7. ASSUME NEW ok \in BOOLEAN, HostDrain(ok) PROVE TypeInv'
  <2>1. FlagTypes'
    BY <1>7, Zenon DEF HostDrain, FlagTypes
  <2>2. RestTypes'
    BY <1>7 DEF HostDrain, RestTypes
  <2> QED BY <2>1, <2>2
<1> QED BY <1>1, <1>2, <1>3, <1>4, <1>5, <1>6, <1>7 DEF HostStep

LEMMA PollTypes ==
  ASSUME TypeInv, PollStep PROVE TypeInv'
<1> USE DEF TypeInv, rxVars, txVars, hostVars, irqVars, napiVars,
          pollVars, linkVars, xmitVars
<1>1. CASE PollCheck
  <2>1. FlagTypes'
    BY <1>1, Zenon DEF PollCheck, PollReady, FlagTypes
  <2>2. RestTypes'
    BY <1>1 DEF PollCheck, PollReady, RestTypes
  <2> QED BY <2>1, <2>2
<1>2. CASE PollCopy
  <2>1. FlagTypes'
    BY <1>2, Zenon DEF PollCopy, FlagTypes
  <2>2. RestTypes'
    BY <1>2 DEF PollCopy, RestTypes
  <2> QED BY <2>1, <2>2
<1>3. CASE PollFree
  <2>1. FlagTypes'
    BY <1>3, Zenon DEF PollFree, FlagTypes
  <2>2. RestTypes'
    BY <1>3, SuccIs, RingAssumption DEF PollFree, RestTypes
  <2> QED BY <2>1, <2>2
<1>4. CASE PollBreak
  <2>1. FlagTypes'
    BY <1>4, Zenon DEF PollBreak, FlagTypes
  <2>2. RestTypes'
    BY <1>4 DEF PollBreak, RestTypes
  <2> QED BY <2>1, <2>2
<1>5. CASE PollComplete
  <2>1. FlagTypes'
    BY <1>5, Zenon DEF PollComplete, Complete, FlagTypes
  <2>2. RestTypes'
    BY <1>5, RingAssumption DEF PollComplete, Complete, RestTypes
  <2> QED BY <2>1, <2>2
<1>6. CASE PollAgain
  <2>1. FlagTypes'
    BY <1>6, Zenon DEF PollAgain, FlagTypes
  <2>2. RestTypes'
    BY <1>6, RingAssumption DEF PollAgain, RestTypes
  <2> QED BY <2>1, <2>2
<1> QED BY <1>1, <1>2, <1>3, <1>4, <1>5, <1>6 DEF PollStep

LEMMA XmitTypes ==
  ASSUME TypeInv, XmitStep \/ \E p \in TxPackets : StackSend(p) PROVE TypeInv'
<1> USE DEF TypeInv, rxVars, txVars, hostVars, irqVars, napiVars,
          pollVars, linkVars, xmitVars
<1>1. CASE XmitCheck
  <2>1. FlagTypes'
    BY <1>1, Zenon DEF XmitCheck, FlagTypes
  <2>2. RestTypes'
    BY <1>1 DEF XmitCheck, RestTypes
  <2> QED BY <2>1, <2>2
<1>2. CASE XmitStop
  <2>1. FlagTypes'
    BY <1>2, Zenon DEF XmitStop, FlagTypes
  <2>2. RestTypes'
    BY <1>2 DEF XmitStop, RestTypes
  <2> QED BY <2>1, <2>2
<1>3. CASE XmitSlot
  <2>1. FlagTypes'
    BY <1>3, Zenon DEF XmitSlot, FlagTypes
  <2>2. RestTypes'
    BY <1>3 DEF XmitSlot, RestTypes
  <2> QED BY <2>1, <2>2
<1>4. CASE XmitHead
  <2>1. FlagTypes'
    BY <1>4, Zenon DEF XmitHead, FlagTypes
  <2>2. RestTypes'
    BY <1>4, SuccIs DEF XmitHead, RestTypes
  <2> QED BY <2>1, <2>2
<1>5. ASSUME NEW p \in TxPackets, StackSend(p) PROVE TypeInv'
  <2>1. FlagTypes'
    BY <1>5, Zenon DEF StackSend, FlagTypes
  <2>2. RestTypes'
    BY <1>5 DEF StackSend, RestTypes
  <2> QED BY <2>1, <2>2
<1> QED BY <1>1, <1>2, <1>3, <1>4, <1>5 DEF XmitStep

LEMMA IrqTypes ==
  ASSUME TypeInv, IrqStep \/ TimerTick PROVE TypeInv'
<1> USE DEF TypeInv, rxVars, txVars, hostVars, irqVars, napiVars,
          pollVars, linkVars, xmitVars
<1>1. CASE IrqRead
  <2>1. FlagTypes'
    BY <1>1, Zenon DEF IrqRead, FlagTypes
  <2>2. RestTypes'
    BY <1>1 DEF IrqRead, RestTypes
  <2> QED BY <2>1, <2>2
<1>2. CASE IrqClear
  <2>1. FlagTypes'
    BY <1>2, Zenon DEF IrqClear, FlagTypes
  <2>2. RestTypes'
    BY <1>2 DEF IrqClear, RestTypes
  <2> QED BY <2>1, <2>2
<1>3. CASE IrqSchedule
  <2>1. FlagTypes'
    BY <1>3, Zenon DEF IrqSchedule, Schedule, FlagTypes
  <2>2. RestTypes'
    BY <1>3 DEF IrqSchedule, Schedule, RestTypes
  <2> QED BY <2>1, <2>2
<1>4. CASE TimerTick
  <2>1. FlagTypes'
    BY <1>4, Zenon DEF TimerTick, Schedule, FlagTypes
  <2>2. RestTypes'
    BY <1>4 DEF TimerTick, Schedule, RestTypes
  <2> QED BY <2>1, <2>2
<1> QED BY <1>1, <1>2, <1>3, <1>4 DEF IrqStep

LEMMA LinkTypes ==
  ASSUME TypeInv, LinkUp \/ LinkDown PROVE TypeInv'
<1> USE DEF TypeInv, rxVars, txVars, hostVars, irqVars, napiVars,
          pollVars, linkVars, xmitVars
<1>1. CASE LinkUp
  <2>1. FlagTypes'
    BY <1>1, Zenon DEF LinkUp, FlagTypes
  <2>2. RestTypes'
    BY <1>1 DEF LinkUp, RestTypes
  <2> QED BY <2>1, <2>2
<1>2. CASE LinkDown
  <2>1. FlagTypes'
    BY <1>2, Zenon DEF LinkDown, FlagTypes
  <2>2. RestTypes'
    BY <1>2 DEF LinkDown, RestTypes
  <2> QED BY <2>1, <2>2
<1> QED BY <1>1, <1>2

LEMMA TypeStep == TypeInv /\ [Next]_vars => TypeInv'
<1> SUFFICES ASSUME TypeInv, [Next]_vars PROVE TypeInv'
  OBVIOUS
<1>1. CASE UNCHANGED vars
  BY <1>1 DEF vars, TypeInv, FlagTypes, RestTypes, rxVars, txVars, hostVars, irqVars,
     napiVars, pollVars, linkVars, xmitVars
<1> QED BY <1>1, HostTypes, IrqTypes, PollTypes, XmitTypes, LinkTypes DEF Next

\* Ring indices stay inside the rings, no poll exceeds its budget, and the
\* states of host, interrupt, NAPI and transmit path are the ones they have.
THEOREM NetTypes == Spec => []TypeOK
BY TypeInit, TypeStep, TypeInvTypeOK, PTL DEF Spec

-----------------------------------------------------------------------------
(***************************************************************************)
(* The rings.  What the writer established before it touched the slot      *)
(* still holds when it publishes it, whatever the reader did in between,   *)
(* and what the reader saw still holds when it frees the slot.             *)
(***************************************************************************)
RxInv ==
  /\ host_pc = "slot" => buffer \in RxPackets
  /\ host_pc = "head" => rx_slot[rx_head] \in RxPackets
  /\ host_pc \in {"slot", "head"} => ~ Full(rx_head, rx_tail)
  /\ poll_pc \in {"copy", "free"} => rx_tail # rx_head

TxInv ==
  /\ xmit_pc \in {"slot", "head"} => /\ skb \in TxPackets \ Oversize
                                     /\ ~ Full(tx_head, tx_tail)
  /\ xmit_pc = "head" => tx_slot[tx_head] = skb
  /\ host_pc = "free" => tx_tail # tx_head

RingInv == TypeInv /\ RxInv /\ TxInv

LEMMA FullIs ==
  ASSUME NEW h \in Slots, NEW t \in Slots
  PROVE  /\ Full(h, t) <=> Held(N, h, t) = N - 1
         /\ Held(N, h, t) \in 0..N-1
         /\ h # t => Held(N, h, Succ(t)) = Held(N, h, t) - 1
BY RingSize, RingFull, HeldType DEF Full, Succ

\* The reader makes room, and the writer fills only slots that are free.
LEMMA RingMoves ==
  ASSUME NEW h \in Slots, NEW t \in Slots
  PROVE  /\ h # t => ~ Full(h, Succ(t))
         /\ ~ Full(h, t) => Succ(h) # t
BY RingSize, RingFull DEF Full, Succ

LEMMA RxInvStep ==
  ASSUME TypeInv, RxInv, [Next]_vars PROVE RxInv'
<1> USE DEF rxVars, txVars, hostVars, irqVars, napiVars, pollVars, linkVars,
            xmitVars
<1>1. rx_head \in Slots /\ rx_tail \in Slots /\ buffer \in RxPackets \cup {NoPacket}
  BY DEF TypeInv, RestTypes
<1>2. ASSUME UNCHANGED <<rxVars, host_pc, buffer, poll_pc>> PROVE RxInv'
  BY <1>2 DEF RxInv, Full, Succ
<1>3. CASE HostStep
  <2>1. CASE HostIdle
    BY <2>1 DEF HostIdle, RxInv, Full, Succ
  <2>2. CASE HostSlot
    <3>1. rx_slot'[rx_head] = buffer
      BY <2>2, <1>1 DEF HostSlot, TypeInv, RestTypes
    <3> QED BY <2>2, <3>1 DEF HostSlot, RxInv, Full, Succ
  <2>3. CASE HostHead
    BY <1>1, <2>3, RingMoves DEF HostHead, RxInv
  <2>4. CASE HostIrq
    BY <2>4 DEF HostIrq, RxInv, Full, Succ
  <2>5. CASE HostFree
    BY <2>5 DEF HostFree, RxInv, Full, Succ
  <2>6. ASSUME NEW p \in RxPackets, HostRead(p) PROVE RxInv'
    BY <2>6 DEF HostRead, RxInv, Full, Succ
  <2>7. ASSUME NEW ok \in BOOLEAN, HostDrain(ok) PROVE RxInv'
    BY <2>7 DEF HostDrain, RxInv, Full, Succ
  <2> QED BY <1>3, <2>1, <2>2, <2>3, <2>4, <2>5, <2>6, <2>7 DEF HostStep
<1>4. CASE PollStep
  <2>1. CASE PollCheck
    BY <2>1 DEF PollCheck, RxInv, Full, Succ
  <2>2. CASE PollCopy
    BY <2>2 DEF PollCopy, RxInv, Full, Succ
  <2>3. CASE PollFree
    <3>1. ~ Full(rx_head, Succ(rx_tail))
      BY <1>1, <2>3, RingMoves DEF PollFree, RxInv
    <3> QED BY <2>3, <3>1 DEF PollFree, RxInv, Full, Succ
  <2>4. CASE PollBreak \/ PollComplete \/ PollAgain
    BY <2>4 DEF PollBreak, PollComplete, PollAgain, PollReady, RxInv, Full, Succ
  <2> QED BY <1>4, <2>1, <2>2, <2>3, <2>4 DEF PollStep
<1>5. CASE IrqStep \/ TimerTick
  BY <1>2, <1>5 DEF IrqStep, IrqRead, IrqClear, IrqSchedule, TimerTick
<1>6. CASE XmitStep \/ \E p \in TxPackets : StackSend(p)
  BY <1>2, <1>6 DEF XmitStep, XmitCheck, XmitStop, XmitSlot, XmitHead, StackSend
<1>7. CASE LinkUp \/ LinkDown \/ UNCHANGED vars
  BY <1>2, <1>7 DEF LinkUp, LinkDown, vars
<1> QED BY <1>3, <1>4, <1>5, <1>6, <1>7 DEF Next

LEMMA TxInvStep ==
  ASSUME TypeInv, TxInv, [Next]_vars PROVE TxInv'
<1> USE DEF rxVars, txVars, hostVars, irqVars, napiVars, pollVars, linkVars,
            xmitVars
<1>1. tx_head \in Slots /\ tx_tail \in Slots /\ skb \in TxPackets \cup {NoPacket}
  BY DEF TypeInv, RestTypes
<1>2. ASSUME UNCHANGED <<txVars, xmitVars>>, host_pc' # "free" \/ host_pc' = host_pc
      PROVE  TxInv'
  BY <1>2 DEF TxInv, Full, Succ
<1>3. CASE HostStep
  <2>1. CASE HostIdle \/ HostSlot \/ HostHead \/ HostIrq
    BY <1>2, <2>1 DEF HostIdle, HostSlot, HostHead, HostIrq
  <2>2. CASE \E p \in RxPackets : HostRead(p)
    BY <1>2, <2>2 DEF HostRead
  <2>3. ASSUME NEW ok \in BOOLEAN, HostDrain(ok) PROVE TxInv'
    BY <2>3 DEF HostDrain, TxInv, Full, Succ
  <2>4. CASE HostFree
    <3>1. ~ Full(tx_head, Succ(tx_tail))
      BY <1>1, <2>4, RingMoves DEF HostFree, TxInv
    <3> QED BY <2>4, <3>1 DEF HostFree, TxInv, Full, Succ
  <2> QED BY <1>3, <2>1, <2>2, <2>3, <2>4 DEF HostStep
<1>4. CASE XmitStep
  <2>1. CASE XmitCheck
    BY <1>1, <2>1 DEF XmitCheck, TxInv, Full, Succ
  <2>2. CASE XmitStop
    BY <2>2 DEF XmitStop, TxInv, Full, Succ
  <2>3. CASE XmitSlot
    <3>1. tx_slot'[tx_head] = skb
      BY <1>1, <2>3 DEF XmitSlot, TypeInv, RestTypes
    <3> QED BY <2>3, <3>1 DEF XmitSlot, TxInv, Full, Succ
  <2>4. CASE XmitHead
    BY <1>1, <2>4, RingMoves DEF XmitHead, TxInv
  <2> QED BY <1>4, <2>1, <2>2, <2>3, <2>4 DEF XmitStep
<1>5. ASSUME NEW p \in TxPackets, StackSend(p) PROVE TxInv'
  BY <1>5 DEF StackSend, TxInv, Full, Succ
<1>6. CASE IrqStep \/ TimerTick
  BY <1>2, <1>6 DEF IrqStep, IrqRead, IrqClear, IrqSchedule, TimerTick
<1>7. CASE PollStep
  BY <1>2, <1>7 DEF PollStep, PollCheck, PollCopy, PollFree, PollBreak,
     PollComplete, PollAgain
<1>8. CASE LinkUp \/ LinkDown \/ UNCHANGED vars
  BY <1>2, <1>8 DEF LinkUp, LinkDown, vars
<1> QED BY <1>3, <1>4, <1>5, <1>6, <1>7, <1>8 DEF Next

LEMMA RingInvStep == RingInv /\ [Next]_vars => RingInv'
BY TypeStep, RxInvStep, TxInvStep DEF RingInv

LEMMA RingInvInit == Init => RingInv
BY TypeInit DEF Init, RingInv, RxInv, TxInv

-----------------------------------------------------------------------------
(***************************************************************************)
(* Each direction is a FIFO.  The slot is stored before the index makes it *)
(* visible, so the step of the ring's writer that counts is the index; the *)
(* reader's is the copy, and freeing the slot afterwards is a stutter.     *)
(***************************************************************************)
RxQueue == Published(rx_slot, rx_head, rx_tail, IF poll_pc = "free" THEN 1 ELSE 0)
TxQueue == Published(tx_slot, tx_head, tx_tail, IF host_pc = "free" THEN 1 ELSE 0)

RxFirst == IF poll_pc = "free" THEN Succ(rx_tail) ELSE rx_tail
TxFirst == IF host_pc = "free" THEN Succ(tx_tail) ELSE tx_tail

LEMMA RxQueueIs ==
  TypeInv => RxFirst \in Slots /\ RxQueue = Entries(N, rx_slot, rx_head, RxFirst)
<1> SUFFICES ASSUME TypeInv
             PROVE  RxFirst \in Slots /\ RxQueue = Entries(N, rx_slot, rx_head, RxFirst)
  OBVIOUS
<1>1. rx_head \in Slots /\ rx_tail \in Slots
  BY DEF TypeInv, RestTypes
<1>2. RxFirst \in Slots
  BY <1>1, SuccIs DEF RxFirst
<1>3. PICK taken \in {0, 1} : taken = IF poll_pc = "free" THEN 1 ELSE 0
  OBVIOUS
<1>4. RxFirst = IF taken = 1 THEN Succ(rx_tail) ELSE rx_tail
  BY <1>3 DEF RxFirst
<1> QED BY <1>1, <1>2, <1>3, <1>4, PublishedIs DEF RxQueue

LEMMA TxQueueIs ==
  TypeInv => TxFirst \in Slots /\ TxQueue = Entries(N, tx_slot, tx_head, TxFirst)
<1> SUFFICES ASSUME TypeInv
             PROVE  TxFirst \in Slots /\ TxQueue = Entries(N, tx_slot, tx_head, TxFirst)
  OBVIOUS
<1>1. tx_head \in Slots /\ tx_tail \in Slots
  BY DEF TypeInv, RestTypes
<1>2. TxFirst \in Slots
  BY <1>1, SuccIs DEF TxFirst
<1>3. PICK taken \in {0, 1} : taken = IF host_pc = "free" THEN 1 ELSE 0
  OBVIOUS
<1>4. TxFirst = IF taken = 1 THEN Succ(tx_tail) ELSE tx_tail
  BY <1>3 DEF TxFirst
<1> QED BY <1>1, <1>2, <1>3, <1>4, PublishedIs DEF TxQueue

\* The same after a step.
LEMMA QueuesNext ==
  TypeInv' => /\ (RxQueue = Entries(N, rx_slot, rx_head, RxFirst))'
              /\ (TxQueue = Entries(N, tx_slot, tx_head, TxFirst))'
<1>1. TypeInv => /\ RxQueue = Entries(N, rx_slot, rx_head, RxFirst)
                 /\ TxQueue = Entries(N, tx_slot, tx_head, TxFirst)
  BY RxQueueIs, TxQueueIs
<1> QED BY <1>1, PTL

\* The host publishes a packet.
LEMMA HostHeadEnqueues ==
  ASSUME RingInv, TypeInv', HostHead
  PROVE  \E p \in RxPackets : /\ Len(RxQueue) < N - 1
                              /\ RxQueue' = Append(RxQueue, p)
                              /\ UNCHANGED stack_out
<1>1. /\ rx_head \in Slots /\ rx_tail \in Slots
      /\ rx_slot \in [Slots -> RxPackets \cup {NoPacket}]
      /\ poll_pc \in {"copy", "free"} => rx_tail # rx_head
      /\ ~ Full(rx_head, rx_tail)
      /\ rx_slot[rx_head] \in RxPackets
  BY DEF HostHead, RingInv, TypeInv, RestTypes, RxInv
<1>2. /\ RxFirst \in Slots
      /\ RxQueue = Entries(N, rx_slot, rx_head, RxFirst)
      /\ RxQueue' = Entries(N, rx_slot, rx_head, RxFirst)'
  BY RxQueueIs, QueuesNext DEF RingInv
<1>3. RxFirst' = RxFirst /\ rx_slot' = rx_slot /\ rx_head' = Succ(rx_head)
  BY DEF HostHead, RxFirst, pollVars, Succ
<1>4. Held(N, rx_head, RxFirst) < N - 1
  BY <1>1, FullIs, RingAssumption DEF RxFirst
<1>5. Len(RxQueue) < N - 1
  <2>1. Len(Entries(N, rx_slot, rx_head, RxFirst)) = Held(N, rx_head, RxFirst)
    BY <1>1, <1>2, RingSize, EntriesLen
  <2> QED BY <1>2, <1>4, <2>1
<1>6. RxQueue' = Entries(N, rx_slot, Succ(rx_head), RxFirst)
  BY <1>2, <1>3 DEF Entries, Held, Wrap
<1>7. RxQueue' = Append(RxQueue, rx_slot[rx_head])
  <2>1. rx_slot \in [Cells(N) -> RxPackets \cup {NoPacket}]
    BY <1>1, RingSize
  <2>2. rx_head \in Cells(N) /\ RxFirst \in Cells(N) /\ N \in Nat \ {0, 1}
    BY <1>1, <1>2, RingSize
  <2>3. Entries(N, rx_slot, Succ(rx_head), RxFirst) =
          Append(Entries(N, rx_slot, rx_head, RxFirst), rx_slot[rx_head])
    BY <1>4, <2>1, <2>2, EntriesAppend DEF Succ
  <2> QED BY <1>2, <1>6, <2>3
<1> QED BY <1>1, <1>5, <1>7 DEF HostHead, pollVars

\* x280_net_poll hands the oldest packet to the stack.
LEMMA PollCopyDequeues ==
  ASSUME RingInv, TypeInv', PollCopy
  PROVE  /\ RxQueue # <<>>
         /\ RxQueue' = Tail(RxQueue)
         /\ stack_out' = Head(RxQueue)
<1>1. /\ rx_head \in Slots /\ rx_tail \in Slots /\ rx_head # rx_tail
      /\ rx_slot \in [Slots -> RxPackets \cup {NoPacket}]
  BY DEF PollCopy, RingInv, TypeInv, RestTypes, RxInv
<1>2. /\ RxQueue = Entries(N, rx_slot, rx_head, RxFirst)
      /\ RxQueue' = Entries(N, rx_slot, rx_head, RxFirst)'
  BY RxQueueIs, QueuesNext DEF RingInv
<1>3. /\ RxFirst = rx_tail /\ RxFirst' = Succ(rx_tail)
      /\ rx_slot' = rx_slot /\ rx_head' = rx_head
  BY DEF PollCopy, RxFirst, rxVars, Succ
<1>4. RxQueue' = Entries(N, rx_slot, rx_head, Succ(rx_tail))
  BY <1>2, <1>3 DEF Entries, Held, Wrap
<1>5. /\ Entries(N, rx_slot, rx_head, rx_tail) # <<>>
      /\ Head(Entries(N, rx_slot, rx_head, rx_tail)) = rx_slot[rx_tail]
      /\ Entries(N, rx_slot, rx_head, Succ(rx_tail)) =
           Tail(Entries(N, rx_slot, rx_head, rx_tail))
  <2>1. rx_slot \in [Cells(N) -> RxPackets \cup {NoPacket}]
    BY <1>1, RingSize
  <2>2. rx_head \in Cells(N) /\ rx_tail \in Cells(N) /\ N \in Nat \ {0, 1}
    BY <1>1, RingSize
  <2> QED BY <1>1, <2>1, <2>2, EntriesTail DEF Succ
<1> QED BY <1>2, <1>3, <1>4, <1>5 DEF PollCopy

\* x280_net_xmit publishes a packet that fits.
LEMMA XmitHeadEnqueues ==
  ASSUME RingInv, TypeInv', XmitHead
  PROVE  \E p \in TxPackets \ Oversize : /\ Len(TxQueue) < N - 1
                                         /\ TxQueue' = Append(TxQueue, p)
                                         /\ UNCHANGED tap_out
<1>1. /\ tx_head \in Slots /\ tx_tail \in Slots
      /\ tx_slot \in [Slots -> TxPackets \cup {NoPacket}]
      /\ host_pc = "free" => tx_tail # tx_head
      /\ ~ Full(tx_head, tx_tail)
      /\ tx_slot[tx_head] = skb /\ skb \in TxPackets \ Oversize
  BY DEF XmitHead, RingInv, TypeInv, RestTypes, TxInv
<1>2. /\ TxFirst \in Slots
      /\ TxQueue = Entries(N, tx_slot, tx_head, TxFirst)
      /\ TxQueue' = Entries(N, tx_slot, tx_head, TxFirst)'
  BY TxQueueIs, QueuesNext DEF RingInv
<1>3. TxFirst' = TxFirst /\ tx_slot' = tx_slot /\ tx_head' = Succ(tx_head)
  BY DEF XmitHead, TxFirst, hostVars, Succ
<1>4. Held(N, tx_head, TxFirst) < N - 1
  BY <1>1, FullIs, RingAssumption DEF TxFirst
<1>5. Len(TxQueue) < N - 1
  <2>1. Len(Entries(N, tx_slot, tx_head, TxFirst)) = Held(N, tx_head, TxFirst)
    BY <1>1, <1>2, RingSize, EntriesLen
  <2> QED BY <1>2, <1>4, <2>1
<1>6. TxQueue' = Entries(N, tx_slot, Succ(tx_head), TxFirst)
  BY <1>2, <1>3 DEF Entries, Held, Wrap
<1>7. TxQueue' = Append(TxQueue, tx_slot[tx_head])
  <2>1. tx_slot \in [Cells(N) -> TxPackets \cup {NoPacket}]
    BY <1>1, RingSize
  <2>2. tx_head \in Cells(N) /\ TxFirst \in Cells(N) /\ N \in Nat \ {0, 1}
    BY <1>1, <1>2, RingSize
  <2>3. Entries(N, tx_slot, Succ(tx_head), TxFirst) =
          Append(Entries(N, tx_slot, tx_head, TxFirst), tx_slot[tx_head])
    BY <1>4, <2>1, <2>2, EntriesAppend DEF Succ
  <2> QED BY <1>2, <1>6, <2>3
<1> QED BY <1>1, <1>5, <1>7 DEF XmitHead, hostVars

\* The host takes the oldest packet; a failed write to the TAP loses it.
LEMMA HostDrainDequeues ==
  ASSUME RingInv, TypeInv', NEW ok \in BOOLEAN, HostDrain(ok), tx_tail # tx_head
  PROVE  /\ TxQueue # <<>>
         /\ TxQueue' = Tail(TxQueue)
         /\ tap_out' = Head(TxQueue) \/ UNCHANGED tap_out
<1>1. /\ tx_head \in Slots /\ tx_tail \in Slots
      /\ tx_slot \in [Slots -> TxPackets \cup {NoPacket}]
  BY DEF RingInv, TypeInv, RestTypes
<1>2. /\ TxQueue = Entries(N, tx_slot, tx_head, TxFirst)
      /\ TxQueue' = Entries(N, tx_slot, tx_head, TxFirst)'
  BY TxQueueIs, QueuesNext DEF RingInv
<1>3. /\ TxFirst = tx_tail /\ TxFirst' = Succ(tx_tail)
      /\ tx_slot' = tx_slot /\ tx_head' = tx_head
  BY DEF HostDrain, TxFirst, txVars, Succ
<1>4. TxQueue' = Entries(N, tx_slot, tx_head, Succ(tx_tail))
  BY <1>2, <1>3 DEF Entries, Held, Wrap
<1>5. tap_out' = tx_slot[tx_tail] \/ tap_out' = tap_out
  BY DEF HostDrain
<1>6. /\ Entries(N, tx_slot, tx_head, tx_tail) # <<>>
      /\ Head(Entries(N, tx_slot, tx_head, tx_tail)) = tx_slot[tx_tail]
      /\ Entries(N, tx_slot, tx_head, Succ(tx_tail)) =
           Tail(Entries(N, tx_slot, tx_head, tx_tail))
  <2>1. tx_slot \in [Cells(N) -> TxPackets \cup {NoPacket}]
    BY <1>1, RingSize
  <2>2. tx_head \in Cells(N) /\ tx_tail \in Cells(N) /\ N \in Nat \ {0, 1}
    BY <1>1, RingSize
  <2> QED BY <1>1, <2>1, <2>2, EntriesTail DEF Succ
<1> QED BY <1>2, <1>3, <1>4, <1>6, <1>5

\* Steps that neither publish nor take a packet.
LEMMA RxQueueStays ==
  ASSUME TypeInv, TypeInv', RxFirst' = RxFirst, rx_head' = rx_head,
         rx_slot' = rx_slot \/ \E p : rx_slot' = [rx_slot EXCEPT ![rx_head] = p]
  PROVE  RxQueue' = RxQueue
<1>1. rx_head \in Slots /\ rx_slot \in [Slots -> RxPackets \cup {NoPacket}]
  BY DEF TypeInv, RestTypes
<1>2. /\ RxFirst \in Slots
      /\ RxQueue = Entries(N, rx_slot, rx_head, RxFirst)
      /\ RxQueue' = Entries(N, rx_slot, rx_head, RxFirst)'
  BY RxQueueIs, QueuesNext
<1>3. RxQueue' = Entries(N, rx_slot', rx_head, RxFirst)
  BY <1>2 DEF Entries, Held, Wrap
<1>4. CASE rx_slot' = rx_slot
  BY <1>2, <1>3, <1>4
<1>5. ASSUME NEW p, rx_slot' = [rx_slot EXCEPT ![rx_head] = p]
      PROVE  RxQueue' = RxQueue
  <2>1. \A i \in Cells(N) \ {rx_head} : rx_slot'[i] = rx_slot[i]
    BY <1>1, <1>5, RingSize
  <2>2. rx_head \in Cells(N) /\ RxFirst \in Cells(N) /\ N \in Nat \ {0, 1}
    BY <1>1, <1>2, RingSize
  <2>3. Entries(N, rx_slot', rx_head, RxFirst) =
          Entries(N, rx_slot, rx_head, RxFirst)
    BY <2>1, <2>2, EntriesStore
  <2> QED BY <1>2, <1>3, <2>3
<1> QED BY <1>4, <1>5

LEMMA TxQueueStays ==
  ASSUME TypeInv, TypeInv', TxFirst' = TxFirst, tx_head' = tx_head,
         tx_slot' = tx_slot \/ \E p : tx_slot' = [tx_slot EXCEPT ![tx_head] = p]
  PROVE  TxQueue' = TxQueue
<1>1. tx_head \in Slots /\ tx_slot \in [Slots -> TxPackets \cup {NoPacket}]
  BY DEF TypeInv, RestTypes
<1>2. /\ TxFirst \in Slots
      /\ TxQueue = Entries(N, tx_slot, tx_head, TxFirst)
      /\ TxQueue' = Entries(N, tx_slot, tx_head, TxFirst)'
  BY TxQueueIs, QueuesNext
<1>3. TxQueue' = Entries(N, tx_slot', tx_head, TxFirst)
  BY <1>2 DEF Entries, Held, Wrap
<1>4. CASE tx_slot' = tx_slot
  BY <1>2, <1>3, <1>4
<1>5. ASSUME NEW p, tx_slot' = [tx_slot EXCEPT ![tx_head] = p]
      PROVE  TxQueue' = TxQueue
  <2>1. \A i \in Cells(N) \ {tx_head} : tx_slot'[i] = tx_slot[i]
    BY <1>1, <1>5, RingSize
  <2>2. tx_head \in Cells(N) /\ TxFirst \in Cells(N) /\ N \in Nat \ {0, 1}
    BY <1>1, <1>2, RingSize
  <2>3. Entries(N, tx_slot', tx_head, TxFirst) =
          Entries(N, tx_slot, tx_head, TxFirst)
    BY <2>1, <2>2, EntriesStore
  <2> QED BY <1>2, <1>3, <2>3
<1> QED BY <1>4, <1>5

\* Every step is a step of the FIFO from the host to the X280, or none.
LEMMA RxRefines ==
  ASSUME RingInv, TypeInv', [Next]_vars
  PROVE  \/ \E p \in RxPackets : /\ Len(RxQueue) < N - 1
                                 /\ RxQueue' = Append(RxQueue, p)
                                 /\ UNCHANGED stack_out
         \/ /\ RxQueue # <<>>
            /\ RxQueue' = Tail(RxQueue)
            /\ stack_out' = Head(RxQueue)
         \/ UNCHANGED <<RxQueue, stack_out>>
<1> USE DEF rxVars, txVars, hostVars, irqVars, napiVars, pollVars, linkVars,
            xmitVars
<1>0. TypeInv
  BY DEF RingInv
<1>1. ASSUME UNCHANGED <<rxVars, poll_pc, stack_out>>
      PROVE  UNCHANGED <<RxQueue, stack_out>>
  BY <1>0, <1>1, RxQueueStays DEF RxFirst, Succ
<1>2. CASE HostHead
  BY <1>2, HostHeadEnqueues
<1>3. CASE PollCopy
  BY <1>3, PollCopyDequeues
<1>4. CASE HostSlot
  <2>1. RxFirst' = RxFirst
    BY <1>4 DEF HostSlot, RxFirst, Succ
  <2> QED BY <1>0, <1>4, <2>1, RxQueueStays DEF HostSlot
<1>5. CASE PollFree
  <2>1. RxFirst' = RxFirst
    BY <1>5 DEF PollFree, RxFirst
  <2> QED BY <1>0, <1>5, <2>1, RxQueueStays DEF PollFree
<1>6. CASE PollCheck \/ PollBreak \/ PollComplete \/ PollAgain
  <2>1. /\ RxFirst' = RxFirst
        /\ UNCHANGED <<rxVars, stack_out>>
    BY <1>6 DEF PollCheck, PollBreak, PollComplete, PollAgain, PollReady,
       RxFirst, Succ
  <2> QED BY <1>0, <2>1, RxQueueStays
<1>7. CASE HostIdle \/ HostIrq \/ HostFree \/ IrqStep \/ TimerTick
  BY <1>1, <1>7 DEF HostIdle, HostIrq, HostFree, IrqStep, IrqRead, IrqClear,
     IrqSchedule, TimerTick
<1>8. CASE \/ \E p \in RxPackets : HostRead(p)
           \/ \E ok \in BOOLEAN : HostDrain(ok)
  BY <1>1, <1>8 DEF HostRead, HostDrain
<1>9. CASE XmitStep \/ \E p \in TxPackets : StackSend(p)
  BY <1>1, <1>9 DEF XmitStep, XmitCheck, XmitStop, XmitSlot, XmitHead, StackSend
<1>10. CASE LinkUp \/ LinkDown \/ UNCHANGED vars
  BY <1>1, <1>10 DEF LinkUp, LinkDown, vars
<1> QED BY <1>2, <1>3, <1>4, <1>5, <1>6, <1>7, <1>8, <1>9, <1>10
  DEF Next, HostStep, PollStep

\* ... and of the one from the X280 to the host.
LEMMA TxRefines ==
  ASSUME RingInv, TypeInv', [Next]_vars
  PROVE  \/ \E p \in TxPackets \ Oversize : /\ Len(TxQueue) < N - 1
                                            /\ TxQueue' = Append(TxQueue, p)
                                            /\ UNCHANGED tap_out
         \/ /\ TxQueue # <<>>
            /\ TxQueue' = Tail(TxQueue)
            /\ tap_out' = Head(TxQueue) \/ UNCHANGED tap_out
         \/ UNCHANGED <<TxQueue, tap_out>>
<1> USE DEF rxVars, txVars, hostVars, irqVars, napiVars, pollVars, linkVars,
            xmitVars
<1>0. TypeInv
  BY DEF RingInv
<1>1. ASSUME UNCHANGED <<txVars, tap_out>>,
             host_pc # "free", host_pc' # "free"
      PROVE  UNCHANGED <<TxQueue, tap_out>>
  BY <1>0, <1>1, TxQueueStays DEF TxFirst
<1>2. ASSUME UNCHANGED <<txVars, tap_out, host_pc>>
      PROVE  UNCHANGED <<TxQueue, tap_out>>
  BY <1>0, <1>2, TxQueueStays DEF TxFirst, Succ
<1>3. CASE XmitHead
  BY <1>3, XmitHeadEnqueues
<1>4. ASSUME NEW ok \in BOOLEAN, HostDrain(ok), tx_tail # tx_head
      PROVE  /\ TxQueue # <<>>
             /\ TxQueue' = Tail(TxQueue)
             /\ tap_out' = Head(TxQueue) \/ UNCHANGED tap_out
  BY <1>4, HostDrainDequeues
<1>5. ASSUME NEW ok \in BOOLEAN, HostDrain(ok), tx_tail = tx_head
      PROVE  UNCHANGED <<TxQueue, tap_out>>
  BY <1>1, <1>5 DEF HostDrain
<1>6. CASE HostFree
  <2>1. TxFirst' = TxFirst
    BY <1>6 DEF HostFree, TxFirst
  <2> QED BY <1>0, <1>6, <2>1, TxQueueStays DEF HostFree
<1>7. CASE XmitSlot
  <2>1. TxFirst' = TxFirst
    BY <1>7 DEF XmitSlot, TxFirst, Succ
  <2> QED BY <1>0, <1>7, <2>1, TxQueueStays DEF XmitSlot
<1>8. CASE HostIdle \/ HostSlot \/ HostHead \/ HostIrq
  BY <1>1, <1>8 DEF HostIdle, HostSlot, HostHead, HostIrq
<1>9. CASE \E p \in RxPackets : HostRead(p)
  BY <1>1, <1>9 DEF HostRead
<1>10. CASE XmitCheck \/ XmitStop \/ \E p \in TxPackets : StackSend(p)
  BY <1>2, <1>10 DEF XmitCheck, XmitStop, StackSend
<1>11. CASE IrqStep \/ TimerTick \/ PollStep
  BY <1>2, <1>11 DEF IrqStep, IrqRead, IrqClear, IrqSchedule, TimerTick, PollStep,
     PollCheck, PollCopy, PollFree, PollBreak, PollComplete, PollAgain
<1>12. CASE LinkUp \/ LinkDown \/ UNCHANGED vars
  BY <1>2, <1>12 DEF LinkUp, LinkDown, vars
<1> QED BY <1>3, <1>4, <1>5, <1>6, <1>7, <1>8, <1>9, <1>10, <1>11, <1>12
  DEF Next, HostStep, XmitStep

LEMMA QueuesInit == Init => RxQueue = <<>> /\ TxQueue = <<>>
<1> SUFFICES ASSUME Init PROVE RxQueue = <<>> /\ TxQueue = <<>>
  OBVIOUS
<1>1. TypeInv
  BY TypeInit
<1>2. /\ rx_head = 0 /\ RxFirst = 0 /\ tx_head = 0 /\ TxFirst = 0
      /\ rx_slot \in [Slots -> RxPackets \cup {NoPacket}]
      /\ tx_slot \in [Slots -> TxPackets \cup {NoPacket}]
  BY <1>1 DEF Init, RxFirst, TxFirst, TypeInv, RestTypes
<1>3. 0 \in Slots /\ Held(N, 0, 0) = 0
  BY RingAssumption DEF Slots, Held
<1>4. RxQueue = Entries(N, rx_slot, 0, 0) /\ TxQueue = Entries(N, tx_slot, 0, 0)
  BY <1>1, <1>2, RxQueueIs, TxQueueIs
<1> QED BY <1>3, <1>4 DEF Entries

\* The packets of the host reach the X280's stack in order, each once and none
\* lost after it was published: for every ring size and NAPI budget, whatever
\* the interleaving of the host, the poll, failed allocations and link changes.
THEOREM RxIsFifo == Spec => RxFifo
<1>1. Init => Rx!Init
  BY QueuesInit DEF Init, Rx!Init, RxQueue
<1>2. RingInv /\ RingInv' /\ [Next]_vars => [Rx!Next]_<<RxQueue, stack_out>>
  BY RxRefines DEF RingInv, Rx!Next, Rx!Enq, Rx!Deq, RxQueue
<1> QED BY <1>1, <1>2, RingInvInit, RingInvStep, PTL
  DEF Spec, RxFifo, Rx!Spec, RxQueue

\* The packets of the X280 reach the TAP interface in order and at most once,
\* and no oversized one gets into the ring.
THEOREM TxIsFifo == Spec => TxFifo
<1>1. Init => Tx!Init
  BY QueuesInit DEF Init, Tx!Init, TxQueue
<1>2. RingInv /\ RingInv' /\ [Next]_vars => [Tx!Next]_<<TxQueue, tap_out>>
  BY TxRefines DEF RingInv, Tx!Next, Tx!Enq, Tx!Deq, TxQueue
<1> QED BY <1>1, <1>2, RingInvInit, RingInvStep, PTL
  DEF Spec, TxFifo, Tx!Spec, TxQueue
=============================================================================
