---------------------------- MODULE ConsoleProofs ----------------------------
(***************************************************************************)
(* Proofs about the console: types, the terminal's settings, and, on a     *)
(* chip that is not reset, the two rings as queues of characters.          *)
(***************************************************************************)
EXTENDS Console, RingLemmas

V == Keys \cup Chars \cup {None}
Places == {"start", "find", "descriptor", "raw", "loop", "select", "push",
           "slot", "store", "head", "publish", "output", "pop", "load", "tail",
           "free", "retry", "exited", "exit0"}

\* The ring's indices wrap inside the ring.
LEMMA RingSize == BUFFER_SIZE \in Nat \ {0, 1} /\ Slots = Cells(BUFFER_SIZE)
BY SizeAssumption DEF Slots, Cells

LEMMA SuccSlot == ASSUME NEW i \in Slots PROVE Succ(i) \in Slots
BY RingSize, NextCell DEF Succ

LEMMA LoadedSlot == ASSUME NEW i \in Slots PROVE Loaded(i) \in Slots
BY SizeAssumption DEF Loaded, Slots

LEMMA EmptyRingType ==
  EmptyRing \in Ring /\ EmptyRing.head = 0 /\ EmptyRing.tail = 0
<1>1. 0 \in Slots
  BY SizeAssumption DEF Slots
<1> QED BY <1>1 DEF EmptyRing, Ring

LEMMA RingFields ==
  ASSUME NEW q \in Ring
  PROVE  q.buf \in [Slots -> V] /\ q.head \in Slots /\ q.tail \in Slots
BY DEF Ring, V

\* Storing a character, publishing it and freeing a slot.
Stored(q, c) == [q EXCEPT !.buf[q.head] = c]

LEMMA StoreType ==
  ASSUME NEW q \in Ring, NEW c \in V, NEW i \in Slots
  PROVE  [q EXCEPT !.buf[i] = c] \in Ring
<1>1. q.head \in Slots /\ q.buf \in [Slots -> V] /\ q.tail \in Slots
  BY RingFields
<1>2. [q.buf EXCEPT ![i] = c] \in [Slots -> V]
  BY <1>1
<1> QED BY <1>1, <1>2 DEF Ring, V

LEMMA StoreIs ==
  ASSUME NEW q \in Ring, NEW c \in V, NEW r, r = Stored(q, c)
  PROVE  /\ r \in Ring /\ r.head = q.head /\ r.tail = q.tail
         /\ r.buf[r.head] = c
         /\ \A i \in Slots \ {q.head} : r.buf[i] = q.buf[i]
<1>1. q.head \in Slots /\ q.buf \in [Slots -> V] /\ q.tail \in Slots
  BY RingFields
<1>2. /\ r.head = q.head /\ r.tail = q.tail
      /\ r.buf = [q.buf EXCEPT ![q.head] = c]
  BY DEF Ring, Stored
<1>3. r.buf \in [Slots -> V]
  BY <1>1, <1>2
<1>4. r \in Ring
  BY <1>1, <1>2, <1>3 DEF Ring, V, Stored
<1> QED BY <1>1, <1>2, <1>4

LEMMA PublishIs ==
  ASSUME NEW q \in Ring, NEW i \in Slots, NEW r, r = [q EXCEPT !.head = i]
  PROVE  r \in Ring /\ r.buf = q.buf /\ r.head = i /\ r.tail = q.tail
BY DEF Ring

LEMMA FreeIs ==
  ASSUME NEW q \in Ring, NEW i \in Slots, NEW r, r = [q EXCEPT !.tail = i]
  PROVE  r \in Ring /\ r.buf = q.buf /\ r.tail = i /\ r.head = q.head
BY DEF Ring

\* FwPrint stores and publishes at once.
Shown(q, c) == [q EXCEPT !.buf[q.head] = c, !.head = Succ(q.head)]

LEMMA PrintIs ==
  ASSUME NEW q \in Ring, NEW c \in V, NEW r, r = Shown(q, c)
  PROVE  /\ r \in Ring /\ r.head = Succ(q.head) /\ r.tail = q.tail
         /\ r.buf = Stored(q, c).buf
<1>1. /\ q.head \in Slots /\ Succ(q.head) \in Slots
      /\ q.buf \in [Slots -> V] /\ q.tail \in Slots
  BY RingFields, SuccSlot
<1>2. /\ r.head = Succ(q.head) /\ r.tail = q.tail
      /\ r.buf = [q.buf EXCEPT ![q.head] = c]
      /\ Stored(q, c).buf = [q.buf EXCEPT ![q.head] = c]
  BY DEF Ring, Shown, Stored
<1>3. r.buf \in [Slots -> V]
  BY <1>1, <1>2
<1>4. r \in Ring
  BY <1>1, <1>2, <1>3 DEF Ring, V, Shown
<1> QED BY <1>2, <1>4

\* What DRAM holds after a reset is a ring all the same.
LEMMA GarbageIs ==
  ASSUME NEW q \in Garbage, NEW r,
         r = [EmptyRing EXCEPT !.head = q[1], !.tail = q[2]]
  PROVE  r \in Ring
<1>1. q[1] \in Slots /\ q[2] \in Slots
  BY GarbageAssumption DEF Slots
<1> QED BY <1>1 DEF EmptyRing, Ring


-----------------------------------------------------------------------------
(***************************************************************************)
(* Types, with the Boolean variables apart from the others.                *)
(***************************************************************************)
FlagTypes == /\ card \in BOOLEAN /\ desc \in BOOLEAN /\ magic \in BOOLEAN
             /\ ptr \in BOOLEAN /\ ctrl_a \in BOOLEAN

RestTypes == /\ setup \in Setups
             /\ tx \in Ring /\ rx \in Ring
             /\ pc \in Places
             /\ index \in Slots
             /\ term \in {"cooked", "raw"}
             /\ typed \in Seq(Keys)
             /\ char \in V /\ printed \in V /\ got \in V

TypeInv == FlagTypes /\ RestTypes

LEMMA FlagsInit == Init => FlagTypes
BY Zenon DEF Init, FlagTypes

LEMMA FlagsStep == FlagTypes /\ [Next]_vars => FlagTypes'
<1> SUFFICES ASSUME FlagTypes, [Next]_vars PROVE FlagTypes'
  OBVIOUS
<1> USE DEF FlagTypes, chip, user
<1>1. CASE FindPointer
  BY <1>1, Zenon DEF FindPointer
<1>2. CASE PrefixKey
  BY <1>2, Zenon DEF PrefixKey
<1>3. CASE EnterRawMode
  BY <1>3, Zenon DEF EnterRawMode
<1>4. CASE Attach \/ Retry \/ FindDescriptor \/ Vanished \/ CheckMagic \/ NoKey
  BY <1>4, Zenon DEF Attach, Retry, FindDescriptor, Vanished, CheckMagic, NoKey
<1>5. CASE \/ ExitPressed \/ DataKey \/ PushRoom \/ PushSlot \/ PushStore
           \/ PushHead \/ PushPublish
  BY <1>5, Zenon DEF ExitPressed, DataKey, PushRoom, PushSlot, PushStore, PushHead,
     PushPublish
<1>6. CASE NoOutput \/ Output \/ PopReady \/ PopLoad \/ PopTail \/ PopFree
  BY <1>6, Zenon DEF NoOutput, Output, PopReady, PopLoad, PopTail, PopFree
<1>7. CASE \/ \E k \in Keys : Type(k)
           \/ \E c \in Chars : FwPrint(c)
           \/ FwRead
  BY <1>7, Zenon DEF Type, FwPrint, FwRead
<1>8. CASE ChipBoot
  BY <1>8, Zenon DEF ChipBoot
<1>9. ASSUME NEW q \in Garbage, NEW r \in Garbage, NEW onBus \in BOOLEAN,
             ChipReset(q, r, onBus)
      PROVE  FlagTypes'
  BY <1>9, Zenon DEF ChipReset
<1>10. CASE UNCHANGED vars
  BY <1>10, Zenon DEF vars
<1> QED BY <1>1, <1>2, <1>3, <1>4, <1>5, <1>6, <1>7, <1>8, <1>9, <1>10
  DEF Next, ConsoleStep

LEMMA RestInit == Init => RestTypes
<1>1. 0 \in Slots
  BY SizeAssumption DEF Slots
<1> QED BY <1>1, EmptyRingType DEF Init, RestTypes, Places, V

LEMMA RestStep == RestTypes /\ [Next]_vars => RestTypes'
<1> SUFFICES ASSUME RestTypes, [Next]_vars PROVE RestTypes'
  OBVIOUS
<1> USE DEF RestTypes, chip, user
<1>a. 0 \in Slots
  BY SizeAssumption DEF Slots
<1>b. /\ rx.head \in Slots /\ tx.tail \in Slots
      /\ \A i \in Slots : Loaded(i) \in Slots /\ Succ(i) \in Slots
  BY RingFields, LoadedSlot, SuccSlot
<1>1. CASE Attach \/ Retry \/ FindPointer \/ FindDescriptor \/ CheckMagic
  BY <1>1 DEF Attach, Retry, FindPointer, FindDescriptor, CheckMagic, Places
<1>2. CASE EnterRawMode \/ Vanished \/ ExitPressed
  <2>1. /\ term' \in {"cooked", "raw"} /\ typed' = <<>> /\ pc' \in Places
        /\ UNCHANGED <<setup, tx, rx, char, index, printed, got>>
    BY <1>2, Zenon DEF EnterRawMode, Vanished, ExitPressed, LeaveRawMode, Places
  <2> QED BY <2>1
<1>3. CASE NoKey \/ PrefixKey \/ DataKey \/ PushRoom
  BY <1>3 DEF NoKey, PrefixKey, DataKey, PushRoom, Places, V
<1>4. CASE PushStore
  <2>1. rx' \in Ring
    BY <1>4, StoreType DEF PushStore
  <2> QED BY <1>4, <1>a, <2>1 DEF PushStore, Places
<1>5. CASE PushPublish
  <2>1. rx' \in Ring
    BY <1>5, PublishIs DEF PushPublish
  <2> QED BY <1>5, <1>a, <2>1 DEF PushPublish, Places, V
<1>6. CASE NoOutput \/ Output \/ PopReady
  BY <1>6 DEF NoOutput, Output, PopReady, Places
<1>7. CASE PopLoad
  <2>1. char' \in V
    BY <1>7, RingFields DEF PopLoad, V
  <2> QED BY <1>7, <2>1 DEF PopLoad, Places
<1>8. CASE PopFree
  <2>1. tx' \in Ring
    BY <1>8, FreeIs DEF PopFree
  <2> QED BY <1>8, <1>a, <2>1 DEF PopFree, Places, V
<1>15. CASE PushSlot \/ PushHead \/ PopTail
  <2>1. index' \in Slots
    BY <1>15, <1>b DEF PushSlot, PushHead, PopTail
  <2> QED BY <1>15, <2>1 DEF PushSlot, PushHead, PopTail, Places
<1>9. CASE \E k \in Keys : Type(k)
  BY <1>9 DEF Type
<1>10. ASSUME NEW c \in Chars, FwPrint(c)
       PROVE  RestTypes'
  <2>1. tx' \in Ring
    BY <1>10, PrintIs DEF FwPrint, V, Shown
  <2> QED BY <1>10, <2>1 DEF FwPrint
<1>11. CASE FwRead
  <2>1. rx.buf[rx.tail] \in V
    BY RingFields
  <2>2. rx' \in Ring
    BY <1>11, FreeIs, RingFields, SuccSlot DEF FwRead
  <2> QED BY <1>11, <2>1, <2>2 DEF FwRead
<1>12. CASE ChipBoot
  BY <1>12, EmptyRingType DEF ChipBoot
<1>13. ASSUME NEW q \in Garbage, NEW r \in Garbage, NEW onBus \in BOOLEAN,
              ChipReset(q, r, onBus)
       PROVE  RestTypes'
  <2>1. tx' \in Ring /\ rx' \in Ring
    BY <1>13, GarbageIs DEF ChipReset
  <2> QED BY <1>13, <2>1 DEF ChipReset
<1>14. CASE UNCHANGED vars
  BY <1>14 DEF vars
<1> QED BY <1>1, <1>2, <1>3, <1>4, <1>5, <1>6, <1>7, <1>8, <1>9, <1>10, <1>11,
           <1>12, <1>13, <1>14, <1>15
  DEF Next, ConsoleStep

LEMMA TypeInvInit == Init => TypeInv
BY FlagsInit, RestInit DEF TypeInv

LEMMA TypeInvStep == TypeInv /\ [Next]_vars => TypeInv'
BY FlagsStep, RestStep DEF TypeInv

LEMMA TypeInvImplies == TypeInv => TypeOK
<1> SUFFICES ASSUME TypeInv PROVE TypeOK
  OBVIOUS
<1>1. {char, printed, got} \subseteq Keys \cup Chars \cup {None}
  BY DEF TypeInv, RestTypes, V
<1> QED BY <1>1, Zenon DEF TypeInv, FlagTypes, RestTypes, TypeOK, Places


\* Whatever the chip does (also a reset between any two of the console's
\* accesses), every read of an index stays in its ring and every character
\* shown, pushed or read is one somebody wrote or the empty slot.
THEOREM ConsoleTypes == Spec => []TypeOK
BY TypeInvInit, TypeInvStep, TypeInvImplies, PTL DEF Spec

-----------------------------------------------------------------------------
(***************************************************************************)
(* The terminal: cooked from the start of an attempt to TerminalRawMode,   *)
(* also where find_uart leaves with exit(0) and runs no destructor.        *)
(***************************************************************************)
TermInv == pc \in {"start", "find", "descriptor", "raw", "retry", "exited", "exit0"} =>
             term = "cooked"

LEMMA TermInvStep == TermInv /\ [Next]_vars => TermInv'
<1> SUFFICES ASSUME TermInv, [Next]_vars PROVE TermInv'
  OBVIOUS
<1> USE DEF TermInv
<1>1. ASSUME pc' = pc, term' = term PROVE TermInv'
  BY <1>1
<1>2. CASE Attach \/ Retry \/ FindPointer \/ FindDescriptor
  BY <1>2 DEF Attach, Retry, FindPointer, FindDescriptor
<1>3. CASE EnterRawMode
  BY <1>3 DEF EnterRawMode
<1>4. CASE Vanished \/ ExitPressed
  BY <1>4 DEF Vanished, ExitPressed, LeaveRawMode
<1>5. CASE \/ CheckMagic \/ NoKey \/ PrefixKey \/ DataKey \/ PushRoom \/ PushSlot
           \/ PushStore \/ PushHead
  BY <1>5 DEF CheckMagic, NoKey, PrefixKey, DataKey, PushRoom, PushSlot, PushStore,
     PushHead
<1>6. CASE \/ PushPublish \/ NoOutput \/ Output \/ PopReady \/ PopLoad \/ PopTail
           \/ PopFree
  BY <1>6 DEF PushPublish, NoOutput, Output, PopReady, PopLoad, PopTail, PopFree
<1>7. CASE \/ \E k \in Keys : Type(k)
           \/ \E c \in Chars : FwPrint(c)
           \/ FwRead
           \/ ChipBoot
           \/ \E q, r \in Garbage, onBus \in BOOLEAN : ChipReset(q, r, onBus)
           \/ UNCHANGED vars
  BY <1>1, <1>7, Zenon DEF Type, FwPrint, FwRead, ChipBoot, ChipReset, vars
<1> QED BY <1>2, <1>3, <1>4, <1>5, <1>6, <1>7 DEF Next, ConsoleStep

\* The user's terminal has its settings back whenever the console has ended or
\* sleeps between attempts, for every history of resets and boots.
THEOREM Terminal == Spec => []TerminalRestored
<1>1. Init => TermInv
  BY DEF Init, TermInv
<1>2. TermInv => TerminalRestored
  BY DEF TermInv, TerminalRestored
<1> QED BY <1>1, <1>2, TermInvStep, PTL DEF Spec

-----------------------------------------------------------------------------
(***************************************************************************)
(* A steady chip, one without resets.  It may still boot while the console *)
(* starts, but the console gets past find_uart only when the descriptor,   *)
(* and with it the rings, are there.                                       *)
(***************************************************************************)
Attached == {"raw", "loop", "select", "push", "slot", "store", "head", "publish",
             "output", "pop", "load", "tail", "free"}

\* What boots and resets decide.
SteadyChip == Steady => /\ card
                        /\ desc => magic
                        /\ ptr => magic
                        /\ pc \in Attached => magic

NoResets == Steady => resets = 0

LEMMA NoResetsStep == NoResets /\ [Next]_vars => NoResets'
<1> SUFFICES ASSUME NoResets, Next PROVE NoResets'
  BY DEF NoResets, vars, chip, Steady
<1> USE DEF NoResets, Steady, chip
<1>1. CASE ConsoleStep
  <2>1. UNCHANGED <<setup, resets>>
    BY <1>1, Zenon DEF ConsoleStep, Attach, Retry, FindPointer, FindDescriptor,
       EnterRawMode, Vanished, CheckMagic, NoKey, ExitPressed, PrefixKey, DataKey,
       PushRoom, PushSlot, PushStore, PushHead, PushPublish, NoOutput, Output,
       PopReady, PopLoad, PopTail, PopFree
  <2> QED BY <2>1
<1>2. CASE \/ \E k \in Keys : Type(k)
           \/ \E c \in Chars : FwPrint(c)
           \/ FwRead
           \/ ChipBoot
  <2>1. UNCHANGED <<setup, resets>>
    BY <1>2, Zenon DEF Type, FwPrint, FwRead, ChipBoot
  <2> QED BY <2>1
<1>3. CASE \E q, r \in Garbage, onBus \in BOOLEAN : ChipReset(q, r, onBus)
  BY <1>3 DEF ChipReset
<1> QED BY <1>1, <1>2, <1>3 DEF Next

\* So a reset is no step of a steady chip.
LEMMA SteadyStep ==
  ASSUME NoResets, Steady, [Next]_vars
  PROVE  \/ ConsoleStep
         \/ \E k \in Keys : Type(k)
         \/ \E c \in Chars : FwPrint(c)
         \/ FwRead
         \/ ChipBoot
         \/ UNCHANGED vars
BY DEF NoResets, Next, ChipReset

LEMMA SteadyChipStep ==
  ASSUME NoResets, SteadyChip, [Next]_vars
  PROVE  SteadyChip'
<1> USE DEF SteadyChip, chip
<1>0. CASE ~ Steady
  <2>1. setup' = setup
    BY Zenon DEF Next, ConsoleStep, Attach, Retry, FindPointer, FindDescriptor,
       EnterRawMode, Vanished, CheckMagic, NoKey, ExitPressed, PrefixKey, DataKey,
       PushRoom, PushSlot, PushStore, PushHead, PushPublish, NoOutput, Output,
       PopReady, PopLoad, PopTail, PopFree,
       Type, FwPrint, FwRead, ChipBoot, ChipReset, vars
  <2> QED BY <1>0, <2>1 DEF Steady
<1> SUFFICES ASSUME Steady PROVE SteadyChip'
  BY <1>0
<1>1. ASSUME UNCHANGED chip, UNCHANGED ptr, pc' \in Attached => pc \in Attached
      PROVE  SteadyChip'
  BY <1>1, Zenon DEF Steady
<1>2. CASE Attach \/ Retry
  <2>1. pc' \notin Attached
    BY <1>2 DEF Attach, Retry, Attached
  <2> QED BY <1>1, <1>2, <2>1, Zenon DEF Attach, Retry
<1>3. CASE FindPointer
  <2>1. pc' \notin Attached
    BY <1>3 DEF FindPointer, Attached
  <2> QED BY <1>3, <2>1, Zenon DEF FindPointer, Steady
<1>4. CASE FindDescriptor
  <2>1. pc' \in Attached => ptr /\ desc
    BY <1>4 DEF FindDescriptor, Attached
  <2> QED BY <1>4, <2>1, Zenon DEF FindDescriptor, Steady
<1>5. CASE EnterRawMode \/ Vanished \/ CheckMagic \/ NoKey \/ ExitPressed
  <2>1. pc \in Attached
    BY <1>5 DEF EnterRawMode, Vanished, CheckMagic, NoKey, ExitPressed, Attached
  <2> QED BY <1>1, <1>5, <2>1, Zenon DEF EnterRawMode, Vanished, CheckMagic, NoKey,
          ExitPressed
<1>6. CASE \/ PrefixKey \/ DataKey \/ PushRoom \/ PushSlot \/ PushStore
           \/ PushHead \/ PushPublish
  <2>1. pc \in Attached
    BY <1>6 DEF PrefixKey, DataKey, PushRoom, PushSlot, PushStore, PushHead,
       PushPublish, Attached
  <2> QED BY <1>1, <1>6, <2>1, Zenon DEF PrefixKey, DataKey, PushRoom, PushSlot,
          PushStore, PushHead, PushPublish
<1>7. CASE NoOutput \/ Output \/ PopReady \/ PopLoad \/ PopTail \/ PopFree
  <2>1. pc \in Attached
    BY <1>7 DEF NoOutput, Output, PopReady, PopLoad, PopTail, PopFree, Attached
  <2> QED BY <1>1, <1>7, <2>1, Zenon DEF NoOutput, Output, PopReady, PopLoad, PopTail,
          PopFree
<1>8. CASE \/ \E k \in Keys : Type(k)
           \/ \E c \in Chars : FwPrint(c)
           \/ FwRead
           \/ UNCHANGED vars
  BY <1>1, <1>8, Zenon DEF Type, FwPrint, FwRead, vars
<1>9. CASE ChipBoot
  BY <1>9, Zenon DEF ChipBoot
<1> QED BY <1>2, <1>3, <1>4, <1>5, <1>6, <1>7, <1>8, <1>9, SteadyStep
  DEF ConsoleStep


(***************************************************************************)
(* The rings of a steady chip.  The room push_char has seen and the        *)
(* character pop_char has loaded are still there when they are used: the   *)
(* firmware only frees room in rx and only adds characters to tx.  The     *)
(* index that was loaded is still the console's own: nobody else moves it. *)
(***************************************************************************)
Pushing == {"slot", "store", "head", "publish"}
Popping == {"load", "tail", "free"}

RxHolds == Steady => /\ ~ magic => rx.head = rx.tail
                     /\ pc \in Pushing \cup {"push"} => char \in Keys
                     /\ pc \in Pushing => CanPush(rx)
                     /\ pc = "store" => index = rx.head
                     /\ pc \in {"head", "publish"} => rx.buf[rx.head] = char
                     /\ pc = "publish" => index = Succ(rx.head)

TxHolds == Steady => /\ ~ magic => tx.head = tx.tail
                     /\ pc \in Popping => can_pop(tx)
                     /\ pc \in {"tail", "free"} => char = tx.buf[tx.tail]
                     /\ pc = "free" => index = Succ(tx.tail)

SteadyInv == TypeInv /\ NoResets /\ SteadyChip /\ RxHolds /\ TxHolds

LEMMA SetupStays == [Next]_vars => setup' = setup
BY Zenon DEF Next, ConsoleStep, Attach, Retry, FindPointer, FindDescriptor,
   EnterRawMode, Vanished, CheckMagic, NoKey, ExitPressed, PrefixKey, DataKey,
   PushRoom, PushSlot, PushStore, PushHead, PushPublish, NoOutput, Output,
       PopReady, PopLoad, PopTail, PopFree,
   Type, FwPrint, FwRead, ChipBoot, ChipReset, vars, chip

LEMMA RxHoldsStep ==
  ASSUME SteadyInv, [Next]_vars
  PROVE  RxHolds'
<1>0. CASE ~ Steady
  BY <1>0, SetupStays DEF RxHolds, Steady
<1> SUFFICES ASSUME Steady PROVE RxHolds'
  BY <1>0
<1>a. /\ rx \in Ring /\ rx.head \in Slots /\ rx.tail \in Slots
      /\ char \in V /\ typed \in Seq(Keys)
      /\ card
      /\ pc \in Attached => magic
  BY RingFields DEF SteadyInv, TypeInv, RestTypes, SteadyChip
<1>b. /\ ~ magic => rx.head = rx.tail
      /\ pc \in Pushing \cup {"push"} => char \in Keys
      /\ pc \in Pushing => CanPush(rx)
      /\ pc = "store" => index = rx.head
      /\ pc \in {"head", "publish"} => rx.buf[rx.head] = char
      /\ pc = "publish" => index = Succ(rx.head)
  BY DEF SteadyInv, RxHolds
<1> USE DEF RxHolds, Pushing, chip, user
<1>1. ASSUME UNCHANGED <<rx, magic>>, pc' \notin Pushing \cup {"push"}
      PROVE  RxHolds'
  BY <1>1, <1>b
<1>2. ASSUME UNCHANGED <<rx, magic, pc, char, index>>
      PROVE  RxHolds'
  BY <1>2, <1>b DEF CanPush, Succ
<1>3. CASE \/ Attach \/ Retry \/ FindPointer \/ FindDescriptor \/ EnterRawMode
           \/ Vanished \/ CheckMagic \/ NoKey \/ ExitPressed \/ PrefixKey
  BY <1>1, <1>3 DEF Attach, Retry, FindPointer, FindDescriptor, EnterRawMode,
     Vanished, CheckMagic, NoKey, ExitPressed, PrefixKey, LeaveRawMode
<1>4. CASE DataKey
  BY <1>4, <1>a, <1>b DEF DataKey
<1>5. CASE PushRoom
  BY <1>5, <1>a, <1>b DEF PushRoom, CanPush, Succ
<1>12. CASE PushSlot
  BY <1>12, <1>a, <1>b DEF PushSlot, Loaded, CanPush, Succ
<1>13. CASE PushHead
  BY <1>13, <1>a, <1>b DEF PushHead, Loaded, CanPush, Succ
<1>6. CASE PushStore
  <2>1. /\ rx'.head = rx.head /\ rx'.tail = rx.tail
        /\ rx'.buf[rx'.head] = char
    <3>1. rx' = Stored(rx, char)
      BY <1>6, <1>a, <1>b DEF PushStore, Stored
    <3> QED BY <1>a, <3>1, StoreIs
  <2> QED BY <1>6, <1>a, <1>b, <2>1 DEF PushStore, CanPush, Succ
<1>7. CASE PushPublish
  <2>1. magic
    BY <1>7, <1>a DEF PushPublish, Attached
  <2> QED BY <1>7, <2>1 DEF PushPublish
<1>8. CASE NoOutput \/ Output \/ PopReady \/ PopLoad \/ PopTail \/ PopFree
  BY <1>1, <1>8 DEF NoOutput, Output, PopReady, PopLoad, PopTail, PopFree
<1>9. CASE \/ \E k \in Keys : Type(k)
           \/ \E c \in Chars : FwPrint(c)
           \/ UNCHANGED vars
  BY <1>2, <1>9 DEF Type, FwPrint, vars
<1>10. CASE FwRead
  <2>1. /\ rx'.buf = rx.buf /\ rx'.head = rx.head /\ rx'.tail = Succ(rx.tail)
        /\ rx.head # rx.tail
    BY <1>10, <1>a, FreeIs, SuccSlot DEF FwRead, can_pop
  <2>2. Succ(rx.head) # Succ(rx.tail)
    BY <1>a, <2>1, RingSize, RingFull DEF Succ
  <2> QED BY <1>10, <1>b, <2>1, <2>2 DEF FwRead, CanPush, Succ
<1>11. CASE ChipBoot
  <2>1. pc \notin Attached /\ magic' /\ pc' = pc
    BY <1>11, <1>a DEF ChipBoot
  <2> QED BY <2>1 DEF Attached
<1> QED BY <1>3, <1>4, <1>5, <1>6, <1>7, <1>8, <1>9, <1>10, <1>11, <1>12, <1>13,
           SteadyStep
  DEF ConsoleStep, SteadyInv

LEMMA TxHoldsStep ==
  ASSUME SteadyInv, [Next]_vars
  PROVE  TxHolds'
<1>0. CASE ~ Steady
  BY <1>0, SetupStays DEF TxHolds, Steady
<1> SUFFICES ASSUME Steady PROVE TxHolds'
  BY <1>0
<1>a. /\ tx \in Ring /\ tx.head \in Slots /\ tx.tail \in Slots
      /\ tx.buf \in [Slots -> V]
      /\ card
      /\ pc \in Attached => magic
  BY RingFields DEF SteadyInv, TypeInv, RestTypes, SteadyChip
<1>b. /\ ~ magic => tx.head = tx.tail
      /\ pc \in Popping => can_pop(tx)
      /\ pc \in {"tail", "free"} => char = tx.buf[tx.tail]
      /\ pc = "free" => index = Succ(tx.tail)
  BY DEF SteadyInv, TxHolds
<1> USE DEF TxHolds, Popping, chip, user
<1>1. ASSUME UNCHANGED <<tx, magic>>, pc' \notin Popping
      PROVE  TxHolds'
  BY <1>1, <1>b
<1>2. ASSUME UNCHANGED <<tx, magic, pc, char, index>>
      PROVE  TxHolds'
  BY <1>2, <1>b DEF can_pop
<1>3. CASE \/ Attach \/ Retry \/ FindPointer \/ FindDescriptor \/ EnterRawMode
           \/ Vanished \/ CheckMagic \/ NoKey \/ ExitPressed \/ PrefixKey
  BY <1>1, <1>3 DEF Attach, Retry, FindPointer, FindDescriptor, EnterRawMode,
     Vanished, CheckMagic, NoKey, ExitPressed, PrefixKey, LeaveRawMode
<1>4. CASE \/ DataKey \/ PushRoom \/ PushSlot \/ PushStore \/ PushHead \/ PushPublish
           \/ NoOutput \/ Output
  BY <1>1, <1>4 DEF DataKey, PushRoom, PushSlot, PushStore, PushHead, PushPublish,
     NoOutput, Output
<1>5. CASE PopReady \/ PopLoad \/ PopTail
  BY <1>5, <1>a, <1>b DEF PopReady, PopLoad, PopTail, Loaded, can_pop, Succ
<1>6. CASE PopFree
  <2>1. magic
    BY <1>6, <1>a DEF PopFree, Attached
  <2> QED BY <1>6, <2>1 DEF PopFree
<1>7. CASE (\E k \in Keys : Type(k)) \/ FwRead \/ UNCHANGED vars
  BY <1>2, <1>7 DEF Type, FwRead, vars
<1>8. ASSUME NEW c \in Chars, FwPrint(c)
      PROVE  TxHolds'
  <2>1. /\ \A i \in Slots \ {tx.head} : tx'.buf[i] = tx.buf[i]
        /\ tx'.head = Succ(tx.head) /\ tx'.tail = tx.tail
    <3>1. tx' = Shown(tx, c) /\ c \in V
      BY <1>8 DEF FwPrint, V, Shown
    <3>2. /\ tx'.buf = Stored(tx, c).buf
          /\ tx'.head = Succ(tx.head) /\ tx'.tail = tx.tail
      BY <1>a, <3>1, PrintIs
    <3>3. \A i \in Slots \ {tx.head} : Stored(tx, c).buf[i] = tx.buf[i]
      BY <1>a, <3>1, StoreIs
    <3> QED BY <3>2, <3>3
  <2>2. /\ Succ(tx.head) # tx.tail /\ magic' = magic /\ magic
        /\ UNCHANGED <<pc, char, index>>
    BY <1>8 DEF FwPrint
  <2>3. CASE tx.head # tx.tail
    BY <1>a, <1>b, <2>1, <2>2, <2>3 DEF can_pop, Succ
  <2>4. CASE tx.head = tx.tail
    BY <1>b, <2>2, <2>4 DEF can_pop
  <2> QED BY <2>3, <2>4
<1>9. CASE ChipBoot
  <2>1. pc \notin Attached /\ magic' /\ pc' = pc
    BY <1>9, <1>a DEF ChipBoot
  <2> QED BY <2>1 DEF Attached
<1> QED BY <1>3, <1>4, <1>5, <1>6, <1>7, <1>8, <1>9, SteadyStep
  DEF ConsoleStep, SteadyInv


LEMMA SteadyInvStep == SteadyInv /\ [Next]_vars => SteadyInv'
BY TypeInvStep, NoResetsStep, SteadyChipStep, RxHoldsStep, TxHoldsStep DEF SteadyInv

LEMMA SteadyInvInit == Init => SteadyInv
<1> SUFFICES ASSUME Init PROVE SteadyInv
  OBVIOUS
<1>1. TypeInv
  BY TypeInvInit
<1>2. NoResets
  BY DEF Init, NoResets, Steady
<1>3. pc = "start" /\ card /\ (desc => magic) /\ ~ ptr
  BY Zenon DEF Init
<1>4. SteadyChip
  BY <1>3 DEF SteadyChip, Attached
<1>5. RxHolds /\ TxHolds
  BY <1>3, EmptyRingType DEF Init, RxHolds, TxHolds, Pushing, Popping
<1> QED BY <1>1, <1>2, <1>4, <1>5 DEF SteadyInv

-----------------------------------------------------------------------------
(***************************************************************************)
(* The contents of a ring under the console's and the firmware's steps.    *)
(***************************************************************************)
LEMMA ContentsIs ==
  ASSUME NEW q \in Ring
  PROVE  Contents(q) = Entries(BUFFER_SIZE, q.buf, q.head, q.tail)
<1>1. /\ BUFFER_SIZE \in Nat \ {0, 1}
      /\ q.head \in Cells(BUFFER_SIZE) /\ q.tail \in Cells(BUFFER_SIZE)
  BY RingFields, RingSize
<1>2. (q.head - q.tail) % BUFFER_SIZE = Held(BUFFER_SIZE, q.head, q.tail)
  BY <1>1, HeldMod
<1>3. \A i \in 1..Held(BUFFER_SIZE, q.head, q.tail) :
        (q.tail + i - 1) % BUFFER_SIZE = Wrap(BUFFER_SIZE, q.tail + i - 1)
  BY <1>1, EntryCell
<1> QED BY <1>2, <1>3 DEF Contents, Entries

LEMMA ContentsEmpty ==
  ASSUME NEW q \in Ring, q.head = q.tail
  PROVE  Contents(q) = <<>>
<1>1. Held(BUFFER_SIZE, q.head, q.tail) = 0
  BY RingFields, SizeAssumption DEF Held, Slots
<1> QED BY <1>1, ContentsIs DEF Entries

\* push_char's store is invisible until the head index moves.
LEMMA ContentsStore ==
  ASSUME NEW q \in Ring, NEW c \in V
  PROVE  Contents(Stored(q, c)) = Contents(q)
<1>1. PICK r \in Ring : /\ r = Stored(q, c) /\ r.head = q.head /\ r.tail = q.tail
                        /\ \A i \in Slots \ {q.head} : r.buf[i] = q.buf[i]
  BY StoreIs
<1>2. /\ BUFFER_SIZE \in Nat \ {0, 1}
      /\ q.head \in Cells(BUFFER_SIZE) /\ q.tail \in Cells(BUFFER_SIZE)
      /\ \A i \in Cells(BUFFER_SIZE) \ {q.head} : r.buf[i] = q.buf[i]
  BY <1>1, RingFields, RingSize
<1>3. Entries(BUFFER_SIZE, r.buf, q.head, q.tail) =
        Entries(BUFFER_SIZE, q.buf, q.head, q.tail)
  BY <1>2, EntriesStore
<1> QED BY <1>1, <1>3, ContentsIs

LEMMA ContentsPublish ==
  ASSUME NEW q \in Ring, NEW r \in Ring, CanPush(q),
         r.buf = q.buf, r.head = Succ(q.head), r.tail = q.tail
  PROVE  /\ Len(Contents(q)) < BUFFER_SIZE - 1
         /\ Contents(r) = Append(Contents(q), q.buf[q.head])
<1>1. /\ BUFFER_SIZE \in Nat \ {0, 1}
      /\ q.head \in Cells(BUFFER_SIZE) /\ q.tail \in Cells(BUFFER_SIZE)
      /\ q.buf \in [Cells(BUFFER_SIZE) -> V]
  BY RingFields, RingSize
<1>2. Held(BUFFER_SIZE, q.head, q.tail) < BUFFER_SIZE - 1
  <2>1. Held(BUFFER_SIZE, q.head, q.tail) # BUFFER_SIZE - 1
    BY <1>1, RingFull DEF CanPush, Succ
  <2> QED BY <1>1, <2>1, HeldType
<1>3. Len(Entries(BUFFER_SIZE, q.buf, q.head, q.tail)) < BUFFER_SIZE - 1
  BY <1>1, <1>2, EntriesLen
<1>4. Entries(BUFFER_SIZE, q.buf, Succ(q.head), q.tail) =
        Append(Entries(BUFFER_SIZE, q.buf, q.head, q.tail), q.buf[q.head])
  BY <1>1, <1>2, EntriesAppend DEF Succ
<1> QED BY <1>3, <1>4, ContentsIs

LEMMA ContentsFree ==
  ASSUME NEW q \in Ring, NEW r \in Ring, can_pop(q),
         r.buf = q.buf, r.head = q.head, r.tail = Succ(q.tail)
  PROVE  /\ Contents(q) # <<>>
         /\ Head(Contents(q)) = q.buf[q.tail]
         /\ Contents(r) = Tail(Contents(q))
<1>1. /\ BUFFER_SIZE \in Nat \ {0, 1}
      /\ q.head \in Cells(BUFFER_SIZE) /\ q.tail \in Cells(BUFFER_SIZE)
      /\ q.buf \in [Cells(BUFFER_SIZE) -> V]
  BY RingFields, RingSize
<1>2. q.head # q.tail
  BY DEF can_pop
<1>3. /\ Entries(BUFFER_SIZE, q.buf, q.head, q.tail) # <<>>
      /\ Head(Entries(BUFFER_SIZE, q.buf, q.head, q.tail)) = q.buf[q.tail]
      /\ Entries(BUFFER_SIZE, q.buf, q.head, Succ(q.tail)) =
           Tail(Entries(BUFFER_SIZE, q.buf, q.head, q.tail))
  BY <1>1, <1>2, EntriesTail DEF Succ
<1> QED BY <1>3, ContentsIs


-----------------------------------------------------------------------------
(***************************************************************************)
(* Every step of a steady chip is a step of the two queues, or none.       *)
(***************************************************************************)
LEMMA RxRefines ==
  ASSUME SteadyInv, SteadyInv', [Next]_vars, Steady
  PROVE  \/ \E k \in Keys : /\ Len(Contents(rx)) < BUFFER_SIZE - 1
                            /\ Contents(rx') = Append(Contents(rx), k)
                            /\ got' = got
         \/ /\ Contents(rx) # <<>>
            /\ Contents(rx') = Tail(Contents(rx))
            /\ got' = Head(Contents(rx))
         \/ Contents(rx') = Contents(rx) /\ got' = got
<1>a. /\ rx \in Ring /\ rx' \in Ring /\ char \in V /\ card
      /\ ~ magic => rx.head = rx.tail
      /\ pc \in Pushing \cup {"push"} => char \in Keys
      /\ pc \in Pushing => CanPush(rx)
      /\ pc = "store" => index = rx.head
      /\ pc \in {"head", "publish"} => rx.buf[rx.head] = char
      /\ pc = "publish" => index = Succ(rx.head)
  BY DEF SteadyInv, TypeInv, RestTypes, SteadyChip, RxHolds
<1> USE DEF chip, Pushing
<1>1. ASSUME UNCHANGED <<rx, got>>
      PROVE  Contents(rx') = Contents(rx) /\ got' = got
  BY <1>1
<1>2. CASE PushStore
  <2>1. rx' = Stored(rx, char) /\ got' = got
    BY <1>2, <1>a DEF PushStore, Stored
  <2> QED BY <1>a, <2>1, ContentsStore
<1>3. CASE PushPublish
  <2>1. rx' = [rx EXCEPT !.head = Succ(rx.head)] /\ got' = got /\ pc = "publish"
    BY <1>3, <1>a DEF PushPublish
  <2>2. rx'.buf = rx.buf /\ rx'.head = Succ(rx.head) /\ rx'.tail = rx.tail
    BY <1>a, <2>1, PublishIs, RingFields, SuccSlot
  <2>3. /\ Len(Contents(rx)) < BUFFER_SIZE - 1
        /\ Contents(rx') = Append(Contents(rx), char)
    BY <1>a, <2>1, <2>2, ContentsPublish
  <2> QED BY <1>a, <2>1, <2>3
<1>4. CASE FwRead
  <2>1. /\ rx' = [rx EXCEPT !.tail = Succ(rx.tail)]
        /\ got' = rx.buf[rx.tail] /\ can_pop(rx)
    BY <1>4 DEF FwRead
  <2>2. rx'.buf = rx.buf /\ rx'.head = rx.head /\ rx'.tail = Succ(rx.tail)
    BY <1>a, <2>1, FreeIs, RingFields, SuccSlot
  <2> QED BY <1>a, <2>1, <2>2, ContentsFree
<1>5. CASE ChipBoot
  <2>1. rx' = EmptyRing /\ rx.head = rx.tail /\ got' = got
    BY <1>5, <1>a DEF ChipBoot
  <2>2. rx'.head = rx'.tail
    BY <2>1, EmptyRingType
  <2> QED BY <1>a, <2>1, <2>2, ContentsEmpty
<1>6. CASE \/ Attach \/ Retry \/ FindPointer \/ FindDescriptor \/ EnterRawMode
           \/ Vanished \/ CheckMagic \/ NoKey \/ ExitPressed
  BY <1>1, <1>6, Zenon DEF Attach, Retry, FindPointer, FindDescriptor, EnterRawMode,
     Vanished, CheckMagic, NoKey, ExitPressed
<1>7. CASE \/ PrefixKey \/ DataKey \/ PushRoom \/ PushSlot \/ PushHead \/ NoOutput
           \/ Output \/ PopReady \/ PopLoad \/ PopTail \/ PopFree
  BY <1>1, <1>7, Zenon DEF PrefixKey, DataKey, PushRoom, PushSlot, PushHead, NoOutput,
     Output, PopReady, PopLoad, PopTail, PopFree
<1>8. CASE \/ \E k \in Keys : Type(k)
           \/ \E c \in Chars : FwPrint(c)
           \/ UNCHANGED vars
  BY <1>1, <1>8, Zenon DEF Type, FwPrint, vars
<1> QED BY <1>2, <1>3, <1>4, <1>5, <1>6, <1>7, <1>8, SteadyStep
  DEF ConsoleStep, SteadyInv

LEMMA TxRefines ==
  ASSUME SteadyInv, SteadyInv', [Next]_vars, Steady
  PROVE  \/ \E c \in Chars : /\ Len(Contents(tx)) < BUFFER_SIZE - 1
                             /\ Contents(tx') = Append(Contents(tx), c)
                             /\ printed' = printed
         \/ /\ Contents(tx) # <<>>
            /\ Contents(tx') = Tail(Contents(tx))
            /\ printed' = Head(Contents(tx))
         \/ Contents(tx') = Contents(tx) /\ printed' = printed
<1>a. /\ tx \in Ring /\ tx' \in Ring /\ card
      /\ ~ magic => tx.head = tx.tail
      /\ pc \in Popping => can_pop(tx)
      /\ pc \in {"tail", "free"} => char = tx.buf[tx.tail]
      /\ pc = "free" => index = Succ(tx.tail)
  BY DEF SteadyInv, TypeInv, RestTypes, SteadyChip, TxHolds
<1> USE DEF chip, Popping
<1>1. ASSUME UNCHANGED <<tx, printed>>
      PROVE  Contents(tx') = Contents(tx) /\ printed' = printed
  BY <1>1
<1>2. ASSUME NEW c \in Chars, FwPrint(c)
      PROVE  /\ Len(Contents(tx)) < BUFFER_SIZE - 1
             /\ Contents(tx') = Append(Contents(tx), c)
             /\ printed' = printed
  <2>1. /\ tx' = Shown(tx, c)
        /\ CanPush(tx) /\ printed' = printed /\ c \in V
    BY <1>2 DEF FwPrint, CanPush, V, Shown
  <2>2. /\ tx'.buf = Stored(tx, c).buf
        /\ tx'.head = Succ(tx.head) /\ tx'.tail = tx.tail
    BY <1>a, <2>1, PrintIs
  <2>3. PICK s \in Ring : /\ s = Stored(tx, c)
                          /\ s.head = tx.head /\ s.tail = tx.tail
                          /\ s.buf[s.head] = c
    BY <1>a, <2>1, StoreIs
  <2>4. Contents(s) = Contents(tx)
    BY <1>a, <2>1, <2>3, ContentsStore
  <2>5. CanPush(s) /\ tx'.buf = s.buf /\ tx'.head = Succ(s.head) /\ tx'.tail = s.tail
    BY <2>1, <2>2, <2>3 DEF CanPush
  <2>6. /\ Len(Contents(s)) < BUFFER_SIZE - 1
        /\ Contents(tx') = Append(Contents(s), c)
    BY <1>a, <2>3, <2>5, ContentsPublish
  <2> QED BY <2>1, <2>4, <2>6
<1>3. CASE PopFree
  <2>1. /\ tx' = [tx EXCEPT !.tail = Succ(tx.tail)]
        /\ printed' = tx.buf[tx.tail] /\ can_pop(tx)
    BY <1>3, <1>a DEF PopFree
  <2>2. tx'.buf = tx.buf /\ tx'.head = tx.head /\ tx'.tail = Succ(tx.tail)
    BY <1>a, <2>1, FreeIs, RingFields, SuccSlot
  <2> QED BY <1>a, <2>1, <2>2, ContentsFree
<1>4. CASE ChipBoot
  <2>1. tx' = EmptyRing /\ tx.head = tx.tail /\ printed' = printed
    BY <1>4, <1>a DEF ChipBoot
  <2>2. tx'.head = tx'.tail
    BY <2>1, EmptyRingType
  <2> QED BY <1>a, <2>1, <2>2, ContentsEmpty
<1>5. CASE \/ Attach \/ Retry \/ FindPointer \/ FindDescriptor \/ EnterRawMode
           \/ Vanished \/ CheckMagic \/ NoKey \/ ExitPressed
  BY <1>1, <1>5, Zenon DEF Attach, Retry, FindPointer, FindDescriptor, EnterRawMode,
     Vanished, CheckMagic, NoKey, ExitPressed
<1>6. CASE \/ PrefixKey \/ DataKey \/ PushRoom \/ PushSlot \/ PushStore \/ PushHead
           \/ PushPublish \/ NoOutput \/ Output \/ PopReady \/ PopLoad \/ PopTail
  BY <1>1, <1>6, Zenon DEF PrefixKey, DataKey, PushRoom, PushSlot, PushStore, PushHead,
     PushPublish, NoOutput, Output, PopReady, PopLoad, PopTail
<1>7. CASE (\E k \in Keys : Type(k)) \/ FwRead \/ UNCHANGED vars
  BY <1>1, <1>7, Zenon DEF Type, FwRead, vars
<1> QED BY <1>2, <1>3, <1>4, <1>5, <1>6, <1>7, SteadyStep DEF ConsoleStep, SteadyInv


\* The keys push_char is given reach the firmware in order and once each, for
\* every ring size: no interleaving of push_char's check, store and publish
\* with the firmware's reads overwrites or skips a character.
THEOREM UartInIsFifo == Spec => UartInFifo
<1> DEFINE queue == IF Steady THEN Contents(rx) ELSE <<>>
           out == IF Steady THEN got ELSE None
<1>1. Init => UartIn!Init
  <2> SUFFICES ASSUME Init PROVE queue = <<>> /\ out = None
    BY DEF UartIn!Init
  <2>1. rx \in Ring /\ rx.head = rx.tail /\ got = None
    BY EmptyRingType DEF Init
  <2> QED BY <2>1, ContentsEmpty
<1>2. SteadyInv /\ SteadyInv' /\ [Next]_vars => [UartIn!Next]_<<queue, out>>
  <2> SUFFICES ASSUME SteadyInv, SteadyInv', [Next]_vars
               PROVE  UartIn!Next \/ UNCHANGED <<queue, out>>
    OBVIOUS
  <2>1. setup' = setup
    BY SetupStays
  <2>2. CASE ~ Steady
    BY <2>1, <2>2 DEF Steady
  <2>3. CASE Steady
    <3>1. queue = Contents(rx) /\ out = got
      BY <2>3
    <3>2. queue' = Contents(rx') /\ out' = got'
      BY <2>1, <2>3 DEF Steady, Contents
    <3>3. \/ \E k \in Keys : /\ Len(queue) < BUFFER_SIZE - 1
                             /\ queue' = Append(queue, k)
                             /\ out' = out
          \/ /\ queue # <<>>
             /\ queue' = Tail(queue)
             /\ out' = Head(queue)
          \/ queue' = queue /\ out' = out
      <4> HIDE DEF queue, out
      <4> QED BY <2>3, <3>1, <3>2, RxRefines
    <3> QED BY <3>3 DEF UartIn!Next, UartIn!Enq, UartIn!Deq
  <2> QED BY <2>2, <2>3
<1> QED BY <1>1, <1>2, SteadyInvInit, SteadyInvStep, PTL
  DEF Spec, UartInFifo, UartIn!Spec

\* What the firmware prints reaches the terminal in order and once: the
\* character is still in the ring's oldest slot when pop_char frees it.
THEOREM UartOutIsFifo == Spec => UartOutFifo
<1> DEFINE queue == IF Steady THEN Contents(tx) ELSE <<>>
           out == IF Steady THEN printed ELSE None
<1>1. Init => UartOut!Init
  <2> SUFFICES ASSUME Init PROVE queue = <<>> /\ out = None
    BY DEF UartOut!Init
  <2>1. tx \in Ring /\ tx.head = tx.tail /\ printed = None
    BY EmptyRingType DEF Init
  <2> QED BY <2>1, ContentsEmpty
<1>2. SteadyInv /\ SteadyInv' /\ [Next]_vars => [UartOut!Next]_<<queue, out>>
  <2> SUFFICES ASSUME SteadyInv, SteadyInv', [Next]_vars
               PROVE  UartOut!Next \/ UNCHANGED <<queue, out>>
    OBVIOUS
  <2>1. setup' = setup
    BY SetupStays
  <2>2. CASE ~ Steady
    BY <2>1, <2>2 DEF Steady
  <2>3. CASE Steady
    <3>1. queue = Contents(tx) /\ out = printed
      BY <2>3
    <3>2. queue' = Contents(tx') /\ out' = printed'
      BY <2>1, <2>3 DEF Steady, Contents
    <3>3. \/ \E c \in Chars : /\ Len(queue) < BUFFER_SIZE - 1
                              /\ queue' = Append(queue, c)
                              /\ out' = out
          \/ /\ queue # <<>>
             /\ queue' = Tail(queue)
             /\ out' = Head(queue)
          \/ queue' = queue /\ out' = out
      <4> HIDE DEF queue, out
      <4> QED BY <2>3, <3>1, <3>2, TxRefines
    <3> QED BY <3>3 DEF UartOut!Next, UartOut!Enq, UartOut!Deq
  <2> QED BY <2>2, <2>3
<1> QED BY <1>1, <1>2, SteadyInvInit, SteadyInvStep, PTL
  DEF Spec, UartOutFifo, UartOut!Spec
=============================================================================
