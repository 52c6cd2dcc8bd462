------------------------------ MODULE Console ------------------------------
(***************************************************************************)
(* The virtual UART console (blackhole-thing/console.cpp): a host program  *)
(* that finds OpenSBI's UART rings in X280 memory and carries characters   *)
(* between them and the terminal, while the chip may be reset, boot again, *)
(* or leave the bus.                                                       *)
(*                                                                         *)
(* The load of an index, the access through it and the store of its        *)
(* successor are steps of their own (can_push and can_pop, and what they   *)
(* decide, are one).  The firmware and the user are external: firmware as  *)
(* the other end of the rings the console defines, the user as a source of *)
(* keys.                                                                   *)
(***************************************************************************)
EXTENDS Integers, Sequences

CONSTANTS BUFFER_SIZE,
          Keys,        \* characters the user types; CtrlA and ExitKey matter
          Chars,       \* characters the firmware prints
          Garbage,     \* <<head, tail>> that DRAM may hold after a reset
          None,
          Setups

CtrlA == "ctrl-a"
ExitKey == "x"

ASSUME SizeAssumption == BUFFER_SIZE \in Nat \ {0, 1}
ASSUME GarbageAssumption == Garbage \subseteq (0..BUFFER_SIZE-1) \X (0..BUFFER_SIZE-1)

(***************************************************************************)
(* A setup says whether the firmware reads its input (reads), how often    *)
(* the chip is reset (resets), whether it boots after that (boots), and    *)
(* whether the debug descriptor survives a reset in DRAM (keeps); and it   *)
(* bounds the keys typed and the characters the firmware prints.           *)
(***************************************************************************)
VARIABLES setup, resets,
          card,        \* the card answers on the bus
          desc,        \* the debug descriptor with its eye catcher is there
          magic,       \* the rings carry VIRTUAL_UART_MAGIC
          tx, rx,      \* the rings, from the firmware's perspective
          pc,          \* the console
          ptr,         \* find_uart: the pointer it read led to the descriptor
          ctrl_a,      \* ctrl_a_pressed
          char,        \* the character in push_char or pop_char
          index,       \* the index push_char or pop_char works with
          term,        \* "cooked" or "raw": the terminal's settings
          typed,       \* keys the terminal holds
          keysLeft, charsLeft,
          printed,     \* the character printed last
          got          \* the character the firmware read last

chip == <<setup, resets, card, desc, magic>>
user == <<typed, keysLeft>>
vars == <<chip, tx, rx, pc, ptr, ctrl_a, char, index, term, user, charsLeft, printed,
          got>>

-----------------------------------------------------------------------------
\* struct queues: one slot of a ring stays empty.
Slots == 0..BUFFER_SIZE-1
Ring == [buf : [Slots -> Keys \cup Chars \cup {None}], head : Slots, tail : Slots]
EmptyRing == [buf |-> [s \in Slots |-> None], head |-> 0, tail |-> 0]

SuccNoWrap(i) == i + 1
Succ(i) == (i + 1) % BUFFER_SIZE

CanPushAlways(q) == TRUE
CanPush(q) == Succ(q.head) # q.tail
can_pop(q) == q.head # q.tail

\* An index as the console loads it; all ones when the card is off the bus.
Loaded(i) == IF card THEN i ELSE BUFFER_SIZE - 1

\* What a ring holds, oldest first.
Contents(q) == [i \in 1..((q.head - q.tail) % BUFFER_SIZE) |->
                  q.buf[(q.tail + i - 1) % BUFFER_SIZE]]

Init == /\ setup \in Setups
        /\ resets = setup.resets
        /\ card = TRUE
        /\ magic \in BOOLEAN
        /\ desc = magic
        /\ tx = EmptyRing /\ rx = EmptyRing
        /\ pc = "start"
        /\ ptr = FALSE
        /\ ctrl_a = FALSE
        /\ char = None /\ index = 0
        /\ term = "cooked"
        /\ typed = <<>>
        /\ keysLeft = setup.keys /\ charsLeft = setup.chars
        /\ printed = None /\ got = None

-----------------------------------------------------------------------------
\* main: start of an attempt.  The constructor of the device throws when the
\* card is off the bus; main catches, sleeps and tries again.
Attach ==
  /\ pc = "start"
  /\ pc' = IF card THEN "find" ELSE "retry"
  /\ UNCHANGED <<chip, tx, rx, ptr, ctrl_a, char, index, term, user, charsLeft, printed, got>>

Retry ==
  /\ pc = "retry"
  /\ pc' = "start"
  /\ UNCHANGED <<chip, tx, rx, ptr, ctrl_a, char, index, term, user, charsLeft, printed, got>>

\* find_uart: the pointer, read through one window ...
FindPointer ==
  /\ pc = "find"
  /\ ptr' = (card /\ desc)
  /\ pc' = "descriptor"
  /\ UNCHANGED <<chip, tx, rx, ctrl_a, char, index, term, user, charsLeft, printed, got>>

\* ... then the descriptor through another: a wrong eye catcher is exit(0).
FindDescriptor ==
  /\ pc = "descriptor"
  /\ pc' = IF ptr /\ card /\ desc THEN "raw" ELSE "exit0"
  /\ UNCHANGED <<chip, tx, rx, ptr, ctrl_a, char, index, term, user, charsLeft, printed, got>>

\* TerminalRawMode: TCSAFLUSH drops what was typed so far.
EnterRawMode ==
  /\ pc = "raw"
  /\ term' = "raw"
  /\ typed' = <<>>
  /\ ctrl_a' = FALSE
  /\ pc' = "loop"
  /\ UNCHANGED <<chip, tx, rx, ptr, char, index, keysLeft, charsLeft, printed, got>>

\* ~TerminalRawMode restores the settings and drops unread keys as well.
LeaveKeepsRaw(next) == /\ UNCHANGED term
                       /\ typed' = <<>>
                       /\ pc' = next
LeaveRawMode(next) == /\ term' = "cooked"
                      /\ typed' = <<>>
                      /\ pc' = next

VanishedExits ==
  /\ pc = "loop"
  /\ ~ (card /\ magic)
  /\ LeaveRawMode("exit0")
  /\ UNCHANGED <<chip, tx, rx, ptr, ctrl_a, char, index, keysLeft, charsLeft, printed, got>>

\* Top of the loop: a wrong magic ends the attempt with EAGAIN.  A card off the
\* bus reads as all ones.
Vanished ==
  /\ pc = "loop"
  /\ ~ (card /\ magic)
  /\ LeaveRawMode("retry")
  /\ UNCHANGED <<chip, tx, rx, ptr, ctrl_a, char, index, keysLeft, charsLeft, printed, got>>

CheckMagic ==
  /\ pc = "loop"
  /\ card /\ magic
  /\ pc' = "select"
  /\ UNCHANGED <<chip, tx, rx, ptr, ctrl_a, char, index, term, user, charsLeft, printed, got>>

\* select, with a timeout: no key.
NoKeyContinues ==
  /\ pc = "select"
  /\ typed = <<>>
  /\ pc' = "loop"
  /\ UNCHANGED <<chip, tx, rx, ptr, ctrl_a, char, index, term, user, charsLeft, printed, got>>

NoKey ==
  /\ pc = "select"
  /\ typed = <<>>
  /\ pc' = "output"
  /\ UNCHANGED <<chip, tx, rx, ptr, ctrl_a, char, index, term, user, charsLeft, printed, got>>

\* Ctrl-A x leaves, Ctrl-A with another key is swallowed.
ExitPressed ==
  /\ pc = "select" /\ typed # <<>>
  /\ ctrl_a /\ Head(typed) = ExitKey
  /\ LeaveRawMode("exited")
  /\ UNCHANGED <<chip, tx, rx, ptr, ctrl_a, char, index, keysLeft, charsLeft, printed, got>>

PrefixForgotten ==
  /\ pc = "select" /\ typed # <<>>
  /\ ctrl_a \/ Head(typed) = CtrlA
  /\ ctrl_a' = FALSE
  /\ typed' = Tail(typed)
  /\ pc' = "output"
  /\ UNCHANGED <<chip, tx, rx, ptr, char, index, term, keysLeft, charsLeft, printed, got>>

PrefixKey ==
  /\ pc = "select" /\ typed # <<>>
  /\ \/ ctrl_a /\ Head(typed) # ExitKey
     \/ ~ ctrl_a /\ Head(typed) = CtrlA
  /\ ctrl_a' = ~ ctrl_a
  /\ typed' = Tail(typed)
  /\ pc' = "output"
  /\ UNCHANGED <<chip, tx, rx, ptr, char, index, term, keysLeft, charsLeft, printed, got>>

DataKey ==
  /\ pc = "select" /\ typed # <<>>
  /\ ~ ctrl_a /\ Head(typed) # CtrlA
  /\ char' = Head(typed)
  /\ typed' = Tail(typed)
  /\ pc' = "push"
  /\ UNCHANGED <<chip, tx, rx, ptr, ctrl_a, index, term, keysLeft, charsLeft, printed, got>>

\* push_char: spin until there is room, load the head and store, load it again
\* and publish its successor.  (A store to a card that is off the bus is lost;
\* its all-ones indices read as equal.)
PushWhenEmpty ==
  /\ pc = "push"
  /\ ~ card \/ ~ can_pop(rx)
  /\ pc' = "slot"
  /\ UNCHANGED <<chip, tx, rx, ptr, ctrl_a, char, index, term, user, charsLeft, printed, got>>

PushRoom ==
  /\ pc = "push"
  /\ ~ card \/ CanPush(rx)
  /\ pc' = "slot"
  /\ UNCHANGED <<chip, tx, rx, ptr, ctrl_a, char, index, term, user, charsLeft, printed, got>>

PushSlot ==
  /\ pc = "slot"
  /\ index' = Loaded(rx.head)
  /\ pc' = "store"
  /\ UNCHANGED <<chip, tx, rx, ptr, ctrl_a, char, term, user, charsLeft, printed, got>>

PushStore ==
  /\ pc = "store"
  /\ rx' = IF card THEN [rx EXCEPT !.buf[index] = char] ELSE rx
  /\ index' = 0
  /\ pc' = "head"
  /\ UNCHANGED <<chip, tx, ptr, ctrl_a, char, term, user, charsLeft, printed, got>>

PushHead ==
  /\ pc = "head"
  /\ index' = Succ(Loaded(rx.head))
  /\ pc' = "publish"
  /\ UNCHANGED <<chip, tx, rx, ptr, ctrl_a, char, term, user, charsLeft, printed, got>>

PushPublish ==
  /\ pc = "publish"
  /\ rx' = IF card THEN [rx EXCEPT !.head = index] ELSE rx
  /\ char' = None /\ index' = 0
  /\ pc' = "output"
  /\ UNCHANGED <<chip, tx, ptr, ctrl_a, term, user, charsLeft, printed, got>>

\* The loop's can_pop; an absent card has equal indices.
NoOutput ==
  /\ pc = "output"
  /\ ~ (card /\ can_pop(tx))
  /\ pc' = "loop"
  /\ UNCHANGED <<chip, tx, rx, ptr, ctrl_a, char, index, term, user, charsLeft, printed, got>>

Output ==
  /\ pc = "output"
  /\ card /\ can_pop(tx)
  /\ pc' = "pop"
  /\ UNCHANGED <<chip, tx, rx, ptr, ctrl_a, char, index, term, user, charsLeft, printed, got>>

\* pop_char: spin until there is a character (again), load it, load the tail
\* and free the slot; the character is printed.
PopReady ==
  /\ pc = "pop"
  /\ card /\ can_pop(tx)
  /\ pc' = "load"
  /\ UNCHANGED <<chip, tx, rx, ptr, ctrl_a, char, index, term, user, charsLeft, printed, got>>

\* (A reset between the load of the tail and that of the character leaves both
\* orders with a slot nobody wrote.)
PopLoad ==
  /\ pc = "load"
  /\ char' = IF card THEN tx.buf[tx.tail] ELSE None
  /\ pc' = "tail"
  /\ UNCHANGED <<chip, tx, rx, ptr, ctrl_a, index, term, user, charsLeft, printed, got>>

PopTail ==
  /\ pc = "tail"
  /\ index' = Succ(Loaded(tx.tail))
  /\ pc' = "free"
  /\ UNCHANGED <<chip, tx, rx, ptr, ctrl_a, char, term, user, charsLeft, printed, got>>

PopFreeTwice ==
  /\ pc = "free"
  /\ tx' = IF card THEN [tx EXCEPT !.tail = Succ(index)] ELSE tx
  /\ printed' = char
  /\ char' = None /\ index' = 0
  /\ pc' = "loop"
  /\ UNCHANGED <<chip, rx, ptr, ctrl_a, term, user, charsLeft, got>>

PopFree ==
  /\ pc = "free"
  /\ tx' = IF card THEN [tx EXCEPT !.tail = index] ELSE tx
  /\ printed' = char
  /\ char' = None /\ index' = 0
  /\ pc' = "loop"
  /\ UNCHANGED <<chip, rx, ptr, ctrl_a, term, user, charsLeft, got>>

ConsoleStep ==
  \/ Attach \/ Retry \/ FindPointer \/ FindDescriptor \/ EnterRawMode
  \/ Vanished \/ CheckMagic
  \/ NoKey \/ ExitPressed \/ PrefixKey \/ DataKey
  \/ PushRoom \/ PushSlot \/ PushStore \/ PushHead \/ PushPublish
  \/ NoOutput \/ Output \/ PopReady \/ PopLoad \/ PopTail \/ PopFree

-----------------------------------------------------------------------------
\* The user types.
Type(k) ==
  /\ keysLeft > 0
  /\ keysLeft' = keysLeft - 1
  /\ typed' = Append(typed, k)
  /\ UNCHANGED <<chip, tx, rx, pc, ptr, ctrl_a, char, index, term, charsLeft, printed, got>>

\* Firmware on a running chip.
FwPrint(c) ==
  /\ card /\ magic
  /\ charsLeft > 0
  /\ Succ(tx.head) # tx.tail
  /\ tx' = [tx EXCEPT !.buf[tx.head] = c, !.head = Succ(@)]
  /\ charsLeft' = charsLeft - 1
  /\ UNCHANGED <<chip, rx, pc, ptr, ctrl_a, char, index, term, user, printed, got>>

FwRead ==
  /\ setup.reads
  /\ card /\ magic
  /\ can_pop(rx)
  /\ got' = rx.buf[rx.tail]
  /\ rx' = [rx EXCEPT !.tail = Succ(@)]
  /\ UNCHANGED <<chip, tx, pc, ptr, ctrl_a, char, index, term, user, charsLeft, printed>>

\* A reset: the magic is gone, the indices are whatever DRAM holds.
ChipReset(q, r, onBus) ==
  /\ resets > 0
  /\ resets' = resets - 1
  /\ magic' = FALSE
  /\ desc' = (desc /\ setup.keeps)
  /\ card' = onBus
  /\ tx' = [EmptyRing EXCEPT !.head = q[1], !.tail = q[2]]
  /\ rx' = [EmptyRing EXCEPT !.head = r[1], !.tail = r[2]]
  /\ UNCHANGED <<setup, pc, ptr, ctrl_a, char, index, term, user, charsLeft, printed, got>>

\* OpenSBI sets up the rings, then the magic and the descriptor.
ChipBoot ==
  /\ setup.boots
  /\ ~ (card /\ magic)
  /\ magic' = TRUE /\ desc' = TRUE /\ card' = TRUE
  /\ tx' = EmptyRing /\ rx' = EmptyRing
  /\ UNCHANGED <<setup, resets, pc, ptr, ctrl_a, char, index, term, user, charsLeft, printed, got>>

Next == \/ ConsoleStep
        \/ \E k \in Keys : Type(k)
        \/ \E c \in Chars : FwPrint(c)
        \/ FwRead
        \/ ChipBoot
        \/ \E q, r \in Garbage, onBus \in BOOLEAN : ChipReset(q, r, onBus)

Spec == Init /\ [][Next]_vars

\* The console's thread runs; firmware that reads at all keeps reading; a chip
\* that boots does so in the end.  Nobody has to type, print or reset.
FairSpec == Spec /\ WF_vars(ConsoleStep) /\ WF_vars(FwRead) /\ WF_vars(ChipBoot)

-----------------------------------------------------------------------------
(***************************************************************************)
(* Properties.                                                             *)
(***************************************************************************)

\* Types; the indices stay within the rings.
TypeOK ==
  /\ setup \in Setups
  /\ card \in BOOLEAN /\ desc \in BOOLEAN /\ magic \in BOOLEAN
  /\ tx \in Ring /\ rx \in Ring
  /\ pc \in {"start", "find", "descriptor", "raw", "loop", "select", "push",
             "slot", "store", "head", "publish", "output", "pop", "load", "tail",
             "free", "retry", "exited", "exit0"}
  /\ index \in Slots
  /\ ptr \in BOOLEAN /\ ctrl_a \in BOOLEAN
  /\ term \in {"cooked", "raw"}
  /\ typed \in Seq(Keys)
  /\ {char, printed, got} \subseteq Keys \cup Chars \cup {None}

\* However the console ends (Ctrl-A x, or exit(0) inside find_uart of some
\* later attempt, which runs no destructors), and while it sleeps between
\* attempts, the user's terminal has its settings back.
TerminalRestored == pc \in {"exited", "exit0", "retry", "start", "find"} => term = "cooked"

\* The two directions as queues, in the setups where the chip is not reset.
Steady == setup.resets = 0

UartIn == INSTANCE PacketFifo
            WITH Packets <- Keys, NoPacket <- None, Capacity <- BUFFER_SIZE - 1,
                 Lossy <- FALSE,
                 queue <- IF Steady THEN Contents(rx) ELSE <<>>,
                 out <- IF Steady THEN got ELSE None
UartOut == INSTANCE PacketFifo
             WITH Packets <- Chars, NoPacket <- None, Capacity <- BUFFER_SIZE - 1,
                  Lossy <- FALSE,
                  queue <- IF Steady THEN Contents(tx) ELSE <<>>,
                  out <- IF Steady THEN printed ELSE None

\* The keys push_char is given reach the firmware in order and once each.
UartInFifo == UartIn!Spec

\* What the firmware prints reaches the terminal in order and once.
UartOutFifo == UartOut!Spec

Healthy == Steady /\ setup.reads

\* Output is printed, however the user types, if the firmware reads its input.
OutputPrinted ==
  (Healthy /\ Contents(tx) # <<>>) ~> (Contents(tx) = <<>> \/ pc = "exited")

\* "Press Ctrl-A x to exit": on such a chip the keys do end the console.
ExitKeyWorks ==
  (/\ Healthy /\ term = "raw"
   /\ Len(typed) >= 2 /\ ~ ctrl_a /\ SubSeq(typed, 1, 2) = <<CtrlA, ExitKey>>)
    ~> (pc = "exited")

\* pop_char spins: a reset took the character its caller had seen.
PopSpins == pc = "pop" /\ ~ (card /\ can_pop(tx))

\* Over all setups the loop comes round for ever (or ends), with two
\* exceptions: push_char spins on a full ring that nobody empties, and pop_char
\* spins after a reset took the character its caller had seen.
LoopComesRound ==
  \/ []<>(pc \in {"loop", "retry", "exited", "exit0"})
  \/ <>[](pc = "push" /\ card /\ ~ CanPush(rx) /\ ~ (setup.reads /\ magic))
  \/ <>[](PopSpins /\ ~ Steady)

\* "was the chip reset?  Retrying...": if the chip boots again, the console is
\* attached to the new UART again and again, unless the user leaves with Ctrl-A x
\* or pop_char spins for ever.  This holds only if no attempt of find_uart meets a
\* chip without a descriptor (still down, off the bus, or with its DRAM lost):
\* such an attempt does not come back to the loop that retries but ends the
\* process with exit(0), which is no success here.
Reattaches ==
  (setup.boots /\ setup.reads /\ [](pc \in {"find", "descriptor"} => card /\ desc))
  => \/ []<>(card /\ magic /\ pc = "select")
     \/ <>(pc = "exited")
     \/ <>[]PopSpins
=============================================================================
