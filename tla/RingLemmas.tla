----------------------------- MODULE RingLemmas -----------------------------
(***************************************************************************)
(* Facts about the rings of n cells in which one cell stays empty: the     *)
(* packet rings of x280-net and the character rings of the virtual UART.   *)
(* head is the cell the writer fills next, first the one the reader takes  *)
(* next.  The sums that the programs reduce modulo n are below 2 * n, so   *)
(* that the remainder is a comparison and a subtraction.                   *)
(***************************************************************************)
EXTENDS Integers, Sequences, TLAPS

Cells(n) == 0..n-1
Wrap(n, i) == IF i < n THEN i ELSE i - n

\* How many entries lie between the reader and the writer, and which.
Held(n, head, first) == IF first <= head THEN head - first ELSE head + n - first
Entries(n, cell, head, first) ==
  [i \in 1..Held(n, head, first) |-> cell[Wrap(n, first + i - 1)]]

LEMMA WrapMod ==
  ASSUME NEW n \in Nat \ {0, 1}, NEW i \in 0..2*n-1
  PROVE  i % n = Wrap(n, i) /\ Wrap(n, i) \in Cells(n)
<1>1. CASE i < n
  BY <1>1 DEF Wrap, Cells
<1>2. CASE n <= i
  BY <1>2 DEF Wrap, Cells
<1> QED BY <1>1, <1>2

LEMMA NextCell ==
  ASSUME NEW n \in Nat \ {0, 1}, NEW i \in Cells(n)
  PROVE  (i + 1) % n \in Cells(n) /\ (i + 1) % n = Wrap(n, i + 1)
<1>1. i + 1 \in 0..2*n-1
  BY DEF Cells
<1> QED BY <1>1, WrapMod

LEMMA HeldType ==
  ASSUME NEW n \in Nat \ {0, 1}, NEW h \in Cells(n), NEW f \in Cells(n)
  PROVE  Held(n, h, f) \in 0..n-1
BY DEF Held, Cells

\* x280-net and the console count with different expressions.
LEMMA HeldMod ==
  ASSUME NEW n \in Nat \ {0, 1}, NEW h \in Cells(n), NEW f \in Cells(n)
  PROVE  (h + n - f) % n = Held(n, h, f) /\ (h - f) % n = Held(n, h, f)
<1>1. h + n - f \in 0..2*n-1
  BY DEF Cells
<1>2. (h + n - f) % n = Wrap(n, h + n - f)
  BY <1>1, WrapMod
<1>3. (h + n - f) % n = Held(n, h, f)
  BY <1>2 DEF Wrap, Held, Cells
<1>4. (h - f) % n = Held(n, h, f)
  <2>1. CASE f <= h
    BY <2>1 DEF Held, Cells
  <2>2. CASE h < f
    BY <2>2 DEF Held, Cells
  <2> QED BY <2>1, <2>2 DEF Cells
<1> QED BY <1>3, <1>4

\* The cells of the entries, none of which is the writer's.
LEMMA EntryCell ==
  ASSUME NEW n \in Nat \ {0, 1}, NEW h \in Cells(n), NEW f \in Cells(n),
         NEW i \in 1..Held(n, h, f)
  PROVE  /\ (f + i - 1) % n = Wrap(n, f + i - 1)
         /\ Wrap(n, f + i - 1) \in Cells(n)
         /\ Wrap(n, f + i - 1) # h
<1>1. f + i - 1 \in 0..2*n-1
  BY DEF Held, Cells
<1>2. Wrap(n, f + i - 1) # h
  BY DEF Held, Cells, Wrap
<1> QED BY <1>1, <1>2, WrapMod

LEMMA EntriesLen ==
  ASSUME NEW n \in Nat \ {0, 1}, NEW h \in Cells(n), NEW f \in Cells(n), NEW cell
  PROVE  Len(Entries(n, cell, h, f)) = Held(n, h, f)
<1>1. Held(n, h, f) \in Nat
  BY HeldType
<1> QED BY <1>1 DEF Entries

LEMMA EntriesSeq ==
  ASSUME NEW n \in Nat \ {0, 1}, NEW S, NEW cell \in [Cells(n) -> S],
         NEW h \in Cells(n), NEW f \in Cells(n)
  PROVE  Entries(n, cell, h, f) \in Seq(S)
<1>1. Held(n, h, f) \in Nat
  BY HeldType
<1>2. \A i \in 1..Held(n, h, f) : cell[Wrap(n, f + i - 1)] \in S
  BY EntryCell
<1> QED BY <1>1, <1>2 DEF Entries

\* Storing into the writer's cell, which is not published, changes nothing.
LEMMA EntriesStore ==
  ASSUME NEW n \in Nat \ {0, 1}, NEW h \in Cells(n), NEW f \in Cells(n),
         NEW cell, NEW new, \A i \in Cells(n) \ {h} : new[i] = cell[i]
  PROVE  Entries(n, new, h, f) = Entries(n, cell, h, f)
BY EntryCell DEF Entries

\* Publishing it appends it.
LEMMA EntriesAppend ==
  ASSUME NEW n \in Nat \ {0, 1}, NEW S, NEW cell \in [Cells(n) -> S],
         NEW h \in Cells(n), NEW f \in Cells(n), Held(n, h, f) < n - 1
  PROVE  Entries(n, cell, (h + 1) % n, f) = Append(Entries(n, cell, h, f), cell[h])
<1>1. PICK k \in Cells(n) : k = (h + 1) % n /\ k = Wrap(n, h + 1)
  BY NextCell
<1>2. Held(n, h, f) \in Nat /\ Held(n, k, f) = Held(n, h, f) + 1
  BY <1>1 DEF Held, Wrap, Cells
<1>3. Wrap(n, f + (Held(n, h, f) + 1) - 1) = h
  BY DEF Held, Wrap, Cells
<1>4. Entries(n, cell, h, f) \in Seq(S) /\ Len(Entries(n, cell, h, f)) = Held(n, h, f)
  BY EntriesSeq, EntriesLen
<1>5. Entries(n, cell, k, f) \in Seq(S) /\ Len(Entries(n, cell, k, f)) = Held(n, k, f)
  BY EntriesSeq, EntriesLen
<1>6. cell[h] \in S
  OBVIOUS
<1>7. \A i \in 1..Held(n, h, f) + 1 :
        Entries(n, cell, k, f)[i] = Append(Entries(n, cell, h, f), cell[h])[i]
  BY <1>2, <1>3, <1>4, <1>6 DEF Entries
<1>8. Entries(n, cell, k, f) = Append(Entries(n, cell, h, f), cell[h])
  BY <1>2, <1>4, <1>5, <1>6, <1>7
<1> QED BY <1>1, <1>8

\* Taking the entry at first removes the oldest one.
LEMMA EntriesTail ==
  ASSUME NEW n \in Nat \ {0, 1}, NEW S, NEW cell \in [Cells(n) -> S],
         NEW h \in Cells(n), NEW f \in Cells(n), h # f
  PROVE  /\ Entries(n, cell, h, f) # <<>>
         /\ Head(Entries(n, cell, h, f)) = cell[f]
         /\ Entries(n, cell, h, (f + 1) % n) = Tail(Entries(n, cell, h, f))
<1>1. PICK k \in Cells(n) : k = (f + 1) % n /\ k = Wrap(n, f + 1)
  BY NextCell
<1>2. Held(n, h, f) \in Nat \ {0} /\ Held(n, h, k) = Held(n, h, f) - 1
  BY <1>1 DEF Held, Wrap, Cells
<1>3. \A i \in 1..Held(n, h, f) - 1 : Wrap(n, k + i - 1) = Wrap(n, f + (i + 1) - 1)
  BY <1>1, <1>2 DEF Held, Wrap, Cells
<1>4. Entries(n, cell, h, f) \in Seq(S) /\ Len(Entries(n, cell, h, f)) = Held(n, h, f)
  BY EntriesSeq, EntriesLen
<1>5. Entries(n, cell, h, k) \in Seq(S) /\ Len(Entries(n, cell, h, k)) = Held(n, h, k)
  BY EntriesSeq, EntriesLen
<1>6. \A i \in 1..Held(n, h, f) - 1 :
        Entries(n, cell, h, k)[i] = Entries(n, cell, h, f)[i + 1]
  BY <1>2, <1>3 DEF Entries
<1>7. Entries(n, cell, h, f)[1] = cell[f]
  BY <1>2 DEF Entries, Wrap, Cells
<1>8. /\ Entries(n, cell, h, f) # <<>>
      /\ Head(Entries(n, cell, h, f)) = cell[f]
      /\ Entries(n, cell, h, k) = Tail(Entries(n, cell, h, f))
  BY <1>2, <1>4, <1>5, <1>6, <1>7
<1> QED BY <1>1, <1>8

\* A ring is full when all cells but one are held; the reader makes room, and
\* the writer never catches up with a reader that it saw ahead.
LEMMA RingFull ==
  ASSUME NEW n \in Nat \ {0, 1}, NEW h \in Cells(n), NEW f \in Cells(n)
  PROVE  /\ (h + 1) % n = f <=> Held(n, h, f) = n - 1
         /\ h # f => /\ Held(n, h, (f + 1) % n) = Held(n, h, f) - 1
                     /\ (h + 1) % n # (f + 1) % n
<1>1. (h + 1) % n = Wrap(n, h + 1) /\ (f + 1) % n = Wrap(n, f + 1)
  BY NextCell
<1> QED BY <1>1 DEF Held, Wrap, Cells
=============================================================================
