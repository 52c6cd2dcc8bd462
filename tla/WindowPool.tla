----------------------------- MODULE WindowPool -----------------------------
(***************************************************************************)
(* What the NOC window driver promises the rest of the system, without     *)
(* bitmaps, reference counts or a probe sequence: a window has at most one *)
(* holder, only its holder aims it, a window nobody holds is aimed at its  *)
(* identity target, and a window is never given up while some process      *)
(* still has it mapped.  NocDriver is shown to implement this module.      *)
(***************************************************************************)
CONSTANTS Windows,      \* every NOC window of the chip
          Parties,      \* who can hold a window: the files and the driver
          Firmware,     \* the party that configured windows before us
          Targets,      \* the values a window's TLB register can be given
          Identity      \* the reset value: the window aims at itself

VARIABLES holder,       \* holder[w]: set of the parties that hold w
          target,       \* target[w]: where w is aimed
          mapped        \* the windows some process has in its address space

vars == <<holder, target, mapped>>

Init == /\ holder \in [Windows -> {{}, {Firmware}}]
        /\ target \in [Windows -> Targets]
        /\ \A w \in Windows : holder[w] = {} <=> target[w] = Identity
        /\ mapped = {}

Acquire(p, w) == /\ holder[w] = {}
                 /\ holder' = [holder EXCEPT ![w] = {p}]
                 /\ UNCHANGED <<target, mapped>>

Aim(p, w, t) == /\ holder[w] = {p}
                /\ target' = [target EXCEPT ![w] = t]
                /\ UNCHANGED <<holder, mapped>>

\* The holder gives up a set of windows at once (a closed file gives up all).
Surrender(p, S) ==
  /\ \A w \in S : holder[w] = {p}
  /\ S \cap mapped = {}
  /\ holder' = [w \in Windows |-> IF w \in S THEN {} ELSE holder[w]]
  /\ target' = [w \in Windows |-> IF w \in S THEN Identity ELSE target[w]]
  /\ UNCHANGED mapped

Map(p, w) == /\ holder[w] = {p}
             /\ mapped' = mapped \cup {w}
             /\ UNCHANGED <<holder, target>>

Unmap(w) == /\ mapped' = mapped \ {w}
            /\ UNCHANGED <<holder, target>>

Next == \/ \E p \in Parties, w \in Windows :
             \/ Acquire(p, w)
             \/ \E t \in Targets : Aim(p, w, t)
             \/ Map(p, w)
        \/ \E p \in Parties, S \in SUBSET Windows : Surrender(p, S)
        \/ \E w \in Windows : Unmap(w)

Spec == Init /\ [][Next]_vars
=============================================================================
