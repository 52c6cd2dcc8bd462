----------------------------- MODULE MCConsole -----------------------------
(***************************************************************************)
(* Console on small rings, on a steady chip and on one that is reset.      *)
(***************************************************************************)
EXTENDS Console

\* An empty ring, one character, and a full ring.
MCGarbage == {<<0, 0>>, <<1, 0>>, <<0, 1>>}

MCSetups ==
  {[reads |-> r, resets |-> 0, boots |-> FALSE, keeps |-> FALSE,
    keys |-> 3, chars |-> 3] : r \in BOOLEAN}
  \cup
  [reads : BOOLEAN, resets : {1}, boots : BOOLEAN, keeps : BOOLEAN,
   keys : {2}, chars : {1}]
=============================================================================
