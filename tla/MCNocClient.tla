---------------------------- MODULE MCNocClient ----------------------------
(***************************************************************************)
(* NocClient with two threads.  2 MiB, 4 GiB and 128 GiB shrink to 2, 4    *)
(* and 8; a size of 16 fits no window.                                     *)
(***************************************************************************)
EXTENDS NocClient, TLC

CONSTANTS t1, t2

MCTiles == {<<0, 0>>, <<1, 2>>}

Transfer(tile, addr, n) == [tile |-> tile, addr |-> addr, n |-> n]

\* t1 keeps windows of every size, hops them and makes Tensix objects; cache
\* hits and misses, words and blocks, across boundaries, past 4 GiB.  t2 makes
\* single calls through 2M windows.
MCProgram ==
  (t1 :> [sizes |-> {1, 2, 4, 16},
          configs |-> {[tile |-> <<0, 0>>, addr |-> 0, settings |-> "strict"],
                       [tile |-> <<1, 2>>, addr |-> 4, settings |-> "posted"]},
          requests |-> {Transfer(<<0, 0>>, 1, 1), Transfer(<<1, 2>>, 4, 3),
                        Transfer(<<1, 2>>, 9, 4), Transfer(<<1, 2>>, 9, 2)},
          tensix |-> MCTiles])
  @@
  (t2 :> [sizes |-> {}, configs |-> {},
          requests |-> {Transfer(<<1, 2>>, 2, 1)},
          tensix |-> {}])
=============================================================================
