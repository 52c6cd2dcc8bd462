---------------------------- MODULE MCNocDriver ----------------------------
(***************************************************************************)
(* NocDriver on a small chip: the .cfg files choose the windows, the files *)
(* and what the environment may do.                                        *)
(***************************************************************************)
EXTENDS NocDriver, TLC

\* The files are interchangeable.
FileSymmetry == Permutations(Files)
=============================================================================
