---------------------------- MODULE MCTickGroup ----------------------------
(***************************************************************************)
(* Small instances of TickGroup for TLC.                                   *)
(***************************************************************************)
EXTENDS TickGroup, TLC

\* Workers are interchangeable in the safety runs: they differ only by name.
Symmetry == Permutations(Worker)
=============================================================================
