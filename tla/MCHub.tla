------------------------------- MODULE MCHub -------------------------------
(***************************************************************************)
(* A small instance of Hub for TLC.                                        *)
(***************************************************************************)
EXTENDS Hub

\* Of the alerts one is read, the next is trimmed before it is read and one more is left:
\* the smallest gap; a tick in between is an interleaving.
SmallEntry == [s \in Stream |-> IF s = "ticks" THEN 1 ELSE 3]
SmallLen == [s \in Stream |-> 1]
=============================================================================
