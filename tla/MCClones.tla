------------------------------ MODULE MCClones ------------------------------
(***************************************************************************)
(* Small sets of clones for TLC.                                           *)
(***************************************************************************)
EXTENDS ClonesInv

CONSTANTS c1, c2, c3

\* The ids sort the operations against the order they are written in.
Reversed == [o \in 1..MaxOps |-> MaxOps + 1 - o]
=============================================================================
