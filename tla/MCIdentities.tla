---------------------------- MODULE MCIdentities ----------------------------
(***************************************************************************)
(* Two clones.  In clone 1 two processes run for identity 2; in clone 2    *)
(* one runs for identity 1.  Id 3 is free for the account that a sync      *)
(* meets, and comes last in MergeAll's order.                              *)
(***************************************************************************)
EXTENDS IdentitiesInv

MCClone == {1, 2}
MCProc == 1..3
MCAt == <<1, 1, 2>>
MCIdentity == 1..3
MCMe == <<2, 1>>
MCAccount == {1, 2}
MCMine == <<1, 2>>

=============================================================================
