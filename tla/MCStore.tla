------------------------------ MODULE MCStore ------------------------------
(***************************************************************************)
(* Small stores for TLC.  Batch a is written by two authors, and so takes  *)
(* two packs; b and c are single operations.                               *)
(***************************************************************************)
EXTENDS StoreInv, TLC

CONSTANTS p1, p2, w1, w2, x1, x2, i1, i2, a1, a2, b1, c1, alice, bot

MCProc == {p1, p2}
MCWorker == {w1, w2}
MCOp == {a1, a2, b1, c1}
MCBatch == {<<a1, a2>>, <<b1>>, <<c1>>}
MCAuthorOf == a1 :> alice @@ a2 :> bot @@ b1 :> alice @@ c1 :> alice

\* One process, two threads that share one instance of one issue.
SharedInst == {x1}
SharedProcOf == w1 :> p1 @@ w2 :> p1 @@ x1 :> p1
SharedIssueOf == x1 :> i1

\* One process, two threads, and two instances of the issue.
TwinInst == {x1, x2}
TwinProcOf == w1 :> p1 @@ w2 :> p1 @@ x1 :> p1 @@ x2 :> p1
TwinIssueOf == x1 :> i1 @@ x2 :> i1

\* Two processes of one thread, an instance of the issue in each.
ApartProcOf == w1 :> p1 @@ w2 :> p2 @@ x1 :> p1 @@ x2 :> p2
ApartIssueOf == x1 :> i1 @@ x2 :> i1

\* Two processes, each on an issue of its own.
OwnIssueOf == x1 :> i1 @@ x2 :> i2
=============================================================================
