--------------------------- MODULE MCExcerptCache ---------------------------
(***************************************************************************)
(* Two processes: one with a watcher, as an interface has, and one without,*)
(* as a command.                                                           *)
(***************************************************************************)
EXTENDS ExcerptCacheInv, TLC

CONSTANTS p1, p2, t1, t2, w1, x1, x2, y1, y2

MCProcOf == t1 :> p1 @@ w1 :> p1 @@ x1 :> p1 @@ x2 :> p1
         @@ t2 :> p2 @@ y1 :> p2 @@ y2 :> p2
=============================================================================
