------------------------------- MODULE Gossip -------------------------------
(***************************************************************************)
(* What synchronising an issue promises: every replica (a clone, or the    *)
(* remote) knows a growing set of operations.  A clone adds operations of  *)
(* its own, and a replica takes over what another knows.  Nothing is ever   *)
(* forgotten or made up.                                                   *)
(***************************************************************************)
CONSTANTS Replica, Op

VARIABLE known

Init == known = [r \in Replica |-> {}]

\* A replica records an operation nobody had.
Record(r, o) ==
  /\ \A s \in Replica : o \notin known[s]
  /\ known' = [known EXCEPT ![r] = @ \cup {o}]

\* A replica learns what another knew when it last looked.
Learn(r, s) ==
  \E part \in SUBSET known[s] : known' = [known EXCEPT ![r] = @ \cup part]

Next ==
  \/ \E r \in Replica, o \in Op : Record(r, o)
  \/ \E r, s \in Replica : Learn(r, s)

Spec == Init /\ [][Next]_known
=============================================================================
