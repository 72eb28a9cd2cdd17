------------------------------- MODULE OpLog -------------------------------
(***************************************************************************)
(* What the store promises, whatever it is made of: each issue is a set of *)
(* operations that only grows, by whole batches, in one step a reader can  *)
(* see; a batch whose writer was told it is saved is there; an issue that  *)
(* was removed is gone and stays gone.                                     *)
(***************************************************************************)
EXTENDS Functions

CONSTANTS Issue, Op, Batch

VARIABLES
  log,   \* the operations that can be read in an issue
  gone,  \* the issues that were removed
  told   \* the batches whose writers were told they are saved

logVars == <<log, gone, told>>

Init ==
  /\ log = [i \in Issue |-> {}]
  /\ gone = {}
  /\ told = {}

\* Some batches that no issue holds become readable at once: those of one
\* writer, and whatever else was staged on the instance it committed.
Save(i, bs) ==
  LET ops == UNION {Range(b) : b \in bs} IN
  /\ i \notin gone
  /\ bs # {}
  /\ \A j \in Issue : ops \cap log[j] = {}
  /\ log' = [log EXCEPT ![i] = @ \cup ops]
  /\ UNCHANGED <<gone, told>>

Remove(i) ==
  /\ log' = [log EXCEPT ![i] = {}]
  /\ gone' = gone \cup {i}
  /\ UNCHANGED told

\* Writers are told of batches that can be read, unless their issue was removed.
Tell(bs) ==
  /\ bs # {}
  /\ gone = {} => \A b \in bs : \E i \in Issue : Range(b) \subseteq log[i]
  /\ told' = told \cup bs
  /\ UNCHANGED <<log, gone>>

Next ==
  \/ \E i \in Issue : Remove(i) \/ \E bs \in SUBSET Batch : Save(i, bs)
  \/ \E bs \in SUBSET Batch : Tell(bs)

Spec == Init /\ [][Next]_logVars
=============================================================================
