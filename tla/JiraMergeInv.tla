---------------------------- MODULE JiraMergeInv ----------------------------
(***************************************************************************)
(* The inductive invariant of JiraMerge: what a merge base stands for, and *)
(* which versions in Jira are the sync's own.                              *)
(***************************************************************************)
EXTENDS JiraMerge

\* A touch changes nothing of the field.
TouchInv ==
    \A i, j \in 1..Now : i <= j /\ (\A k \in i + 1..j : jira[k].by = "touch") => jira[i].val = jira[j].val

\* A base is of a version that every later GET shows, or one after it; a run's
\* is at least as new as the marker's.
OrderInv ==
    /\ marker.ver <= floor /\ marker.at <= Now /\ (marker.has => 1 <= marker.ver)
    /\ run # Idle => /\ run.ver <= floor /\ run.b.at <= Now
                     /\ marker.ver <= run.b.ver /\ run.b.ver <= run.ver
                     /\ (marker.has => run.b.has) /\ (run.b.has => 1 <= run.b.ver) /\ ~run.b.fresh

\* A run that is to write has its base for Jira's value; one that has written
\* knows what, and when it landed; one that waits for an earlier write to show
\* has read a version that need not show it.
RunInv ==
    run # Idle =>
        /\ run.pc = "write" => /\ run.out # None /\ run.b.sent = None /\ ~run.wrote
                               /\ ~field.multi => run.b.has /\ run.b.val = jira[run.ver].val
        /\ run.pc = "reread" \/ run.echo => run.wrote
        /\ run.wrote => /\ run.out # None /\ run.b.sent = run.out /\ run.young /\ run.b.ver <= run.b.at /\ 1 <= run.b.at
                        /\ ~field.multi => jira[run.b.at].val = field.norm[run.out]
        /\ ~run.wrote /\ run.b.sent # None =>
               run.young /\ jira[run.ver].val # run.b.sent /\ run.ver <= run.b.wrote

\* BaseObserved, of a run's base too.
Observed(b) ==
    b.has /\ b.val # Unknown => b.val = Empty \/ \E i \in 1..Now : jira[i].val \in {b.val, field.norm[b.val]}
ObservedInv == Observed(marker) /\ (run # Idle => Observed(run.b))

\* A base is what Jira had in its version, unless the schema refuses that; but
\* the empty base of a create stands for none until the commit.
Grounded(b) ==
    b.has /\ b.val # Unknown => jira[b.ver].val = b.val \/ jira[b.ver].val \notin field.shape
Freshly ==
    ~marker.has /\ run.pc = "commit" /\ run.b.sent = None /\ run.b.val = Empty /\ run.b.ver = run.ver
BaseInv ==
    IF field.multi THEN marker.val # Unknown /\ (run # Idle => run.b.val # Unknown)
    ELSE Grounded(marker) /\ (run # Idle => Grounded(run.b) \/ Freshly)

\* Of the versions that the sync made the base is as new as each, or one is the
\* write that the base waits for.
Accounted(b) ==
    \A i \in 1..Now : jira[i].by = "sync" => i <= b.ver \/ (b.sent # None /\ i = b.at)
SyncInv ==
    ~field.multi /\ ~blind =>
        /\ run # Idle => Accounted(run.b)
        /\ (run # Idle => ~run.wrote) => Accounted(marker)

\* The invariant of the proofs: what a run may take Jira's value for
\* (jira/merge.go, decide, confirm; jira/issue.go, converge).
MergeInvariant ==
    /\ TypeOK
    /\ TouchInv /\ OrderInv /\ RunInv /\ ObservedInv /\ BaseInv /\ SyncInv

=============================================================================
