-------------------------- MODULE MCJiraCandidates --------------------------
(***************************************************************************)
(* Three issues: one that no GET returns; one that is created later, by    *)
(* another clone, and is passed over until this one claims it; and one     *)
(* whose changes move the cursor past the other two.                       *)
(***************************************************************************)
EXTENDS JiraCandidates

MCIssue == 1..3
MCBroken == {1}
MCForeign == {2}
MCOld == {1, 3}
=============================================================================
