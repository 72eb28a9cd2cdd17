---------------------------- MODULE MCJiraCreate ----------------------------
(***************************************************************************)
(* Clones that sync one issue with Jira: two, and three for the counter-   *)
(* example to OneKept that README.md describes.                            *)
(***************************************************************************)
EXTENDS JiraCreateInv

MCClone == {1, 2}
MCTrio == {1, 2, 3}

=============================================================================
