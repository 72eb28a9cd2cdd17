--------------------------- MODULE JiraCandidates ---------------------------
(***************************************************************************)
(* Which issues of Jira a run of the sync reads (jira/candidates.go): the  *)
(* search for what was updated since the cursor, the failed hits of        *)
(* earlier runs read again a few at a time, the hits taken in order of     *)
(* their `updated`, each of which may fail and some of which end the run,  *)
(* and the state file saved at the end (jira/state.go).  Jira's issues     *)
(* change at any moment and its search shows a change up to Lag late.      *)
(* What reading an issue does is JiraMerge's; here it is read or not.      *)
(***************************************************************************)
EXTENDS Naturals, FiniteSets

CONSTANTS
    Issue,      \* Jira's issues, by id
    Old,        \* those of the first run
    Broken,     \* those whose GET always fails, for the issue and not the run
    Foreign,    \* those that are not this clone's at first: created from an
                \* issue it has not pulled, of a type it does not map, or a
                \* second one that names its issue
    Lag,        \* the search shows an update at most this much later
    Overlap,    \* the search goes back this far before the cursor
    MaxFailed,  \* failed hits read again in one run
    MaxTime,    \* bound: Jira's clock
    MaxEdits,   \* bound: changes in Jira
    MaxFaults,  \* bound: GETs that fail, runs that end early, crashes
    MaxLosses   \* bound: times the state file is lost

ASSUME CandidatesAssumption ==
    /\ Issue \subseteq Nat
    /\ Broken \subseteq Issue /\ Foreign \subseteq Issue /\ Old \subseteq Issue
    /\ Lag \in Nat /\ Overlap \in Nat /\ Lag <= Overlap
    /\ MaxFailed \in Nat \ {0} /\ MaxTime \in Nat \ {0}
    /\ MaxEdits \in Nat /\ MaxFaults \in Nat /\ MaxLosses \in Nat

VARIABLES
    now,     \* Jira's clock
    upd,     \* the `updated` of each issue, 0 for one not created yet
    shown,   \* the `updated` that the search knows
    gone,    \* issues deleted in Jira
    got,     \* the `updated` in the marker of each linked issue, 0 for none
    foreign, \* issues that this clone passes over
    unread,  \* issues with a change that no run has read, or passed over
    disk,    \* the state file
    run,     \* the run in progress
    left     \* what the bounds have left

jiraVars == <<now, upd, shown, gone>>
vars == <<now, upd, shown, gone, got, foreign, unread, disk, run, left>>

State == [cursor : Nat, failed : SUBSET Issue, after : Nat]
Hit == [id : Issue, at : Nat, re : BOOLEAN]
Idle == [pc |-> "idle"]
NoState == [cursor |-> 0, failed |-> {}, after |-> 0]

TypeOK ==
    /\ now \in Nat /\ gone \subseteq Issue /\ unread \subseteq Issue /\ foreign \subseteq Issue
    /\ upd \in [Issue -> Nat] /\ shown \in [Issue -> Nat] /\ got \in [Issue -> Nat]
    /\ disk \in State
    /\ run = Idle \/ run \in [pc : {"refetch", "hits", "save"}, full : BOOLEAN, since : Nat, st : State,
                              hits : SUBSET Hit, again : SUBSET Issue, reads : 0..MaxFailed]
    /\ left \in [edits : 0..MaxEdits, faults : 0..MaxFaults, losses : 0..MaxLosses]

-----------------------------------------------------------------------------
(* Jira.                                                                   *)

\* A change of an issue, its creation included.  Two in one instant would
\* have one `updated`, and the second would go unseen.
JiraEdit(i) ==
    /\ left.edits > 0 /\ i \notin gone /\ upd[i] < now
    /\ left' = [left EXCEPT !.edits = @ - 1]
    /\ upd' = [upd EXCEPT ![i] = now]
    /\ unread' = unread \cup {i}
    /\ UNCHANGED <<now, shown, gone, got, foreign, disk, run>>

Delete(i) ==
    /\ left.edits > 0 /\ i \notin gone /\ upd[i] > 0
    /\ left' = [left EXCEPT !.edits = @ - 1]
    /\ gone' = gone \cup {i}
    /\ UNCHANGED <<now, upd, shown, got, foreign, unread, disk, run>>

Index(i) ==
    /\ shown[i] # upd[i]
    /\ shown' = [shown EXCEPT ![i] = upd[i]]
    /\ UNCHANGED <<now, upd, gone, got, foreign, unread, disk, run, left>>

Tick ==
    /\ now < MaxTime
    /\ \A i \in Issue : shown[i] = upd[i] \/ now < upd[i] + Lag
    /\ now' = now + 1
    /\ UNCHANGED <<upd, shown, gone, got, foreign, unread, disk, run, left>>

-----------------------------------------------------------------------------
(* A run.                                                                  *)

\* lowerBound, before the overlap: the cursor, or without a state the newest
\* marker.
LowerBound ==
    IF disk.cursor > 0 THEN disk.cursor
    ELSE CHOOSE t \in {0} \cup {got[i] : i \in Issue} : \A i \in Issue : got[i] <= t

\* Mistake: the search starts at the cursor.
FoundNoOverlap(full) == {i \in Issue : shown[i] > 0 /\ (full \/ shown[i] >= LowerBound)}

\* What the search finds.  A deleted issue is shown for a while, or not.
Found(full) == {i \in Issue : shown[i] > 0 /\ (full \/ shown[i] + Overlap >= LowerBound)}

\* runAll: the search, and what refetch has to read.
Search(full) ==
    /\ run = Idle
    /\ \E dropped \in SUBSET gone :
         LET found == Found(full) \ dropped
         IN  run' = [pc |-> "refetch", full |-> full, since |-> now, st |-> disk,
                     hits |-> {[id |-> i, at |-> shown[i], re |-> FALSE] : i \in found},
                     again |-> disk.failed \ found, reads |-> 0]
    /\ UNCHANGED <<jiraVars, got, foreign, unread, disk, left>>

Fault == left.faults > 0 /\ left' = [left EXCEPT !.faults = @ - 1]
Fails(i) == IF i \in Broken THEN UNCHANGED left ELSE Fault

\* Mistake: the failed hits are read from the first one in every run.
TurnFromFirst(i) == i \in run.again /\ \A k \in run.again : i <= k

\* The next failed hit: round robin from the last one read again.
Turn(i) ==
    /\ i \in run.again
    /\ LET later == {k \in run.again : k > run.st.after}
       IN  IF later = {} THEN \A k \in run.again : i <= k
           ELSE i \in later /\ \A k \in later : i <= k

Refetching(i) == run.pc = "refetch" /\ run.reads < MaxFailed /\ Turn(i)

\* refetch, one GET: the issue is a hit.
Refetch(i) ==
    /\ Refetching(i) /\ i \notin gone
    /\ run' = [run EXCEPT !.again = @ \ {i}, !.reads = @ + 1, !.st.after = i,
                          !.hits = @ \cup {[id |-> i, at |-> upd[i], re |-> TRUE]}]
    /\ UNCHANGED <<jiraVars, got, foreign, unread, disk, left>>

\* refetch: Jira has it no more.
RefetchGone(i) ==
    /\ Refetching(i) /\ i \in gone
    /\ run' = [run EXCEPT !.again = @ \ {i}, !.reads = @ + 1, !.st.after = i, !.st.failed = @ \ {i}]
    /\ UNCHANGED <<jiraVars, got, foreign, unread, disk, left>>

\* refetch: the GET fails, for the issue or for the run.
RefetchFails(i, ends) ==
    /\ Refetching(i) /\ i \notin gone /\ (IF ends THEN Fault ELSE Fails(i))
    /\ run' = [run EXCEPT !.again = @ \ {i}, !.reads = @ + 1, !.st.after = i,
                          !.pc = IF ends THEN "save" ELSE @]
    /\ UNCHANGED <<jiraVars, got, foreign, unread, disk>>

RefetchDone ==
    /\ run.pc = "refetch" /\ (run.again = {} \/ run.reads = MaxFailed)
    /\ run' = [run EXCEPT !.pc = "hits"]
    /\ UNCHANGED <<jiraVars, got, foreign, unread, disk, left>>

Hits == IF run = Idle THEN {} ELSE run.hits

\* Mistake: the hits are handled in the order of their ids.
FirstById(h) == h \in run.hits /\ \A g \in run.hits : h.id <= g.id

\* The hits found come in order of their time, and then those refetched.
First(h) ==
    /\ h \in run.hits
    /\ \A g \in run.hits : IF h.re THEN g.re ELSE g.re \/ h.at <= g.at

\* The cursor once a hit is handled.
Reached(h) == IF ~h.re /\ h.at > run.st.cursor THEN h.at ELSE run.st.cursor

\* Mistake: a hit that fails is forgotten once the cursor is past it.
AfterNoFailed(h, ok, ends) ==
    [run EXCEPT !.hits = @ \ {h}, !.st.cursor = Reached(h), !.st.failed = @ \ {h.id},
                !.pc = IF ends THEN "save" ELSE @]

\* runHits, once a hit is handled: the cursor moves whether or not it failed.
After(h, ok, ends) ==
    [run EXCEPT !.hits = @ \ {h}, !.st.cursor = Reached(h),
                !.st.failed = IF ok THEN @ \ {h.id} ELSE @ \cup {h.id},
                !.pc = IF ends THEN "save" ELSE @]

\* runHit: the marker has the hit's time.
HitSkipped(h) ==
    /\ run.pc = "hits" /\ First(h) /\ ~run.full /\ got[h.id] = h.at
    /\ run' = After(h, TRUE, FALSE)
    /\ UNCHANGED <<jiraVars, got, foreign, unread, disk, left>>

\* What runHit goes by at the run's start: an issue is pulled that was created
\* in Jira by another clone, which may have read it since; or is adopted, or its
\* type is mapped.
Claim(i) ==
    /\ run = Idle /\ i \in foreign
    /\ foreign' = foreign \ {i}
    /\ \E t \in 0..upd[i] :
         /\ got' = [got EXCEPT ![i] = t]
         /\ unread' = IF t = upd[i] THEN unread \ {i} ELSE unread
    /\ UNCHANGED <<jiraVars, disk, run, left>>

\* syncLinked: the issue is read, as it is by now.  The marker takes its time
\* only when there is something else to record.
ReadIssue(i) ==
    /\ i \notin gone /\ i \notin Broken
    /\ UNCHANGED foreign
    /\ \E t \in {got[i], upd[i]} \ {0} : got' = [got EXCEPT ![i] = t]
    /\ unread' = unread \ {i}

\* runHit: a linked issue is synced; one that is changed here, or waits for
\* Jira, whatever its marker's time.
HitRead(h) ==
    /\ run.pc = "hits" /\ First(h) /\ got[h.id] > 0 /\ ReadIssue(h.id)
    /\ run' = After(h, TRUE, FALSE)
    /\ UNCHANGED <<jiraVars, disk, left>>

\* runHit: one that is not is linked or imported.
HitImported(h) ==
    /\ run.pc = "hits" /\ First(h) /\ got[h.id] = 0 /\ h.id \notin foreign /\ ReadIssue(h.id)
    /\ run' = After(h, TRUE, FALSE)
    /\ UNCHANGED <<jiraVars, disk, left>>

\* runHit: it is passed over without a word or with a report, which is no
\* error.
HitPassed(h) ==
    /\ run.pc = "hits" /\ First(h) /\ h.id \in foreign
    /\ unread' = IF h.at = upd[h.id] THEN unread \ {h.id} ELSE unread
    /\ run' = After(h, TRUE, FALSE)
    /\ UNCHANGED <<jiraVars, got, foreign, disk, left>>

\* runHit: Jira has it no more.  A linked issue is left to the Gone pass, and
\* one that was to be imported has failed.
HitGone(h) ==
    /\ run.pc = "hits" /\ First(h) /\ h.id \in gone \ foreign
    /\ run' = After(h, got[h.id] > 0, FALSE)
    /\ UNCHANGED <<jiraVars, got, foreign, unread, disk, left>>

\* runHit: the GET or the commit fails, for the issue or for the run.
HitFails(h, ends) ==
    /\ run.pc = "hits" /\ First(h) /\ h.id \notin gone \cup foreign
    /\ (IF ends THEN Fault ELSE Fails(h.id))
    /\ run' = After(h, FALSE, ends)
    /\ UNCHANGED <<jiraVars, got, foreign, unread, disk>>

\* The linked issues changed here are read after the hits.
ReadChanged(i) ==
    /\ run.pc = "hits" /\ run.hits = {} /\ got[i] > 0 /\ i \in unread /\ ReadIssue(i)
    /\ UNCHANGED <<jiraVars, disk, run, left>>

\* runIds: a run for one issue, with no search and no cursor.
RunIds(i) ==
    /\ run = Idle /\ got[i] > 0 /\ i \in unread /\ ReadIssue(i)
    /\ UNCHANGED <<jiraVars, disk, run, left>>

Finish ==
    /\ run.pc = "hits" /\ run.hits = {}
    /\ run' = [run EXCEPT !.pc = "save"]
    /\ UNCHANGED <<jiraVars, got, foreign, unread, disk, left>>

\* State.Save, which the caller does whatever the run's error.
Save ==
    /\ run.pc = "save"
    /\ disk' = run.st
    /\ run' = Idle
    /\ UNCHANGED <<jiraVars, got, foreign, unread, left>>

\* The process dies, or the file cannot be saved.
Crash ==
    /\ run # Idle /\ Fault
    /\ run' = Idle
    /\ UNCHANGED <<jiraVars, got, foreign, unread, disk>>

\* The state file is lost, or damaged.
Lose ==
    /\ run = Idle /\ left.losses > 0 /\ disk # NoState
    /\ left' = [left EXCEPT !.losses = @ - 1]
    /\ disk' = NoState
    /\ UNCHANGED <<jiraVars, got, foreign, unread, run>>

-----------------------------------------------------------------------------
\* A first run has read what there was at time 1, but for the broken ones.
Init ==
    /\ now = 1 /\ gone = {} /\ foreign = Foreign /\ unread = (Old \cap Broken) \ Foreign
    /\ upd = [i \in Issue |-> IF i \in Old THEN 1 ELSE 0] /\ shown = upd
    /\ got = [i \in Issue |-> IF i \in Old \ (Broken \cup Foreign) THEN 1 ELSE 0]
    /\ disk = [NoState EXCEPT !.cursor = 1, !.failed = unread]
    /\ run = Idle
    /\ left = [edits |-> MaxEdits, faults |-> MaxFaults, losses |-> MaxLosses]

RefetchStep ==
    \/ \E i \in Issue : Refetch(i) \/ RefetchGone(i) \/ (\E ends \in BOOLEAN : RefetchFails(i, ends))
    \/ RefetchDone
HitStep ==
    \/ \E h \in Hits : HitSkipped(h) \/ HitRead(h) \/ HitImported(h) \/ HitPassed(h) \/ HitGone(h)
    \/ \E h \in Hits, ends \in BOOLEAN : HitFails(h, ends)
    \/ \E i \in Issue : ReadChanged(i)
    \/ Finish
Searching == \E full \in BOOLEAN : Search(full)
Indexing == \E i \in Issue : Index(i)
Next ==
    \/ \E i \in Issue : JiraEdit(i) \/ Delete(i)
    \/ Indexing \/ Tick
    \/ Searching
    \/ \E i \in Issue : RunIds(i) \/ Claim(i)
    \/ RefetchStep
    \/ HitStep
    \/ Save \/ Crash \/ Lose

Spec == Init /\ [][Next]_vars

\* The search catches up, a run once begun goes on, and another follows it.
FairSpec ==
    /\ Spec
    /\ WF_vars(Indexing) /\ WF_vars(Searching) /\ WF_vars(RefetchStep) /\ WF_vars(HitStep) /\ WF_vars(Save)

-----------------------------------------------------------------------------
(* Properties.                                                             *)

Lost == left.losses < MaxLosses

\* A change in Jira that no run has read is one that the state file leads to:
\* its issue is a failed hit, or the next search, once it shows the change,
\* reaches back to it.
InReach == \A i \in unread \ gone : i \in disk.failed \/ upd[i] + Overlap >= disk.cursor

\* Whatever fails and wherever a run dies, no unread change gets out of reach
\* as long as the state file is there (jira/candidates.go, runHits: "unreached
\* hits are after the cursor, or still in Failed").
NothingMissed == Lost \/ InReach

\* "losing it costs a slower run, never a wrong one" (jira/state.go, of the
\* state file).
LossHarmless == InReach

-----------------------------------------------------------------------------
(* Why nothing is missed.                                                  *)

\* Times are those of the past, the search lags by no more than Lag, and an
\* unread change is newer than the marker.
Times ==
    /\ disk.cursor \in 1..now
    /\ \A i \in Issue :
         /\ upd[i] <= now /\ shown[i] <= upd[i] /\ got[i] <= upd[i]
         /\ shown[i] = upd[i] \/ now <= upd[i] + Lag
    /\ \A i \in unread : got[i] < upd[i]

\* A hit tells the issue's present time, but for a change that the next search
\* reaches.  Those found are no later than the search, nor is the cursor.
HitsKnown ==
    /\ run.since <= now /\ run.st.cursor \in 1..run.since
    /\ \A h \in run.hits :
         /\ h.at = upd[h.id] \/ upd[h.id] + Overlap >= run.since
         /\ ~h.re => h.at <= run.since

\* What is to become of an unread change in this run.
InHand(i) ==
    \/ i \in run.st.failed
    \/ upd[i] + Overlap >= run.since
    \/ \E h \in run.hits : h.id = i /\ h.at = upd[i] /\ ~h.re

\* A run may end here: InReach, of the state as it would be saved.
NothingDropped == \A i \in unread \ gone : i \in run.st.failed \/ upd[i] + Overlap >= run.st.cursor

\* What a run has in hand, whatever is left of it, and what the state file
\* leads to.
Covered ==
    /\ Times /\ InReach
    /\ run # Idle => HitsKnown /\ NothingDropped /\ \A i \in unread \ gone : InHand(i)

\* The inductive invariant of JiraCandidatesProofs
\* (jira/candidates.go, runAll and runHits).
IInv == TypeOK /\ (Lost \/ Covered)

-----------------------------------------------------------------------------
\* Every change is read in the end, but of issues that no GET returns, which
\* keep no other failed hit waiting (jira/candidates.go, refetch: "so every
\* one is read within ceil(n/maxFailed) runs").
AllRead == \A i \in Issue \ Broken : i \in unread ~> i \notin unread \/ i \in gone \/ Lost

=============================================================================
