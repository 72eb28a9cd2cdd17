------------------------ MODULE JiraCandidatesProofs ------------------------
(***************************************************************************)
(* As long as the state file is not lost, no change in Jira is missed, for *)
(* any issues, failures, lag, overlap and bounds of JiraCandidates.        *)
(***************************************************************************)
EXTENDS JiraCandidates, TLAPS

\* A run in progress, as TypeOK has it.
RunType == [pc : {"refetch", "hits", "save"}, full : BOOLEAN, since : Nat, st : State,
            hits : SUBSET Hit, again : SUBSET Issue, reads : 0..MaxFailed]

LEMMA RunTyped ==
    ASSUME TypeOK, run # Idle
    PROVE  run \in RunType
  BY DEF TypeOK, RunType

\* TypeOK', of a run in progress.
LEMMA TypeNext ==
    ASSUME TypeOK, run' \in RunType, UNCHANGED <<jiraVars, disk>>,
           unread' \subseteq Issue, got' \in [Issue -> Nat], UNCHANGED foreign,
           left' \in [edits : 0..MaxEdits, faults : 0..MaxFaults, losses : 0..MaxLosses]
    PROVE  TypeOK'
  BY DEF TypeOK, RunType, jiraVars

LEMMA FaultTyped ==
    ASSUME TypeOK, Fault
    PROVE  left' \in [edits : 0..MaxEdits, faults : 0..MaxFaults, losses : 0..MaxLosses]
  BY CandidatesAssumption DEF TypeOK, Fault

LEMMA FailsTyped ==
    ASSUME TypeOK, NEW i, Fails(i)
    PROVE  left' \in [edits : 0..MaxEdits, faults : 0..MaxFaults, losses : 0..MaxLosses]
  BY FaultTyped DEF TypeOK, Fails

\* runHits, once a hit is handled: what is left of the run
\* (jira/candidates.go, runHits).
LEMMA AfterHit ==
    ASSUME TypeOK, run # Idle, NEW h \in run.hits, NEW ok \in BOOLEAN, NEW ends \in BOOLEAN
    PROVE  /\ After(h, ok, ends) \in RunType /\ After(h, ok, ends) # Idle
           /\ After(h, ok, ends).hits = run.hits \ {h}
           /\ After(h, ok, ends).since = run.since
           /\ After(h, ok, ends).st.cursor = Reached(h)
           /\ After(h, ok, ends).st.failed = IF ok THEN run.st.failed \ {h.id} ELSE run.st.failed \cup {h.id}
PROOF
<1>1. run \in RunType /\ h \in Hit
  BY RunTyped DEF RunType
<1>2. Reached(h) \in Nat
  BY <1>1 DEF Reached, RunType, State, Hit
<1> QED
  BY <1>1, <1>2 DEF After, RunType, State, Hit, Idle

-----------------------------------------------------------------------------
(* Types, which the loss of the state file leaves.                         *)

\* A run that begins (jira/candidates.go, runAll).
LEMMA SearchTyped ==
    ASSUME TypeOK, NEW full \in BOOLEAN, Search(full)
    PROVE  TypeOK'
PROOF
<1> USE CandidatesAssumption
<1>1. PICK dropped \in SUBSET gone :
        run' = [pc |-> "refetch", full |-> full, since |-> now, st |-> disk,
                hits |-> {[id |-> i, at |-> shown[i], re |-> FALSE] : i \in Found(full) \ dropped},
                again |-> disk.failed \ (Found(full) \ dropped), reads |-> 0]
  BY DEF Search
<1> DEFINE found == Found(full) \ dropped
<1>2. UNCHANGED <<jiraVars, got, foreign, unread, disk, left>>
  BY DEF Search
<1>3. now \in Nat /\ shown \in [Issue -> Nat] /\ disk \in State /\ found \subseteq Issue
  BY DEF TypeOK, Found
<1>4. run' \in RunType
  <2>1. \A i \in found : [id |-> i, at |-> shown[i], re |-> FALSE] \in Hit
    BY <1>3 DEF Hit
  <2>2. run'.hits \subseteq Hit
    BY <1>1, <2>1
  <2>3. run'.again \subseteq Issue /\ 0 \in 0..MaxFailed
    BY <1>1, <1>3 DEF State
  <2> HIDE DEF found
  <2> QED
    BY <1>1, <1>3, <2>2, <2>3 DEF RunType
<1> QED
  BY <1>2, <1>4, TypeNext DEF TypeOK

\* A failed hit read again: what it leaves of the run, and no more reads than
\* a run may make (jira/candidates.go, refetch).
LEMMA RefetchRun ==
    ASSUME TypeOK, NEW i \in Issue, NEW ends \in BOOLEAN,
           Refetch(i) \/ RefetchGone(i) \/ RefetchFails(i, ends)
    PROVE  /\ TypeOK' /\ run # Idle /\ UNCHANGED <<jiraVars, got, foreign, unread, disk>>
           /\ run' \in RunType /\ run'.since = run.since /\ run'.st.cursor = run.st.cursor
           /\ \A k \in run.st.failed : k \in run'.st.failed \/ k \in gone
           /\ run.hits \subseteq run'.hits
           /\ run'.hits \subseteq run.hits \cup {[id |-> i, at |-> upd[i], re |-> TRUE]}
PROOF
<1> USE CandidatesAssumption
<1>1. run # Idle /\ UNCHANGED <<jiraVars, got, foreign, unread, disk>>
  <2>1. run.pc = "refetch"
    BY DEF Refetch, RefetchGone, RefetchFails, Refetching
  <2>2. run # Idle
    BY <2>1 DEF Idle
  <2> QED
    BY <2>2 DEF Refetch, RefetchGone, RefetchFails
<1>2. run \in RunType
  BY <1>1, RunTyped
<1>3. upd \in [Issue -> Nat] /\ now \in Nat /\ MaxFailed \in Nat
  BY DEF TypeOK
<1> DEFINE hit == [id |-> i, at |-> upd[i], re |-> TRUE]
<1>4. hit \in Hit
  BY <1>3 DEF Hit
<1>5. run.st \in State /\ run.hits \subseteq Hit /\ run.again \subseteq Issue /\ run.reads \in 0..MaxFailed
  BY <1>2 DEF RunType
<1>6. ASSUME Refetching(i)
      PROVE  run.reads + 1 \in 0..MaxFailed
  BY <1>3, <1>5, <1>6 DEF Refetching
<1> HIDE DEF hit
<1>7. /\ run' \in RunType /\ run'.since = run.since /\ run'.st.cursor = run.st.cursor
      /\ \A k \in run.st.failed : k \in run'.st.failed \/ k \in gone
      /\ run.hits \subseteq run'.hits /\ run'.hits \subseteq run.hits \cup {hit}
  <2>1. CASE Refetch(i)
    <3>1. run' = [run EXCEPT !.again = @ \ {i}, !.reads = @ + 1, !.st.after = i, !.hits = @ \cup {hit}]
      BY <2>1 DEF Refetch, hit
    <3>2. run.reads + 1 \in 0..MaxFailed /\ run.hits \cup {hit} \subseteq Hit /\ run.again \ {i} \subseteq Issue
      BY <1>4, <1>5, <1>6, <2>1 DEF Refetch
    <3>3. i \in Nat
      OBVIOUS
    <3> QED
      BY <1>2, <1>5, <3>1, <3>2, <3>3 DEF RunType, State
  <2>2. CASE RefetchGone(i)
    BY <1>2, <1>5, <1>6, <2>2 DEF RefetchGone, RunType, State
  <2>3. CASE RefetchFails(i, ends)
    BY <1>2, <1>5, <1>6, <2>3 DEF RefetchFails, RunType, State
  <2> QED
    BY <2>1, <2>2, <2>3
<1>8. TypeOK'
  <2>1. left' \in [edits : 0..MaxEdits, faults : 0..MaxFaults, losses : 0..MaxLosses]
    <3>1. UNCHANGED left \/ Fault \/ Fails(i)
      BY DEF Refetch, RefetchGone, RefetchFails
    <3> QED
      BY <3>1, FaultTyped, FailsTyped DEF TypeOK
  <2> QED
    BY <1>1, <1>7, <2>1, TypeNext DEF TypeOK
<1> QED
  BY <1>1, <1>7, <1>8 DEF hit

\* A hit handled (jira/candidates.go, runHit).
LEMMA HitTyped ==
    ASSUME TypeOK, NEW h \in Hits, NEW ends \in BOOLEAN,
           HitSkipped(h) \/ HitRead(h) \/ HitImported(h) \/ HitPassed(h) \/ HitGone(h)
           \/ HitFails(h, ends)
    PROVE  TypeOK'
PROOF
<1>1. run # Idle /\ h \in run.hits /\ UNCHANGED <<jiraVars, foreign, disk>>
  BY DEF ReadIssue, Hits, Idle, HitSkipped, HitRead, HitImported, HitPassed, HitGone, HitFails
<1>2. PICK ok \in BOOLEAN, e \in BOOLEAN : run' = After(h, ok, e)
  <2>1. (got[h.id] > 0) \in BOOLEAN
    OBVIOUS
  <2> QED
    BY <2>1 DEF HitSkipped, HitRead, HitImported, HitPassed, HitGone, HitFails
<1>3. run' \in RunType
  BY <1>1, <1>2, AfterHit
<1>4. UNCHANGED left \/ Fault \/ Fails(h.id)
  BY DEF HitSkipped, HitRead, HitImported, HitPassed, HitGone, HitFails
<1>5. left' \in [edits : 0..MaxEdits, faults : 0..MaxFaults, losses : 0..MaxLosses]
  BY <1>4, FailsTyped, FaultTyped DEF TypeOK
<1>6. (unread' \subseteq unread /\ UNCHANGED got) \/ ReadIssue(h.id)
  BY DEF HitSkipped, HitRead, HitImported, HitPassed, HitGone, HitFails
<1>7. unread' \subseteq Issue /\ got' \in [Issue -> Nat]
  BY <1>6 DEF TypeOK, ReadIssue
<1> QED
  BY <1>1, <1>3, <1>5, <1>7, TypeNext

\* Every step keeps the types.
LEMMA TypeStep ==
    ASSUME TypeOK, [Next]_vars
    PROVE  TypeOK'
PROOF
<1> USE CandidatesAssumption
<1>1. CASE UNCHANGED vars
  BY <1>1 DEF vars, jiraVars, TypeOK
<1>2. ASSUME NEW i \in Issue, JiraEdit(i)
      PROVE  TypeOK'
  <2>1. left' \in [edits : 0..MaxEdits, faults : 0..MaxFaults, losses : 0..MaxLosses]
    BY <1>2 DEF TypeOK, JiraEdit
  <2> QED
    BY <1>2, <2>1 DEF TypeOK, JiraEdit
<1>3. ASSUME NEW i \in Issue, Delete(i) \/ Index(i)
      PROVE  TypeOK'
  BY <1>3 DEF TypeOK, Delete, Index
<1>4. CASE Tick
  BY <1>4 DEF TypeOK, Tick
<1>5. CASE Searching
  BY <1>5, SearchTyped DEF Searching
<1>6. ASSUME NEW i \in Issue, ReadChanged(i) \/ RunIds(i)
      PROVE  TypeOK'
  <2>1. ReadIssue(i) /\ UNCHANGED <<jiraVars, foreign, disk, run, left>>
    BY <1>6 DEF ReadChanged, RunIds, ReadIssue
  <2>2. unread' \subseteq Issue /\ got' \in [Issue -> Nat]
    BY <2>1 DEF TypeOK, ReadIssue
  <2> QED
    BY <2>1, <2>2 DEF TypeOK, jiraVars
<1>13. ASSUME NEW i \in Issue, Claim(i)
       PROVE  TypeOK'
  <2>1. PICK t \in 0..upd[i] : got' = [got EXCEPT ![i] = t]
    BY <1>13 DEF Claim
  <2>2. t \in Nat
    BY <2>1 DEF TypeOK
  <2>3. unread' \subseteq Issue /\ foreign' \subseteq Issue /\ UNCHANGED <<jiraVars, disk, run, left>>
    BY <1>13 DEF Claim, TypeOK
  <2>4. got' \in [Issue -> Nat]
    BY <2>1, <2>2 DEF TypeOK
  <2> QED
    BY <2>3, <2>4 DEF TypeOK, jiraVars
<1>7. CASE RefetchDone \/ Finish
  <2>1. run # Idle /\ UNCHANGED <<jiraVars, got, foreign, unread, disk, left>>
    BY <1>7 DEF RefetchDone, Finish, Idle
  <2>2. run' \in RunType
    BY <1>7, <2>1, RunTyped DEF RefetchDone, Finish, RunType
  <2> QED
    BY <2>1, <2>2, TypeNext DEF TypeOK
<1>8. CASE Save
  <2>1. run # Idle /\ disk' = run.st /\ run' = Idle /\ UNCHANGED <<jiraVars, got, foreign, unread, left>>
    BY <1>8 DEF Save, Idle
  <2>2. run.st \in State
    BY <2>1, RunTyped DEF RunType
  <2> QED
    BY <2>1, <2>2 DEF TypeOK, jiraVars
<1>9. CASE Crash
  <2>1. left' \in [edits : 0..MaxEdits, faults : 0..MaxFaults, losses : 0..MaxLosses]
    BY <1>9, FaultTyped DEF Crash
  <2> QED
    BY <1>9, <2>1 DEF TypeOK, Crash, jiraVars
<1>10. CASE Lose
  <2>1. left' \in [edits : 0..MaxEdits, faults : 0..MaxFaults, losses : 0..MaxLosses]
    BY <1>10 DEF TypeOK, Lose
  <2>2. NoState \in State
    BY DEF NoState, State
  <2> QED
    BY <1>10, <2>1, <2>2 DEF TypeOK, Lose, jiraVars
<1>11. CASE RefetchStep
  BY <1>7, <1>11, RefetchRun DEF RefetchStep
<1>12. CASE HitStep
  BY <1>6, <1>7, <1>12, HitTyped DEF HitStep
<1> QED
  BY <1>1, <1>2, <1>3, <1>4, <1>5, <1>6, <1>8, <1>9, <1>10, <1>11, <1>12, <1>13 DEF Next, Indexing

-----------------------------------------------------------------------------
(* What a run has in hand.                                                 *)

\* The state of a first run, and the markers it left (jira/state.go, Load).
LEMMA InitIInv == Init => TypeOK /\ Covered
PROOF
<1> SUFFICES ASSUME Init PROVE TypeOK /\ Covered
  OBVIOUS
<1>1. disk = [cursor |-> 1, failed |-> (Old \cap Broken) \ Foreign, after |-> 0]
  BY DEF Init, NoState
<1>2. TypeOK
  BY <1>1, CandidatesAssumption DEF Init, TypeOK, State
<1>3. Times
  BY <1>1, CandidatesAssumption DEF Init, Times
<1>4. InReach
  BY <1>1 DEF Init, InReach
<1> QED
  BY <1>2, <1>3, <1>4 DEF Covered, Init

\* A change in Jira is newer than any search and any marker.
LEMMA JiraEditKeeps ==
    ASSUME TypeOK, TypeOK', Covered, NEW i \in Issue, JiraEdit(i)
    PROVE  Covered'
PROOF
<1> USE CandidatesAssumption
<1>2. Times'
  <2>1. upd' = [upd EXCEPT ![i] = now] /\ upd \in [Issue -> Nat] /\ now \in Nat /\ got \in [Issue -> Nat]
    BY DEF Covered, TypeOK, JiraEdit
  <2>2. \A k \in Issue : upd'[k] = IF k = i THEN now ELSE upd[k]
    BY <2>1
  <2>3. disk'.cursor \in 1..now'
    BY DEF Covered, Times, JiraEdit
  <2>4. \A k \in Issue : /\ upd'[k] <= now' /\ shown'[k] <= upd'[k] /\ got'[k] <= upd'[k]
                         /\ shown'[k] = upd'[k] \/ now' <= upd'[k] + Lag
    BY <2>1, <2>2 DEF Covered, TypeOK, Times, JiraEdit
  <2>5. got[i] <= upd[i]
    BY DEF Covered, Times
  <2>6. \A k \in unread' : got'[k] < upd'[k]
    BY <2>1, <2>2, <2>5 DEF Covered, TypeOK, Times, JiraEdit
  <2> QED
    BY <2>3, <2>4, <2>6 DEF Times
<1>3. InReach'
  BY DEF Covered, TypeOK, Times, InReach, JiraEdit, State
<1>4. ASSUME run # Idle
      PROVE  HitsKnown' /\ NothingDropped' /\ \A k \in (unread \ gone)' : InHand(k)'
  <2>1. run \in RunType
    BY <1>4, RunTyped DEF Covered
  <2>2. run.since <= now /\ run.since \in Nat /\ now \in Nat /\ run.st.cursor \in 1..run.since
    BY <1>4, <2>1 DEF Covered, HitsKnown, RunType, TypeOK
  <2>3. HitsKnown'
    BY <1>4, <2>1, <2>2 DEF Covered, TypeOK, HitsKnown, JiraEdit, RunType, Hit
  <2>4. NothingDropped'
    BY <1>4, <2>1, <2>2 DEF Covered, TypeOK, NothingDropped, JiraEdit
  <2>5. \A k \in (unread \ gone)' : InHand(k)'
    BY <1>4, <2>1, <2>2 DEF Covered, TypeOK, InHand, JiraEdit, RunType
  <2> QED
    BY <2>3, <2>4, <2>5
<1> QED
  BY <1>2, <1>3, <1>4 DEF Covered, JiraEdit

\* Nothing that a run has in hand, or left to do, depends on these.
LEMMA RunKept ==
    ASSUME TypeOK, TypeOK', Covered, Times', UNCHANGED <<upd, disk, run>>, now <= now', now' \in Nat,
           unread' \subseteq unread, gone \subseteq gone'
    PROVE  Covered'
PROOF
<1>1. InReach'
  BY DEF Covered, InReach
<1>2. ASSUME run # Idle
      PROVE  HitsKnown' /\ NothingDropped' /\ \A k \in (unread \ gone)' : InHand(k)'
  <2>1. HitsKnown /\ run \in RunType /\ now \in Nat
    BY <1>2, RunTyped DEF Covered, TypeOK
  <2>2. HitsKnown'
    BY <2>1 DEF HitsKnown, RunType
  <2>3. NothingDropped'
    BY <1>2 DEF Covered, NothingDropped
  <2>4. \A k \in (unread \ gone)' : InHand(k)'
    BY <1>2 DEF Covered, InHand
  <2> QED
    BY <2>2, <2>3, <2>4
<1> QED
  BY <1>1, <1>2 DEF Covered

\* Jira's own steps.
LEMMA JiraKeeps ==
    ASSUME TypeOK, TypeOK', Covered, NEW i, (i \in Issue /\ (Delete(i) \/ Index(i))) \/ Tick
    PROVE  Covered'
PROOF
<1> USE CandidatesAssumption
<1>2. Times'
  <2>1. CASE i \in Issue /\ Delete(i)
    BY <2>1 DEF Covered, Times, Delete
  <2>2. CASE i \in Issue /\ Index(i)
    <3>1. \A k \in Issue : shown'[k] = IF k = i THEN upd[k] ELSE shown[k]
      BY <2>2 DEF Covered, TypeOK, Index
    <3> QED
      BY <2>2, <3>1 DEF Covered, TypeOK, Times, Index
  <2>3. CASE Tick
    BY <2>3 DEF Covered, TypeOK, Times, State, Tick
  <2> QED
    BY <2>1, <2>2, <2>3
<1>3. UNCHANGED <<upd, disk, run, unread>> /\ now <= now' /\ now' \in Nat /\ gone \subseteq gone'
  BY DEF Covered, TypeOK, Delete, Index, Tick
<1> QED
  BY <1>2, <1>3, RunKept

-----------------------------------------------------------------------------
\* The search begins a run: what the state file leads to is found, or its
\* change is so late that the next search reaches back to it
\* (jira/candidates.go, lowerBound).
LEMMA SearchKeeps ==
    ASSUME TypeOK, TypeOK', Covered, NEW full \in BOOLEAN, Search(full)
    PROVE  Covered'
PROOF
<1> USE CandidatesAssumption
<1>1. PICK dropped \in SUBSET gone :
        run' = [pc |-> "refetch", full |-> full, since |-> now, st |-> disk,
                hits |-> {[id |-> i, at |-> shown[i], re |-> FALSE] : i \in Found(full) \ dropped},
                again |-> disk.failed \ (Found(full) \ dropped), reads |-> 0]
  BY DEF Search
<1> DEFINE found == Found(full) \ dropped
<1>2. UNCHANGED <<jiraVars, got, foreign, unread, disk, left>>
  BY DEF Search
<1>3. /\ now \in Nat /\ upd \in [Issue -> Nat] /\ shown \in [Issue -> Nat] /\ got \in [Issue -> Nat]
      /\ disk \in State /\ unread \subseteq Issue /\ found \subseteq Issue /\ disk.cursor \in 1..now
  BY DEF Covered, TypeOK, Times, Found
<1>4. LowerBound = disk.cursor
  BY <1>3 DEF LowerBound
<1>6. Times' /\ InReach'
  BY <1>2 DEF Covered, Times, InReach, jiraVars
<1>7. \A i \in Issue : shown[i] = upd[i] \/ upd[i] + Overlap >= now
  BY <1>3 DEF Covered, Times
<1>8. HitsKnown'
  <2>1. run'.since <= now' /\ run'.st.cursor \in 1..run'.since
    BY <1>1, <1>2, <1>3 DEF jiraVars
  <2>2. ASSUME NEW h \in run'.hits
        PROVE  /\ h.at = upd'[h.id] \/ upd'[h.id] + Overlap >= run'.since
               /\ ~h.re => h.at <= run'.since
    <3>1. PICK i \in found : h = [id |-> i, at |-> shown[i], re |-> FALSE]
      BY <1>1, <2>2
    <3>2. i \in Issue /\ shown[i] <= now
      <4> HIDE DEF found
      <4>1. i \in Issue /\ shown[i] \in Nat /\ upd[i] \in Nat /\ now \in Nat
        BY <1>3
      <4>2. shown[i] <= upd[i] /\ upd[i] <= now
        BY <4>1 DEF Covered, Times
      <4> QED
        BY <4>1, <4>2
    <3>3. h.id = i /\ h.at = shown[i] /\ run'.since = now
      BY <1>1, <3>1
    <3> QED
      BY <1>1, <1>2, <1>3, <1>7, <3>2, <3>3 DEF jiraVars
  <2> QED
    BY <2>1, <2>2 DEF HitsKnown
<1>9. NothingDropped'
  BY <1>1, <1>2 DEF Covered, InReach, NothingDropped, jiraVars
<1>10. ASSUME NEW i \in (unread \ gone)'
       PROVE  InHand(i)'
  <2>1. i \in unread \ gone /\ i \in Issue
    BY <1>2, <1>3 DEF jiraVars
  <2>2. got[i] < upd[i] /\ got[i] \in Nat /\ upd[i] \in Nat
    BY <1>3, <2>1 DEF Covered, Times
  <2>3. CASE disk.failed # {} /\ i \in disk.failed
    BY <1>1, <2>3 DEF InHand
  <2>4. CASE i \notin disk.failed /\ shown[i] = upd[i]
    <3>1. upd[i] + Overlap >= disk.cursor
      BY <2>1, <2>4 DEF Covered, InReach
    <3>2. i \in found
      BY <1>4, <2>1, <2>2, <2>4, <3>1 DEF Found
    <3>3. [id |-> i, at |-> upd[i], re |-> FALSE] \in run'.hits
      BY <1>1, <2>4, <3>2
    <3> QED
      BY <1>2, <3>3 DEF InHand, jiraVars
  <2>5. CASE shown[i] # upd[i]
    BY <1>1, <1>2, <1>7, <2>1, <2>5 DEF InHand, jiraVars
  <2> QED
    BY <2>3, <2>4, <2>5
<1> QED
  BY <1>6, <1>8, <1>9, <1>10 DEF Covered

\* A failed hit is read again, or its GET fails: it stays a failed hit, or is
\* one of the run, or is of an issue that Jira has no more
\* (jira/candidates.go, refetch).
LEMMA RefetchKeeps ==
    ASSUME TypeOK, TypeOK', Covered, NEW i \in Issue, NEW ends \in BOOLEAN,
           Refetch(i) \/ RefetchGone(i) \/ RefetchFails(i, ends)
    PROVE  Covered'
PROOF
<1>1. TypeOK' /\ run # Idle /\ UNCHANGED <<jiraVars, got, foreign, unread, disk>>
  BY RefetchRun
<1>2. run \in RunType /\ HitsKnown /\ NothingDropped
  BY <1>1, RunTyped DEF Covered
<1> DEFINE hit == [id |-> i, at |-> upd[i], re |-> TRUE]
<1>7. /\ run' \in RunType /\ run'.since = run.since /\ run'.st.cursor = run.st.cursor
      /\ \A k \in run.st.failed : k \in run'.st.failed \/ k \in gone
      /\ run.hits \subseteq run'.hits /\ run'.hits \subseteq run.hits \cup {hit}
  BY RefetchRun
<1> HIDE DEF hit
<1>9. Times' /\ InReach'
  BY <1>1 DEF Covered, Times, InReach, jiraVars
<1>10. HitsKnown'
  <2>1. hit.id = i /\ hit.at = upd[i] /\ hit.re
    BY DEF hit
  <2> QED
    BY <1>1, <1>2, <1>7, <2>1 DEF HitsKnown, jiraVars
<1>11. NothingDropped'
  BY <1>1, <1>2, <1>7 DEF NothingDropped, jiraVars
<1>12. \A k \in (unread \ gone)' : InHand(k)'
  BY <1>1, <1>7 DEF Covered, InHand, jiraVars
<1> QED
  BY <1>1, <1>9, <1>10, <1>11, <1>12 DEF Covered

-----------------------------------------------------------------------------
\* An issue that is read has no unread change left (jira/issue.go, syncLinked).
LEMMA ReadKeeps ==
    ASSUME TypeOK, TypeOK', Covered, NEW i \in Issue, ReadIssue(i), UNCHANGED <<jiraVars, disk>>
    PROVE  /\ got' \in [Issue -> Nat] /\ unread' = unread \ {i}
           /\ Times' /\ InReach'
PROOF
<1>1. PICK t \in {got[i], upd[i]} \ {0} : got' = [got EXCEPT ![i] = t]
  BY DEF ReadIssue
<1>2. got \in [Issue -> Nat] /\ upd \in [Issue -> Nat] /\ unread \subseteq Issue /\ unread' = unread \ {i}
  BY DEF Covered, TypeOK, ReadIssue
<1>3. got' \in [Issue -> Nat] /\ \A k \in Issue : got'[k] = IF k = i THEN t ELSE got[k]
  BY <1>1, <1>2
<1>4. t <= upd[i]
  BY <1>1, <1>2 DEF Covered, Times
<1>5. Times'
  BY <1>2, <1>3, <1>4 DEF Covered, Times, jiraVars
<1>6. InReach'
  BY <1>2 DEF Covered, InReach, jiraVars
<1> QED
  BY <1>2, <1>3, <1>5, <1>6

\* A hit is handled in its turn: its issue is a failed hit, or has nothing
\* unread, or changed so late that the next search reaches back to it; and
\* the cursor does not pass what is left (jira/candidates.go, runHits).
LEMMA HitHandled ==
    ASSUME TypeOK, TypeOK', Covered, run # Idle, NEW h \in run.hits, First(h), NEW ok \in BOOLEAN, NEW ends \in BOOLEAN,
           run' = After(h, ok, ends), UNCHANGED <<jiraVars, disk>>, unread' \subseteq unread,
           TypeOK', Times', InReach',
           ok => \/ h.id \notin unread' \/ h.id \in gone
                 \/ upd[h.id] + Overlap >= run.since
    PROVE  Covered'
PROOF
<1> USE CandidatesAssumption
<1>1. run \in RunType /\ HitsKnown /\ NothingDropped /\ h \in Hit /\ TypeOK
  BY RunTyped DEF Covered, RunType
<1>2. /\ run' # Idle /\ run' \in RunType
      /\ run'.hits = run.hits \ {h} /\ run'.since = run.since /\ run'.st.cursor = Reached(h)
      /\ run'.st.failed = IF ok THEN run.st.failed \ {h.id} ELSE run.st.failed \cup {h.id}
  BY <1>1, AfterHit
<1>3. /\ run.since \in Nat /\ run.st.cursor \in Nat /\ h.at \in Nat /\ h.id \in Issue
      /\ upd \in [Issue -> Nat] /\ unread \subseteq Issue /\ run.hits \subseteq Hit
  BY <1>1 DEF RunType, State, Hit, TypeOK
<1>4. Reached(h) \in 1..run.since
  BY <1>1, <1>3 DEF Reached, HitsKnown
<1>5. HitsKnown'
  BY <1>1, <1>2, <1>4 DEF HitsKnown, jiraVars
<1>6. ASSUME NEW i \in (unread \ gone)'
      PROVE  InHand(i)' /\ (i \in run'.st.failed \/ upd[i] + Overlap >= run'.st.cursor)
  <2>1. i \in unread \ gone /\ i \in Issue /\ upd[i] \in Nat
    BY <1>3 DEF jiraVars
  <2>2. CASE upd[i] + Overlap >= run.since
    BY <1>2, <1>3, <1>4, <2>1, <2>2 DEF InHand, jiraVars
  <2>3. CASE i = h.id /\ ~(upd[i] + Overlap >= run.since)
    <3>1. ~ok
      BY <2>1, <2>3 DEF jiraVars
    <3> QED
      BY <1>2, <2>3, <3>1 DEF InHand
  <2>4. CASE i # h.id /\ i \in run.st.failed
    BY <1>2, <2>4 DEF InHand
  <2>5. CASE i # h.id /\ i \notin run.st.failed /\ ~(upd[i] + Overlap >= run.since)
    <3>1. PICK g \in run.hits : g.id = i /\ g.at = upd[i] /\ ~g.re
      BY <2>1, <2>5 DEF Covered, InHand
    <3>2. InHand(i)'
      BY <1>2, <2>5, <3>1 DEF InHand, jiraVars
    <3>3. upd[i] + Overlap >= run.st.cursor
      BY <1>1, <2>1, <2>5 DEF NothingDropped
    <3>4. h.re \/ h.at <= g.at
      BY <3>1 DEF First
    <3> QED
      BY <1>2, <1>3, <2>1, <3>1, <3>2, <3>3, <3>4 DEF Reached
  <2> QED
    BY <2>2, <2>3, <2>4, <2>5
<1>7. NothingDropped' /\ \A i \in (unread \ gone)' : InHand(i)'
  BY <1>6 DEF NothingDropped, jiraVars
<1> QED
  BY <1>2, <1>5, <1>7 DEF Covered

\* runHit, by its outcomes: skipped, read, imported, passed over, gone, failed
\* (jira/candidates.go, runHit).
LEMMA HitKeeps ==
    ASSUME TypeOK, TypeOK', Covered, NEW h \in Hits, NEW ends \in BOOLEAN,
           HitSkipped(h) \/ HitRead(h) \/ HitImported(h) \/ HitPassed(h) \/ HitGone(h)
           \/ HitFails(h, ends)
    PROVE  Covered'
PROOF
<1>1. run # Idle /\ h \in run.hits /\ First(h) /\ UNCHANGED <<jiraVars, disk>>
  BY DEF Hits, Idle, HitSkipped, HitRead, HitImported, HitPassed, HitGone, HitFails
<1>2. run \in RunType /\ h.id \in Issue /\ h.at \in Nat
  BY <1>1, RunTyped DEF Covered, RunType, Hit
<1>3. ASSUME NEW ok \in BOOLEAN, NEW e \in BOOLEAN, run' = After(h, ok, e), Times', InReach',
             unread' \subseteq unread,
             ok => h.id \notin unread' \/ h.id \in gone \/ upd[h.id] + Overlap >= run.since
      PROVE  Covered'
  BY <1>1, <1>3, HitHandled
<1>4. CASE HitSkipped(h)
  <2>1. run' = After(h, TRUE, FALSE) /\ UNCHANGED <<unread, got, left>> /\ got[h.id] = h.at
    BY <1>4 DEF HitSkipped
  <2>2. Times' /\ InReach' /\ got' \in [Issue -> Nat]
    BY <1>1, <2>1 DEF Covered, TypeOK, Times, InReach, jiraVars
  <2>3. h.id \notin unread' \/ upd[h.id] + Overlap >= run.since
    <3>1. h.id \in unread => h.at # upd[h.id]
      BY <1>2, <2>1 DEF Covered, TypeOK, Times
    <3> QED
      BY <1>1, <2>1, <3>1 DEF Covered, HitsKnown
  <2> QED
    BY <1>3, <2>1, <2>2, <2>3
<1>5. CASE HitRead(h) \/ HitImported(h)
  <2>1. run' = After(h, TRUE, FALSE) /\ ReadIssue(h.id) /\ UNCHANGED left
    BY <1>5 DEF HitRead, HitImported
  <2>2. got' \in [Issue -> Nat] /\ unread' = unread \ {h.id} /\ Times' /\ InReach'
    BY <1>1, <1>2, <2>1, ReadKeeps
  <2> QED
    BY <1>3, <2>1, <2>2
<1>6. CASE HitGone(h)
  <2>1. run' = After(h, got[h.id] > 0, FALSE) /\ UNCHANGED <<unread, got, left>> /\ h.id \in gone
    BY <1>6 DEF HitGone
  <2>2. Times' /\ InReach' /\ got' \in [Issue -> Nat]
    BY <1>1, <2>1 DEF Covered, TypeOK, Times, InReach, jiraVars
  <2>3. (got[h.id] > 0) \in BOOLEAN
    OBVIOUS
  <2> QED
    BY <1>3, <2>1, <2>2, <2>3
<1>7. CASE HitFails(h, ends)
  <2>1. run' = After(h, FALSE, ends) /\ UNCHANGED <<unread, got>> /\ (Fault \/ Fails(h.id))
    BY <1>7 DEF HitFails
  <2>2. Times' /\ InReach' /\ got' \in [Issue -> Nat]
    BY <1>1, <2>1 DEF Covered, TypeOK, Times, InReach, jiraVars
  <2> QED
    BY <1>3, <2>1, <2>2
<1>8. CASE HitPassed(h)
  <2>1. run' = After(h, TRUE, FALSE) /\ UNCHANGED <<got, left>>
        /\ unread' = IF h.at = upd[h.id] THEN unread \ {h.id} ELSE unread
    BY <1>8 DEF HitPassed
  <2>2. Times' /\ InReach'
    BY <1>1, <2>1 DEF Covered, TypeOK, Times, InReach, jiraVars
  <2>3. h.id \notin unread' \/ upd[h.id] + Overlap >= run.since
    BY <1>1, <2>1 DEF Covered, HitsKnown
  <2> QED
    BY <1>3, <2>1, <2>2, <2>3
<1> QED
  BY <1>4, <1>5, <1>6, <1>7, <1>8

\* An issue that becomes this clone's, between two runs: a change of it that
\* was not passed over is as far as it was
\* (jira/candidates.go, runHit).
LEMMA ClaimKeeps ==
    ASSUME TypeOK, TypeOK', Covered, NEW i \in Issue, Claim(i)
    PROVE  Covered'
PROOF
<1>1. PICK t \in 0..upd[i] : /\ got' = [got EXCEPT ![i] = t]
                            /\ unread' = IF t = upd[i] THEN unread \ {i} ELSE unread
  BY DEF Claim
<1>2. UNCHANGED <<jiraVars, disk, run>> /\ run = Idle
  BY DEF Claim
<1>3. got \in [Issue -> Nat] /\ upd \in [Issue -> Nat] /\ unread \subseteq Issue
  BY DEF TypeOK
<1>4. t \in Nat /\ t <= upd[i] /\ \A k \in Issue : got'[k] = IF k = i THEN t ELSE got[k]
  BY <1>1, <1>3
<1>5. Times'
  BY <1>1, <1>2, <1>3, <1>4 DEF Covered, Times, jiraVars
<1>6. InReach'
  BY <1>1, <1>2 DEF Covered, InReach, jiraVars
<1> QED
  BY <1>2, <1>5, <1>6 DEF Covered

\* An issue read outside the hits (jira/candidates.go, runAll and runIds).
LEMMA OtherReadsKeep ==
    ASSUME TypeOK, TypeOK', Covered, NEW i \in Issue, ReadChanged(i) \/ RunIds(i)
    PROVE  Covered'
PROOF
<1>1. ReadIssue(i) /\ UNCHANGED <<jiraVars, disk, run, left>>
  BY DEF ReadChanged, RunIds
<1>2. got' \in [Issue -> Nat] /\ unread' = unread \ {i} /\ Times' /\ InReach'
  BY <1>1, ReadKeeps
<1> QED
  BY <1>1, <1>2, RunKept DEF TypeOK, jiraVars

\* A step of a run that reads nothing, and its end: what it leaves is what its state leads to, or what the
\* old one does (jira/state.go, Save).
LEMMA EndKeeps ==
    ASSUME TypeOK, TypeOK', Covered, RefetchDone \/ Finish \/ Save \/ Crash
    PROVE  Covered'
PROOF
<1>1. run # Idle /\ UNCHANGED <<jiraVars, got, unread>>
  BY DEF RefetchDone, Finish, Save, Crash, Idle
<1>2. run \in RunType /\ HitsKnown /\ NothingDropped
  BY <1>1, RunTyped DEF Covered
<1>3. CASE RefetchDone \/ Finish
  <2>1. run' \in RunType /\ UNCHANGED <<disk, left>>
    BY <1>2, <1>3 DEF RefetchDone, Finish, RunType
  <2>3. run'.st = run.st /\ run'.hits = run.hits /\ run'.since = run.since
    BY <1>2, <1>3 DEF RefetchDone, Finish, RunType
  <2> QED
    BY <1>1, <2>1, <2>3
    DEF Covered, Times, InReach, HitsKnown, NothingDropped, InHand, jiraVars
<1>4. CASE Save
  <2>1. disk' = run.st /\ run' = Idle /\ UNCHANGED left
    BY <1>4 DEF Save
  <2>2. run.st \in State /\ run.st.cursor \in Nat /\ run.since \in Nat
    BY <1>2 DEF RunType, State
  <2>4. Times'
    BY <1>1, <1>2, <2>1, <2>2 DEF Covered, TypeOK, Times, HitsKnown, jiraVars
  <2>5. InReach'
    BY <1>1, <1>2, <2>1 DEF NothingDropped, InReach, jiraVars
  <2> QED
    BY <2>1, <2>4, <2>5 DEF Covered
<1>5. CASE Crash
  <2>1. run' = Idle /\ UNCHANGED disk
    BY <1>5 DEF Crash
  <2> QED
    BY <1>1, <2>1 DEF Covered, Times, InReach, jiraVars
<1> QED
  BY <1>3, <1>4, <1>5

-----------------------------------------------------------------------------
\* Every step but the loss of the state file keeps what is in hand.
LEMMA CoveredStep ==
    ASSUME TypeOK, TypeOK', Covered, [Next]_vars, ~Lose
    PROVE  Covered'
PROOF
<1>2. CASE UNCHANGED vars
  BY <1>2 DEF vars, jiraVars, Covered, TypeOK, Times, InReach, HitsKnown, NothingDropped, InHand
<1>3. CASE RefetchStep
  BY <1>3, RefetchKeeps, EndKeeps DEF RefetchStep
<1>4. CASE HitStep
  BY <1>4, HitKeeps, OtherReadsKeep, EndKeeps DEF HitStep
<1>5. CASE \E i \in Issue : JiraEdit(i) \/ Delete(i) \/ Index(i)
  BY <1>5, JiraEditKeeps, JiraKeeps
<1>6. CASE Tick
  BY <1>6, JiraKeeps
<1>7. CASE Searching
  BY <1>7, SearchKeeps DEF Searching
<1>8. CASE (\E i \in Issue : RunIds(i) \/ Claim(i)) \/ Save \/ Crash
  BY <1>8, OtherReadsKeep, ClaimKeeps, EndKeeps
<1> QED
  BY <1>2, <1>3, <1>4, <1>5, <1>6, <1>7, <1>8 DEF Next, Indexing

\* A loss is never undone.
LEMMA LossCounted ==
    ASSUME TypeOK, [Next]_vars
    PROVE  /\ Lost => Lost'
           /\ Lose => Lost'
PROOF
<1> USE CandidatesAssumption
<1>1. left.losses \in 0..MaxLosses /\ left'.losses \in 0..MaxLosses
  BY TypeStep DEF TypeOK
<1>2. Lose => left'.losses = left.losses - 1
  BY DEF TypeOK, Lose
<1>3. ~Lose => left'.losses = left.losses
  <2>1. Fault => left'.losses = left.losses
    BY DEF TypeOK, Fault
  <2>2. \A i \in Issue : JiraEdit(i) \/ Delete(i) => left'.losses = left.losses
    BY DEF TypeOK, JiraEdit, Delete
  <2>3. RefetchStep => UNCHANGED left \/ Fault
    BY DEF RefetchStep, Refetch, RefetchGone, RefetchFails, RefetchDone, Fails
  <2>4. HitStep => UNCHANGED left \/ Fault
    BY DEF HitStep, HitSkipped, HitRead, HitImported, HitPassed, HitGone, HitFails, ReadChanged, Finish, Fails
  <2>5. Indexing \/ Tick \/ Searching \/ (\E i \in Issue : RunIds(i) \/ Claim(i)) \/ Save \/ Crash
          => UNCHANGED left \/ Fault
    BY DEF Indexing, Index, Tick, Searching, Search, RunIds, Claim, Save, Crash
  <2> QED
    BY <2>1, <2>2, <2>3, <2>4, <2>5 DEF Next, vars
<1> QED
  BY <1>1, <1>2, <1>3 DEF Lost

\* Whatever fails and wherever a run ends, a run has in hand what is unread,
\* or the state file leads to it, as long as it is there
\* (jira/candidates.go, runAll).
THEOREM CandidatesInvariance == Spec => []IInv
PROOF
<1>1. Init => IInv
  BY InitIInv DEF IInv
<1>2. IInv /\ [Next]_vars => IInv'
  BY TypeStep, CoveredStep, LossCounted DEF IInv
<1> QED
  BY <1>1, <1>2, PTL DEF Spec

\* Every variable keeps its type: no run reads more than MaxFailed failed hits
\* again (jira/candidates.go, refetch).
THEOREM CandidatesTyped == Spec => []TypeOK
PROOF
<1>1. IInv => TypeOK
  BY DEF IInv
<1> QED
  BY <1>1, CandidatesInvariance, PTL

\* Unless the state file is lost, no change in Jira is missed, however the
\* search lags within the overlap, whatever fails, and wherever runs die
\* (jira/candidates.go, runHits).
THEOREM NoChangeMissed == Spec => []NothingMissed
PROOF
<1>1. IInv => NothingMissed
  BY DEF IInv, Covered, NothingMissed
<1> QED
  BY <1>1, CandidatesInvariance, PTL

=============================================================================
