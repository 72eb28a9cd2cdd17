----------------------------- MODULE JiraMerge -----------------------------
(***************************************************************************)
(* One field of one linked issue, and the Jira sync that merges it: the    *)
(* GET of Jira's copy, the merge against the base both sides were last     *)
(* seen to share (jira/merge.go), the write to Jira with no lock held, the *)
(* GET that follows it, and the second merge under the write lock on the   *)
(* issue as it is by then, whose changes and marker are one commit         *)
(* (jira/issue.go).  A person edits the issue and another one edits it in  *)
(* Jira at any moment.  A GET may lag behind the writes of the last Settle *)
(* but shows no version older than one shown before; an answer may be      *)
(* lost; the run may die between any two steps.                            *)
(*                                                                         *)
(* A value is a set of items, so that one module serves both kinds of      *)
(* field: of a scalar only equality and emptiness (null) are used.  Jira's *)
(* values are a sequence of versions, and Jira's clock is a place in it:   *)
(* a time is the number of versions made by then, and the versions up to   *)
(* `floor` are older than Settle, so that every GET shows them.            *)
(***************************************************************************)
EXTENDS Naturals, Sequences

CONSTANTS
    Item,       \* values are sets of items
    Fields,     \* the fields there are (see Field)
    Origins,    \* how the issue was linked: "import", "request", "create"
    Unknown,    \* unknownBase: the base equal to neither side
    None,
    MaxEdits,   \* bound: edits of the person at the issue
    MaxJira,    \* bound: edits of the person in Jira
    MaxFaults   \* bound: writes with no answer, reads that fail, crashes

Value == SUBSET Item
Empty == {}

\* A field: its values, and whether they are sets; and of a scalar, what Jira makes of a
\* value written to it, which values Jira lets the sync write, and which ones
\* the schema's shape lets anyone commit.
Field == [values : SUBSET Value, multi : BOOLEAN, norm : [Value -> Value], writable : SUBSET Value, shape : SUBSET Value]

ASSUME MergeAssumption ==
    /\ Fields \subseteq Field /\ Origins \subseteq {"import", "request", "create"}
    /\ \A f \in Fields : Empty \in f.values
    /\ \A f \in Fields : \A v \in f.values : f.norm[v] \in f.values
    /\ \A f \in Fields : f.multi => f.values = SUBSET (UNION f.values)
    /\ Unknown # None /\ \A v \in Value : v # Unknown /\ v # None
    /\ MaxEdits \in Nat /\ MaxJira \in Nat /\ MaxFaults \in Nat

VARIABLES
    field,   \* the field, which never changes
    loc,     \* the issue's value
    who,     \* who set it last: "person" or "sync"
    marker,  \* the base in the issue's latest marker
    jira,    \* Jira's versions: [val, by]; the last is the current one
    floor,   \* every GET shows a version at or after this one
    run,     \* the run in progress
    left,    \* what the bounds have left
    noted,   \* the last commit of the sync carries a conflict note
    blind    \* a write landed that no run learnt of, or a GET older than a
             \* write passed for its answer

vars == <<field, loc, who, marker, jira, floor, run, left, noted, blind>>

Base == [has : BOOLEAN, val : {Unknown} \cup field.values, ver : Nat,
         sent : {None} \cup field.values, wrote : Nat, at : Nat, fresh : BOOLEAN]
Idle == [pc |-> "idle"]
Running == [pc : {"write", "reread", "commit"}, b : Base, ver : 1..Len(jira),
            out : {None} \cup field.values, wrote : BOOLEAN, echo : BOOLEAN, young : BOOLEAN]
Now == Len(jira)
Current == jira[Now]

\* What a person may set it to, on either side.
Local(v) == v \in field.values /\ (field.multi \/ v \in field.shape)
Normal(v) == v \in field.values /\ (field.multi \/ field.norm[v] = v)

TypeOK ==
    /\ field \in Fields /\ Local(loc) /\ who \in {"person", "sync"}
    /\ marker \in Base
    /\ jira \in Seq([val : field.values, by : {"jira", "touch", "sync"}])
    /\ floor \in 1..Now
    /\ run = Idle \/ run \in Running
    /\ left \in [edits : 0..MaxEdits, jira : 0..MaxJira, faults : 0..MaxFaults]
    /\ noted \in BOOLEAN /\ blind \in BOOLEAN

-----------------------------------------------------------------------------
(* The rules, which are pure.                                              *)

\* Whether the write of a base is less than Settle ago.  Of one that the floor
\* has just reached it may be either.
Young(b) == IF b.at > floor THEN {TRUE} ELSE IF b.at < floor THEN {FALSE} ELSE BOOLEAN

\* A version older than the write, which passes for its answer: by Jira's clock
\* it is not older, made between the last answer before the write and the write,
\* or in the second of it; or it has the value that was written.
Mistaken(b, ver) == b.sent # None /\ ver < b.at /\ (b.wrote < ver \/ jira[ver].val = b.sent)

\* Mistake: the local value wins a conflict.
DecideLocal(b, l, r) ==
    IF l = r THEN [do |-> "agree", conflict |-> FALSE]
    ELSE IF b.has /\ l = b.val THEN [do |-> "take", conflict |-> FALSE]
    ELSE [do |-> "give", conflict |-> b.has \/ l # Empty]

\* decide: a merge of scalars.  A value taken over one that neither side
\* had before is a conflict.
Decide(b, l, r) ==
    IF l = r THEN [do |-> "agree", conflict |-> FALSE]
    ELSE IF b.has /\ l = b.val THEN [do |-> "take", conflict |-> FALSE]
    ELSE IF b.has /\ r = b.val THEN [do |-> "give", conflict |-> FALSE]
    ELSE [do |-> "take", conflict |-> b.has \/ l # Empty]

\* mergeSet: an item both sides had stays while both keep it, another one
\* while either has it.
MergeSet(b, l, r) ==
    LET bs == IF b.has THEN b.val ELSE Empty
    IN  {i \in bs \cup l \cup r : IF i \in bs THEN i \in l /\ i \in r ELSE i \in l \cup r}

\* fresh: the base of a field that a create did not send is empty when the
\* issue's is, so that Jira's default comes in, and Jira's otherwise.
Freshened(b, l, r, ver) ==
    IF ~b.fresh THEN b
    ELSE IF b.has \/ b.sent # None THEN [b EXCEPT !.fresh = FALSE]
    ELSE [b EXCEPT !.has = TRUE, !.val = IF l = Empty THEN Empty ELSE r, !.ver = ver, !.fresh = FALSE]

\* Mistake: a value that Jira does not show keeps the base it had.
ConfirmKeeping(b, ver, echo, young) ==
    LET held  == jira[ver].val = b.sent
        stale == ver <= b.wrote /\ young
        skip  == b.sent # None /\ ~held /\ stale
    IN  [b |-> IF skip THEN b
               ELSE [b EXCEPT !.sent = None, !.wrote = 0, !.at = 0, !.has = @ \/ (held /\ ~field.multi),
                              !.val = IF held /\ ~field.multi THEN b.sent ELSE @,
                              !.ver = IF held /\ ~field.multi THEN ver ELSE @],
         skip |-> skip]

\* Mistake: a write that is not shown is waited for with no window.
ConfirmWaiting(b, ver, echo, young) ==
    LET held == jira[ver].val = b.sent
        skip == b.sent # None /\ ~held /\ ver <= b.wrote
    IN  [b |-> IF b.sent = None \/ skip THEN b
               ELSE [b EXCEPT !.sent = None, !.wrote = 0, !.at = 0, !.has = @ \/ ~field.multi,
                              !.val = CASE field.multi -> @ [] ~field.multi /\ (held \/ echo) -> b.sent [] OTHER -> Unknown,
                              !.ver = IF field.multi THEN @ ELSE ver],
         skip |-> skip]

\* confirm: a value written and not yet seen, against the version a GET
\* shows.  `young` says that the write is less than Settle old.  Its time is
\* of no more use once it is settled.
Confirm(b, ver, echo, young) ==
    LET landed == ver > b.wrote
        held   == jira[ver].val = b.sent
        stale  == ~landed /\ young
        based  == IF field.multi THEN b
                  ELSE [b EXCEPT !.has = TRUE, !.ver = ver,
                                 !.val = IF held \/ (landed /\ echo) THEN b.sent ELSE Unknown]
    IN  IF b.sent = None THEN [b |-> b, skip |-> FALSE]
        ELSE IF ~held /\ stale THEN [b |-> b, skip |-> TRUE]
        ELSE [b |-> [based EXCEPT !.sent = None, !.wrote = 0, !.at = 0], skip |-> FALSE]

\* settle: the base a merge starts from, and whether it leaves the field be.
Settle(b, l, ver, echo, young) == Confirm(Freshened(b, l, jira[ver].val, ver), ver, echo, young)

\* Mistake: the base moves to what is to be written.
MergeAhead(s, l, ver) ==
    LET b == s.b
        r == jira[ver].val
        d == Decide(b, l, r)
        m == MergeSet(b, l, r)
        agreed(v) == [b EXCEPT !.has = TRUE, !.val = v, !.ver = ver]
    IN  CASE s.skip -> [to |-> l, out |-> None, conflict |-> FALSE, base |-> b]
          [] ~s.skip /\ field.multi -> [to |-> m, out |-> IF m = r THEN None ELSE m, conflict |-> FALSE,
                                        base |-> agreed(m)]
          [] ~s.skip /\ ~field.multi /\ d.do = "give" -> [to |-> l, out |-> l, conflict |-> FALSE, base |-> agreed(l)]
          [] OTHER -> [to |-> r, out |-> None, conflict |-> d.conflict, base |-> agreed(r)]

\* merge: the value the issue takes, the value Jira is to take (None when it
\* is to take none), whether there is a conflict, and the base to record.
Merge(s, l, ver) ==
    LET b == s.b
        r == jira[ver].val
        d == Decide(b, l, r)
        m == MergeSet(b, l, r)
        agreed(v) == [b EXCEPT !.has = TRUE, !.val = v, !.ver = ver]
    IN  CASE s.skip -> [to |-> l, out |-> None, conflict |-> FALSE, base |-> b]
          [] ~s.skip /\ field.multi -> [to |-> m, out |-> IF m = r THEN None ELSE m, conflict |-> FALSE,
                                  base |-> IF m = r THEN agreed(m) ELSE b]
          [] ~s.skip /\ ~field.multi /\ d.do = "give" -> [to |-> l, out |-> l, conflict |-> FALSE, base |-> b]
          [] OTHER -> [to |-> r, out |-> None, conflict |-> d.conflict, base |-> agreed(r)]

\* Mistake: whatever Jira holds is committed.
AdmitAll(p, b, l) == p

\* admit: a value the schema's shape refuses is not committed; the field
\* keeps its base and is tried again.
Admit(p, b, l) ==
    IF field.multi \/ p.to = l \/ p.to \in field.shape THEN p
    ELSE [p EXCEPT !.to = l, !.base = [@ EXCEPT !.has = b.has, !.val = b.val, !.ver = b.ver]]

-----------------------------------------------------------------------------
(* The two persons, and time.                                              *)

Edit(v) ==
    /\ left.edits > 0 /\ v # loc /\ Local(v)
    /\ left' = [left EXCEPT !.edits = @ - 1]
    /\ loc' = v /\ who' = "person"
    /\ UNCHANGED <<field, marker, jira, floor, run, noted, blind>>

\* An edit of another field makes a version too, with the value unchanged.
JiraEdit(v) ==
    /\ left.jira > 0 /\ Normal(v)
    /\ left' = [left EXCEPT !.jira = @ - 1]
    /\ jira' = Append(jira, IF v = Current.val THEN [Current EXCEPT !.by = "touch"]
                             ELSE [val |-> v, by |-> "jira"])
    /\ UNCHANGED <<field, loc, who, marker, floor, run, noted, blind>>

\* Time passes: the versions up to k are older than Settle.
Pass(k) ==
    /\ k \in floor + 1..Now
    /\ floor' = k
    /\ UNCHANGED <<field, loc, who, marker, jira, run, left, noted, blind>>

Fault == left.faults > 0 /\ left' = [left EXCEPT !.faults = @ - 1]

-----------------------------------------------------------------------------
(* A run of the sync.                                                      *)

\* syncLinked and the first half of converge: the GET, the base settled
\* against it, and the first merge, which says what to write to Jira.
Read(ver, young) ==
    /\ run = Idle
    /\ LET s == Settle(marker, loc, ver, FALSE, young)
           p == Merge(s, loc, ver)
       IN  run' = [pc |-> IF p.out = None THEN "commit" ELSE "write", b |-> s.b, ver |-> ver,
                   out |-> p.out, wrote |-> FALSE, echo |-> FALSE, young |-> young]
    /\ floor' = ver
    /\ blind' = (blind \/ Mistaken(marker, ver))
    /\ UNCHANGED <<field, loc, who, marker, jira, left, noted>>

\* What the write makes of Jira's value: a scalar is replaced, items are
\* added and removed.
Written ==
    LET r == jira[run.ver].val
    IN  IF field.multi THEN (Current.val \cup (run.out \ r)) \ (r \ run.out) ELSE field.norm[run.out]

\* Jira makes a version of it unless the value is the one it had.
Land ==
    jira' = IF Written = Current.val THEN jira
            ELSE Append(jira, [val |-> Written, by |-> "sync"])

\* write: Jira accepts it.  The base stays; the value is recorded as sent,
\* with the clock before the write.  The clock is in seconds, so that a
\* version just before may be of the same second (`tie`).
Write(tie) ==
    /\ run.pc = "write" /\ (field.multi \/ run.out \in field.writable)
    /\ Land
    /\ \E t \in run.ver..Now :
         run' = [run EXCEPT !.pc = "reread", !.wrote = TRUE, !.young = TRUE, !.echo = run.b.sent = None,
                            !.b = [@ EXCEPT !.sent = run.out, !.wrote = IF tie THEN t - 1 ELSE t,
                                            !.at = Len(jira')]]
    /\ UNCHANGED <<field, loc, who, marker, floor, left, noted, blind>>

\* Jira refuses it: the field is pending, and nothing is written.
WriteRefused ==
    /\ run.pc = "write" /\ ~field.multi /\ run.out \notin field.writable
    /\ run' = [run EXCEPT !.pc = "commit"]
    /\ UNCHANGED <<field, loc, who, marker, jira, floor, left, noted, blind>>

\* No answer: the run stops, whether or not the write landed.
WriteLost ==
    /\ run.pc = "write" /\ (field.multi \/ run.out \in field.writable) /\ Fault
    /\ Land \/ UNCHANGED jira
    /\ blind' = (blind \/ jira' # jira)
    /\ run' = Idle
    /\ UNCHANGED <<field, loc, who, marker, floor, noted>>

\* The GET after the write, or its failure, after which the commit is made
\* against the version read before.
Reread(ver) ==
    /\ run.pc = "reread"
    /\ run' = [run EXCEPT !.pc = "commit", !.ver = ver]
    /\ floor' = ver
    /\ UNCHANGED <<field, loc, who, marker, jira, left, noted, blind>>

RereadFails ==
    /\ run.pc = "reread" /\ Fault
    /\ run' = [run EXCEPT !.pc = "commit", !.echo = FALSE]
    /\ UNCHANGED <<field, loc, who, marker, jira, floor, noted, blind>>

\* commit: under the lock, the base settled and the merge decided again on
\* the issue as it is, with nothing to be written to Jira any more.  The time
\* is that of Jira's last answer: the GET's, or within Settle of the write.
Commit ==
    /\ run.pc = "commit"
    /\ LET s == Settle(run.b, loc, run.ver, run.echo, run.young)
           p == Admit(Merge(s, loc, run.ver), s.b, loc)
       IN  /\ loc' = p.to
           /\ who' = IF p.to = loc THEN who ELSE "sync"
           /\ marker' = p.base
           /\ noted' = p.conflict
    /\ blind' = (blind \/ Mistaken(run.b, run.ver))
    /\ run' = Idle
    /\ UNCHANGED <<field, jira, floor, left>>

\* The process dies, or the commit fails: what was written is not recorded.
Crash ==
    /\ run # Idle /\ Fault
    /\ blind' = (blind \/ run.wrote)
    /\ run' = Idle
    /\ UNCHANGED <<field, loc, who, marker, jira, floor, noted>>

-----------------------------------------------------------------------------
NoBase == [has |-> FALSE, val |-> Empty, ver |-> 0, sent |-> None, wrote |-> 0, at |-> 0, fresh |-> FALSE]

\* An issue imported; one linked by its alias, with no base yet; and one whose
\* create Jira answered and no GET has shown, its value sent with it or not.
Linked(origin) ==
    \/ /\ origin = "import"
       /\ jira = <<[val |-> loc, by |-> "touch"]>>
       /\ marker = [NoBase EXCEPT !.has = TRUE, !.val = loc, !.ver = 1]
    \/ /\ origin \in {"request", "create"}
       /\ \E v \in Value : /\ Normal(v)
                            /\ jira = <<[val |-> v,
                                         by |-> IF origin = "create" THEN "touch" ELSE "jira"]>>
       /\ marker = [NoBase EXCEPT !.fresh = origin = "create"]
    \/ /\ origin = "create" /\ ~field.multi /\ loc \in field.writable
       /\ jira = <<[val |-> field.norm[loc], by |-> "sync"]>>
       /\ marker = [NoBase EXCEPT !.fresh = TRUE, !.sent = loc, !.at = 1]

Init ==
    /\ field \in Fields
    /\ loc \in {v \in Value : Local(v)}
    /\ \E origin \in Origins : Linked(origin)
    /\ who = "person" /\ floor = 1 /\ run = Idle /\ noted = FALSE /\ blind = FALSE
    /\ left = [edits |-> MaxEdits, jira |-> MaxJira, faults |-> MaxFaults]

Person == \E v \in Value : Edit(v) \/ JiraEdit(v)
Time == \E k \in 1..Now : Pass(k)
Reading == \E ver \in floor..Now : \E young \in Young(marker) : Read(ver, young)
Writing == WriteRefused \/ WriteLost \/ \E tie \in BOOLEAN : Write(tie)
Rereading == RereadFails \/ \E ver \in floor..Now : Reread(ver)
Next == Person \/ Time \/ Reading \/ Writing \/ Rereading \/ Commit \/ Crash

Spec == Init /\ [][Next]_vars

\* The persons need not act and the run need not die.  A run goes on once
\* begun, another one follows it, and time passes: a write does not stay
\* younger than Settle.
FairSpec ==
    /\ Spec
    /\ WF_vars(Time) /\ WF_vars(Reading) /\ WF_vars(Writing) /\ WF_vars(Rereading) /\ WF_vars(Commit)
    /\ SF_vars(\E ver \in floor..Now : FALSE \in Young(marker) /\ Read(ver, FALSE))


-----------------------------------------------------------------------------
(* Properties.                                                             *)

\* I2: "its value is one Jira was seen to hold", or accepted from the sync:
\* a base is never what the sync only meant to write (jira/merge.go, merge).
\* An empty base may be that of a create, which stands for none (fresh).
BaseObserved ==
    marker.has /\ marker.val # Unknown =>
        \/ marker.val = Empty
        \/ \E i \in 1..Now : jira[i].val \in {marker.val, field.norm[marker.val]}

\* The person's value may go without a conflict note when it is the base and
\* someone changed Jira since; when it is what the sync wrote, and Jira made
\* something else of it; and when there was none and Jira has a default.
Justified ==
    \/ \E i \in marker.ver + 1..run.ver : jira[i].by = "jira"
    \/ run.wrote /\ run.out = loc /\ jira[run.ver].val = field.norm[loc]
    \/ ~marker.has /\ loc = Empty
Loses == who = "person" /\ who' = "sync"
Silent == Loses /\ ~noted' /\ ~Justified

\* I2: "no local value, a clear included, is ever reverted silently": in a
\* commit of the sync, whatever it wrote before, however stale its GETs and
\* whatever the person did meanwhile (jira/issue.go, commit; jira/merge.go,
\* decide).  It fails of a set, whose base confirm keeps, after a write that
\* landed and no run learnt of, and when the second GET shows a version older
\* than the write that passes for its answer.
NeverSilent == [][Silent => field.multi \/ blind']_vars
NeverSilentAtAll == [][~Silent]_vars

\* A value that someone set in Jira, and the run has read, is overwritten
\* only if it is the base: never by a write decided against an older one
\* (jira/merge.go, decide; jira/base.go, confirm).
JiraKept ==
    [][Len(jira') > Now /\ jira'[Now + 1].by = "sync" /\ ~field.multi =>
         \A i \in 1..run.ver :
            (jira[i].by = "jira" /\ \A j \in i + 1..run.ver : jira[j].by = "touch") =>
               run.b.has /\ jira[i].val = run.b.val]_vars

\* I1: once both persons rest and Jira answers, the two sides agree, or the
\* value is one that Jira refuses or that the schema does.
Agreed == loc = Current.val
Stuck == ~field.multi /\ (loc \notin field.writable \/ Current.val \notin field.shape)
Converges == <>[](Agreed \/ Stuck)
=============================================================================
