--------------------------- MODULE JiraCreateInv ---------------------------
(***************************************************************************)
(* The inductive invariant of JiraCreate: why no run that knows of an      *)
(* attempt makes a second Jira issue, unless a later attempt hides it.     *)
(***************************************************************************)
EXTENDS JiraCreate

\* The POSTs of which Jira has made an issue or may still: not one that it
\* refused, nor one that is known to have been lost on the way.
JiraMade == {jira[j].post : j \in JiraId}
Pending == flight \cup UNION {Posted(c) : c \in Clone}
Live == JiraMade \cup Pending

\* An attempt is of the past, and of a clone that has it in its own history;
\* a POST comes of an attempt that is committed, and of those known by then.
TryInv ==
    /\ \A r \in Clone \cup {Remote} : \A t \in store[r].tries : t \in store[t.by].tries /\ 0 < t.at /\ t.at <= now
    /\ \A p \in Live : p.try \in store[p.try.by].tries /\ p.knew \subseteq store[p.try.by].tries

\* A clone has one POST at a time, the only one of its attempt; once it is
\* answered, the run has the issue that Jira made.
PostInv ==
    \A c \in Clone :
        /\ run[c].pc = "post" => \E p \in run[c].post : run[c].post = {p}
        /\ run[c].pc = "made" => run[c].found # 0
        /\ \A p \in Posted(c) : p.try.by = c /\ \A q \in JiraMade \cup flight : q.try # p.try

\* A POST lands within Delay, and the search shows its issue within Lag.
TimeInv ==
    /\ \A p \in Pending : p.try.at <= now /\ now <= p.try.at + Delay
    /\ \A j \in JiraId : /\ jira[j].post.try.at <= jira[j].at /\ jira[j].at <= now
                         /\ jira[j].at <= jira[j].post.try.at + Delay
                         /\ j \notin shown => now <= jira[j].at + Lag

\* What a run or the state file takes for refused is an attempt of the clone's
\* own, of which Jira has made nothing and will make nothing.
Refused(c, r) ==
    r.at # 0 => /\ [at |-> r.at, by |-> c] \in store[c].tries
                /\ \A p \in Live : p.try # [at |-> r.at, by |-> c]
RefusedInv ==
    \A c \in Clone : Refused(c, disk[c]) /\ (run[c] # Idle => Refused(c, run[c].refused))

\* A created search that found nothing is fresh, and what it did not find is
\* older than the latest attempt, or not yet shown by then.
Fresh(c) == run[c].sought <= now /\ now <= run[c].sought + Drag
NotFound(c) ==
    \A j \in JiraId :
        \/ jira[j].at + Overlap < Latest(store[c].tries)
        \/ run[c].sought <= jira[j].at + Lag
SearchInv ==
    \A c \in Clone :
        /\ run[c].pc = "losers" => run[c].sought = 0
        /\ run[c].pc = "hits" /\ run[c].sought > 0 => Fresh(c) /\ (run[c].found = 0 => NotFound(c))

\* Whoever knows of a later attempt by the clone of a live POST knows of one by
\* another clone in between, or later still: the one that hid it.
Overtaken(r, p) == \E u \in store[r].tries : u.by # p.try.by /\ u.at > p.try.at
LaterInv ==
    \A r \in Clone \cup {Remote}, p \in Live : \A t \in store[r].tries :
        t.by = p.try.by /\ t.at > p.try.at => Overtaken(r, p)

\* CreatedOnce, of the POSTs that may still land too.
OnceInv == \A p, q \in Live : Known(p, q) => Hidden(p, q)

\* The invariant of the proofs: what a run that repeats an attempt, or takes
\* one to be refused, may conclude (jira/create.go, create, inDoubt,
\* findCreated).
CreateInvariant ==
    /\ TypeOK
    /\ TryInv /\ PostInv /\ TimeInv /\ RefusedInv /\ SearchInv /\ LaterInv /\ OnceInv

-----------------------------------------------------------------------------
(* Why Self is never archived, as long as there is but one other clone.    *)

TwoClones == \A c, d \in Clone \ {Home} : c = d

\* Self reached Jira before a copy did, as far as a repository knows: an
\* attempt is as old, or a marker older.
Early(s, x) ==
    (\E t \in s.tries : t.at <= x.at) \/ (s.met # 0 /\ s.met < x.at)

\* A clone that does not have Self, or has a run that began without it.
Absent(c) == ~store[c].has \/ (run[c] # Idle /\ run[c].self = "absent")

\* A clone without Self has not attempted to create it, and one that has Self
\* keeps it.
AbsentInv ==
    /\ ~Absent(Home)
    /\ \A c \in Clone : Absent(c) => \A t \in store[c].tries : t.by # c
    /\ \A c \in Clone : run[c] # Idle /\ run[c].self # "absent" => store[c].has

\* Copies are made of what the home has created, by the other clone.
CopyInv ==
    \A r \in Clone \cup {Remote} : \A x \in store[r].copies :
        /\ x \in store[x.by].copies /\ x.by # Home
        /\ x.at = jira[x.jira].at /\ jira[x.jira].post.try.by = Home

\* A run that knows of Self knows its clone's copies by their Jira issues, which
\* its hits are not, or knows that Self was first.
Indexed(c) ==
    /\ Self \notin run[c].losers
    /\ \A j \in run[c].hits, e \in run[c].ix : e.jira # j
    /\ run[c].self # "absent" => \A x \in store[c].copies : x.by = c =>
          [jira |-> x.jira, is |-> x] \in run[c].ix \/ Early(store[c], x)
    /\ run[c].pc = "made" => jira[run[c].found].post.try \in store[c].tries
IndexInv == \A c \in Clone : run[c] # Idle => Indexed(c)

\* Who links Self to what the home created knows of the attempt, unless no
\* copy will be made of it any more; and Self was there before the copies.
LinkInv ==
    \A r \in Clone \cup {Remote} : store[r].link # 0 =>
        /\ \/ jira[store[r].link].post.try \in store[r].tries
           \/ \A c \in Clone : ~Absent(c)
        /\ \A q \in Clone \cup {Remote} : \A x \in store[q].copies :
              x.jira = store[r].link => Early(store[r], x)

\* OneKept, in the way it holds: Self stays.
SelfInv == \A r \in Clone \cup {Remote} : Self \notin store[r].archived

\* The invariant of the proof that one is kept (jira/index.go, firstToSync;
\* jira/create.go, linkCreated; jira/candidates.go, consolidate).
SelfStays == AbsentInv /\ CopyInv /\ IndexInv /\ LinkInv /\ SelfInv
KeptInvariant == CreateInvariant /\ (TwoClones => SelfStays)

=============================================================================
