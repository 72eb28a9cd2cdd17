----------------------------- MODULE JiraCreate -----------------------------
(***************************************************************************)
(* How a local issue becomes one of Jira's, and one only                   *)
(* (jira/create.go).  Jira knows no idempotent create, its search lags and *)
(* an answer may be lost, so a run commits its attempt before the POST; an *)
(* attempt without a link is in doubt until a search for the issue's id,   *)
(* which every Jira issue made of it carries, finds one, or the attempt    *)
(* has settled.  Several clones sync with one Jira and exchange what they  *)
(* know through a git remote.  A clone that does not have the local issue  *)
(* may adopt a Jira issue made of it, which makes a second local issue;    *)
(* the one that reached Jira first keeps it (jira/index.go) and the other  *)
(* is archived (jira/candidates.go).                                       *)
(*                                                                         *)
(* There is one local issue, Self, and every Jira issue is made of it.     *)
(***************************************************************************)
EXTENDS Naturals, Sequences, FiniteSets, FiniteSetsExt

CONSTANTS
    Clone,      \* numbers
    Home,       \* the clone that Self is written in; the others have to pull it
    Lag,        \* Jira's search shows an issue at most this long after it is made
    Delay,      \* a POST lands at most this long after its attempt
    Drag,       \* from the created search of a run to the issue's turn, at most
    Overlap,    \* the created search goes back this far before the attempt
    Settle,     \* an attempt this old, that the search does not show, is repeated
    MaxTime,    \* bound: Jira's clock
    MaxPlace,   \* bound: the places of links in the order of operations
    MaxFaults   \* bound: lost answers, refusals, failures and crashes

ASSUME CreateAssumption ==
    /\ Clone \subseteq Nat \ {0} /\ Home \in Clone
    /\ Lag \in Nat /\ Delay \in Nat /\ Drag \in Nat /\ Overlap \in Nat
    /\ Settle \in Nat /\ Delay + Lag + Drag < Settle
    /\ MaxTime \in Nat \ {0} /\ MaxPlace \in Nat /\ MaxFaults \in Nat

VARIABLES
    now,     \* Jira's clock, in seconds
    jira,    \* the issues made in Jira; an id is a place in it
    shown,   \* those that the search shows
    flight,  \* POSTs whose run has gone, that may still land
    store,   \* what each clone and the remote have
    disk,    \* each clone's state file
    run,     \* each clone's run
    left     \* what the bounds have left

vars == <<now, jira, shown, flight, store, disk, run, left>>

Remote == 0
JiraId == 1..Len(jira)

\* An attempt, the operation with jira-create; and its POST, with what its run
\* knew: the attempts, and whether Jira had refused the latest.
Try == [at : Nat, by : Clone]
Post == [try : Try, knew : SUBSET Try, refused : BOOLEAN]

\* Local issues: Self, and the copies that clones have adopted, with the
\* `updated` of Jira's issue in their first marker.
Self == [by |-> 0, jira |-> 0, at |-> 0]
Copy == [by : Clone, jira : JiraId, at : Nat]

\* What a repository has: Self, its attempts, the Jira issue it is linked to
\* (a link is set once: of several the first in the order of operations
\* counts) and the place of that link in the order, the first `updated` of its
\* markers, the copies, and which local issues are archived.  0 is none.
Store == [has : BOOLEAN, tries : SUBSET Try, link : {0} \cup JiraId, place : 0..MaxPlace,
          met : Nat, copies : SUBSET Copy, archived : SUBSET (Copy \cup {Self})]

\* The state file: the attempt that Jira refused, with those there were then.
State == [at : Nat, tries : SUBSET Try]
NoRefusal == [at |-> 0, tries |-> {}]

Idle == [pc |-> "idle"]
Running == [pc : {"losers", "hits", "post", "made"}, refused : State,
            self : {"absent", "unlinked", "linked"}, ix : SUBSET [jira : JiraId, is : Copy \cup {Self}],
            losers : SUBSET (Copy \cup {Self}), hits : SUBSET JiraId,
            sought : Nat, found : {0} \cup JiraId, post : SUBSET Post]

TypeOK ==
    /\ now \in 1..MaxTime /\ shown \subseteq JiraId /\ flight \subseteq Post
    /\ jira \in Seq([at : Nat, post : Post])
    /\ store \in [Clone \cup {Remote} -> Store]
    /\ disk \in [Clone -> State] /\ run \in [Clone -> {Idle} \cup Running]
    /\ left \in 0..MaxFaults

-----------------------------------------------------------------------------
(* Links, and who keeps a Jira issue.                                      *)

Paired(s, j) == {x \in s.copies : x.jira = j} \cup (IF s.link = j THEN {Self} ELSE {})

\* Mistake: the last contact with Jira.
ContactLast(s, x) ==
    IF x # Self THEN [at |-> x.at, export |-> FALSE]
    ELSE [at |-> Max({s.met} \cup {t.at : t \in s.tries}), export |-> s.tries # {}]

\* firstSync: an issue's first contact with Jira.
Contact(s, x) ==
    IF x # Self THEN [at |-> x.at, export |-> FALSE]
    ELSE LET tried == {t.at : t \in s.tries}
                 all == tried \cup ({s.met} \ {0})
         IN  IF all = {} THEN [at |-> 0, export |-> FALSE]
             ELSE [at |-> Min(all), export |-> Min(all) \in tried]

\* firstToSync: the earlier contact; an export before an import; the lower id,
\* which is taken to be the copy's.
Before(s, x, y) ==
    LET a == Contact(s, x)  b == Contact(s, y)
    IN  IF a.at # b.at THEN b.at = 0 \/ (a.at # 0 /\ a.at < b.at)
        ELSE IF a.export # b.export THEN a.export
        ELSE y = Self \/ (x # Self /\ x.by < y.by)

\* NewIndex.
Winner(s, j) == CHOOSE x \in Paired(s, j) : \A y \in Paired(s, j) \ {x} : Before(s, x, y)
Index(s) == {[jira |-> j, is |-> Winner(s, j)] : j \in {k \in JiraId : Paired(s, k) # {}}}

\* Mistake: a copy that does not win is left alone.
LosersSelf(s) == {Self} \cap (UNION {Paired(s, j) \ {Winner(s, j)} : j \in {k \in JiraId : Paired(s, k) # {}}})

\* scan: what is to be consolidated.
Losers(s) == {x \in UNION {Paired(s, j) \ {Winner(s, j)} : j \in {k \in JiraId : Paired(s, k) # {}}} : x \notin s.archived}

-----------------------------------------------------------------------------
(* Jira, and the exchange through the remote.                              *)

Make(p) == jira' = Append(jira, [at |-> now, post |-> p])

\* The index catches up with what was made.
Show(j) ==
    /\ j \in JiraId \ shown
    /\ shown' = shown \cup {j}
    /\ UNCHANGED <<now, jira, flight, store, disk, run, left>>

\* A POST without an answer lands, or does not.
Land(p) ==
    /\ p \in flight
    /\ Make(p) /\ flight' = flight \ {p}
    /\ UNCHANGED <<now, shown, store, disk, run, left>>

Vanish(p) ==
    /\ p \in flight
    /\ flight' = flight \ {p}
    /\ UNCHANGED <<now, jira, shown, store, disk, run, left>>

\* What a run is about to have answered.
Posted(c) == IF run[c].pc = "post" THEN run[c].post ELSE {}

Tick ==
    /\ now < MaxTime
    /\ \A j \in JiraId \ shown : now < jira[j].at + Lag
    /\ \A p \in flight \cup UNION {Posted(c) : c \in Clone} : now < p.try.at + Delay
    /\ \A c \in Clone : run[c].pc = "hits" /\ run[c].sought > 0 => now < run[c].sought + Drag
    /\ now' = now + 1
    /\ UNCHANGED <<jira, shown, flight, store, disk, run, left>>

\* The lesser of two that are not 0.
First(m, n) == IF m = 0 \/ n = 0 THEN m + n ELSE Min({m, n})

\* Of two links written apart, the first in the order of operations counts, in
\* which their histories' clocks and hashes put them.
Precedes(s, t) == s.link # 0 /\ (t.link = 0 \/ s.place < t.place)
Merged(s, t) ==
    LET first == IF Precedes(s, t) THEN s ELSE t
    IN  [has |-> s.has \/ t.has, tries |-> s.tries \cup t.tries,
         link |-> first.link, place |-> first.place, met |-> First(s.met, t.met),
         copies |-> s.copies \cup t.copies, archived |-> s.archived \cup t.archived]

\* A pull or a push, at any time in a run.
Exchange(from, to) ==
    /\ UNCHANGED <<now, jira, shown, flight, disk, run, left>>
    /\ LET merged == Merged(store[from], store[to])
       IN  merged # store[to] /\ store' = [store EXCEPT ![to] = merged]
Push(c) == Exchange(c, Remote)
Pull(c) == Exchange(Remote, c)

-----------------------------------------------------------------------------
(* A run: the losers, the hits of the search.                              *)

Fault == left > 0 /\ left' = left - 1
To(c, r) == run' = [run EXCEPT ![c] = r]

\* The end of a run: State.Save, unless the process dies first.
End(c, refused) ==
    /\ To(c, Idle)
    /\ \/ disk' = [disk EXCEPT ![c] = refused] /\ UNCHANGED left
       \/ UNCHANGED disk /\ Fault

\* setup and scan.
Scanned(c) ==
    LET s == store[c]
    IN  [pc |-> "losers", refused |-> disk[c], ix |-> Index(s), losers |-> Losers(s),
         self |-> IF ~s.has THEN "absent" ELSE IF s.link = 0 THEN "unlinked" ELSE "linked",
         hits |-> {}, sought |-> 0, found |-> 0, post |-> {}]

\* The hits of a search that a run has something to do for: not those known,
\* nor a second one, nor any when Self is linked.
ToHandle(r, found) ==
    {j \in found : /\ \A e \in r.ix : e.jira # j
                   /\ r.self = "absent" \/ (r.self = "unlinked" /\ j = Min(found))}

\* What is left of a run: it ends when neither a hit nor Self has a turn.
Going(r) == r.losers # {} \/ r.hits # {} \/ r.self = "unlinked"
Proceed(c, r) == IF Going(r) THEN To(c, r) /\ UNCHANGED <<disk, left>> ELSE End(c, r.refused)

\* The search finds some of what Jira shows: which, is for JiraCandidates.  A
\* run for Self alone has no search.
Searched(r) == {[r EXCEPT !.pc = "hits", !.hits = ToHandle(r, found)] : found \in SUBSET shown}

\* A run that has something to do.
Begin(c) ==
    /\ run[c] = Idle
    /\ UNCHANGED <<now, jira, shown, flight, store, disk, left>>
    /\ LET r == Scanned(c)
       IN  \E next \in IF r.losers # {} THEN {r} ELSE Searched(r) : Going(next) /\ To(c, next)

\* consolidate, to its end or not.
Consolidate(c) ==
    /\ run[c].pc = "losers"
    /\ \E x \in run[c].losers :
         /\ To(c, [run[c] EXCEPT !.losers = @ \ {x}])
         /\ \/ store' = [store EXCEPT ![c].archived = @ \cup {x}] /\ UNCHANGED left
            \/ Fault /\ UNCHANGED store
    /\ UNCHANGED <<now, jira, shown, flight, disk>>

Search(c) ==
    /\ run[c].pc = "losers" /\ run[c].losers = {}
    /\ \E r \in Searched(run[c]) : Proceed(c, r)
    /\ UNCHANGED <<now, jira, shown, flight, store>>

Hit(c, j) == run[c].pc = "hits" /\ j \in run[c].hits
Handled(c, j) == [run[c] EXCEPT !.hits = @ \ {j}]

\* importIssue, under --adopt.  The first marker has the `updated` that Jira's
\* issue has by then: that of its creation, the earliest, is the worst case.
Adopt(c, j) ==
    /\ Hit(c, j) /\ run[c].self = "absent"
    /\ LET x == [by |-> c, jira |-> j, at |-> jira[j].at]
       IN  /\ store' = [store EXCEPT ![c].copies = @ \cup {x}]
           /\ Proceed(c, [Handled(c, j) EXCEPT !.ix = @ \cup {[jira |-> j, is |-> x]}])
    /\ UNCHANGED <<now, jira, shown, flight>>

\* orphan, without --adopt; or the import fails.
Orphan(c, j) ==
    /\ Hit(c, j) /\ run[c].self = "absent"
    /\ Proceed(c, Handled(c, j))
    /\ UNCHANGED <<now, jira, shown, flight, store>>

\* The commit of a link, with a marker; the worst case of its `updated` is the
\* latest.  A link comes anywhere among those to other issues.
Places(j) ==
    LET others == {r \in DOMAIN store : store[r].link \notin {0, j}}
    IN  IF others = {} THEN {MaxPlace \div 2} ELSE 0..MaxPlace \ {store[r].place : r \in others}
CommitLink(c, j) ==
    \E place \in Places(j) :
      store' = [store EXCEPT ![c].link = IF @ = 0 THEN j ELSE @,
                             ![c].place = IF store[c].link = 0 THEN place ELSE @,
                             ![c].met = First(@, now)]

\* linkCreated, of a hit; Self has then had its turn.
LinkHit(c, j) ==
    /\ Hit(c, j) /\ run[c].self = "unlinked"
    /\ CommitLink(c, j)
    /\ End(c, run[c].refused)
    /\ UNCHANGED <<now, jira, shown, flight>>

-----------------------------------------------------------------------------
(* A run: Self's turn (create).                                            *)

Latest(tries) == Max({0} \cup {t.at : t \in tries})

\* inDoubt: the latest attempt, unless Jira refused it.
InDoubt(tries, refused) == Latest(tries) \notin {0, refused.at}

\* Of a refused create, that nothing was done to Self since.
Unchanged(c) ==
    run[c].refused # NoRefusal /\ run[c].refused.tries = store[c].tries

Turn(c) == run[c].pc = "hits" /\ run[c].hits = {} /\ run[c].self = "unlinked"
Free(c) == Turn(c) /\ Self \notin store[c].archived
Doubts(c) == InDoubt(store[c].tries, run[c].refused)

\* Archived issues are not exported, nor those refused and unchanged: what a
\* person does to the issue is not modelled, so that it may have changed.
TurnSkipped(c) ==
    /\ Turn(c) /\ (Self \in store[c].archived \/ Unchanged(c))
    /\ End(c, run[c].refused)
    /\ UNCHANGED <<now, jira, shown, flight, store>>

SeenSince(since) == {j \in shown : jira[j].at + Overlap >= since}

\* findCreated, one search in a run: it may be made for another issue.
CreatedSearch(c) ==
    /\ Turn(c) /\ run[c].sought = 0
    /\ LET seen == SeenSince(Latest(store[c].tries))
       IN  To(c, [run[c] EXCEPT !.sought = now, !.found = IF seen = {} THEN 0 ELSE Min(seen)])
    /\ UNCHANGED <<now, jira, shown, flight, store, disk, left>>

\* In doubt, and not found.
Missing(c) == run[c].sought > 0 /\ run[c].found = 0

Wait(c) ==
    /\ Free(c) /\ Doubts(c) /\ Missing(c) /\ now < Latest(store[c].tries) + Settle
    /\ End(c, run[c].refused)
    /\ UNCHANGED <<now, jira, shown, flight, store>>

\* The other local issue that the run knows Jira's issue by, if there is one.
Others(c) == {e.is : e \in {d \in run[c].ix : d.jira = run[c].found}} \ {Self}

Found(c) == Free(c) /\ Doubts(c) /\ run[c].found > 0

\* linkCreated: the Jira issue is another's, who reached it first.
FoundKept(c) ==
    /\ Found(c) /\ \E x \in Others(c) : Before(store[c], x, Self)
    /\ End(c, run[c].refused)
    /\ UNCHANGED <<now, jira, shown, flight, store>>

\* linkCreated: another's copy is consolidated first.
FoundTaken(c) ==
    /\ Found(c)
    /\ \E x \in Others(c) :
         /\ Before(store[c], Self, x)
         /\ store' = [store EXCEPT ![c].archived = @ \cup {x}]
         /\ To(c, [run[c] EXCEPT !.ix = @ \ {[jira |-> x.jira, is |-> x]}])
    /\ UNCHANGED <<now, jira, shown, flight, disk, left>>

\* linkCreated, its last part.
LinkFound(c) ==
    /\ Found(c) /\ Others(c) = {}
    /\ CommitLink(c, run[c].found)
    /\ End(c, run[c].refused)
    /\ UNCHANGED <<now, jira, shown, flight>>

\* Mistake: what is in doubt is not waited for.
ReadyAtOnce(c) == ~Doubts(c) \/ Missing(c)

\* Nothing is in doubt, or what was has settled.
Ready(c) == ~Doubts(c) \/ (Missing(c) /\ now >= Latest(store[c].tries) + Settle)

\* The rest of create: the attempt is committed, and a refusal forgotten.  The
\* commit reads nothing again.  Two attempts of a clone fall in different
\* seconds.
Attempt(c) ==
    /\ Free(c) /\ Ready(c)
    /\ \A t \in store[c].tries : t.by = c => t.at < now
    /\ LET p == [try |-> [at |-> now, by |-> c], knew |-> store[c].tries,
                 refused |-> store[c].tries # {} /\ ~Doubts(c)]
       IN  /\ store' = [store EXCEPT ![c].tries = @ \cup {p.try}]
           /\ To(c, [run[c] EXCEPT !.pc = "post", !.refused = NoRefusal, !.post = {p}])
    /\ UNCHANGED <<now, jira, shown, flight, disk, left>>

PostMade(c) ==
    /\ \E p \in Posted(c) : Make(p)
    /\ To(c, [run[c] EXCEPT !.pc = "made", !.found = Len(jira) + 1])
    /\ UNCHANGED <<now, shown, flight, store, disk, left>>

\* Whether the state file is saved is a choice, since refusals are faults.
PostRefused(c) ==
    /\ Fault /\ To(c, Idle)
    /\ \E p \in Posted(c) : \E r \in {disk[c], [at |-> p.try.at, tries |-> store[c].tries]} :
         disk' = [disk EXCEPT ![c] = r]
    /\ UNCHANGED <<now, jira, shown, flight, store>>

\* Mistake: a POST whose answer is lost is taken to be refused.
PostLostRefused(c) ==
    /\ Fault /\ To(c, Idle)
    /\ \E p \in Posted(c) :
         /\ flight' = flight \cup {p}
         /\ disk' = [disk EXCEPT ![c] = [at |-> p.try.at, tries |-> store[c].tries]]
    /\ UNCHANGED <<now, jira, shown, store>>

\* The answer is lost, which ends the run, or the process dies.
PostLost(c) ==
    /\ Fault /\ To(c, Idle)
    /\ \E p \in Posted(c) : flight' = flight \cup {p}
    /\ \E r \in {disk[c], run[c].refused} : disk' = [disk EXCEPT ![c] = r]
    /\ UNCHANGED <<now, jira, shown, store>>

\* The link is committed, with the GET or without.
Link(c) ==
    /\ run[c].pc = "made"
    /\ CommitLink(c, run[c].found)
    /\ End(c, run[c].refused)
    /\ UNCHANGED <<now, jira, shown, flight>>

\* A request or a commit fails, which leaves the run nothing to do, or ends
\* it; or the process dies.
Stop(c) ==
    /\ run[c] # Idle /\ run[c].pc # "post" /\ Fault
    /\ To(c, Idle)
    /\ \E r \in {disk[c], run[c].refused} : disk' = [disk EXCEPT ![c] = r]
    /\ UNCHANGED <<now, jira, shown, flight, store>>

\* The state file is lost, which is no fault of its own: a refusal was one.
Lose(c) ==
    /\ run[c] = Idle /\ disk[c] # NoRefusal
    /\ disk' = [disk EXCEPT ![c] = NoRefusal]
    /\ UNCHANGED <<now, jira, shown, flight, store, run, left>>

-----------------------------------------------------------------------------
Init ==
    /\ now = 1 /\ jira = <<>> /\ shown = {} /\ flight = {}
    /\ store = [r \in Clone \cup {Remote} |-> [has |-> r = Home, tries |-> {}, link |-> 0, place |-> 0, met |-> 0, copies |-> {}, archived |-> {}]]
    /\ disk = [c \in Clone |-> NoRefusal]
    /\ run = [c \in Clone |-> Idle]
    /\ left = MaxFaults

RunStep(c) ==
    \/ Begin(c) \/ Consolidate(c) \/ Search(c)
    \/ \E j \in JiraId : Adopt(c, j) \/ Orphan(c, j) \/ LinkHit(c, j)
    \/ TurnSkipped(c) \/ CreatedSearch(c) \/ Wait(c)
    \/ FoundKept(c) \/ FoundTaken(c) \/ LinkFound(c)
    \/ Attempt(c)
    \/ PostMade(c) \/ PostRefused(c) \/ PostLost(c)
    \/ Link(c)

Showing == \E j \in JiraId : Show(j)

Next ==
    \/ Tick
    \/ Showing
    \/ \E p \in flight : Land(p) \/ Vanish(p)
    \/ \E c \in Clone : \/ Push(c) \/ Pull(c)
                        \/ RunStep(c)
                        \/ Stop(c) \/ Lose(c)

Spec == Init /\ [][Next]_vars

\* Jira's search catches up; every clone keeps syncing, with Jira and with the
\* remote.
FairSpec ==
    /\ Spec
    /\ WF_vars(Showing)
    /\ \A c \in Clone : WF_vars(RunStep(c)) /\ WF_vars(Push(c)) /\ WF_vars(Pull(c))

-----------------------------------------------------------------------------
(* Properties.                                                             *)

Known(p, q) == p.try \in q.knew

\* A later attempt of another clone, or a refused one, has taken its place as
\* the one that is looked for.
Hidden(p, q) ==
    \/ q.refused /\ p.try.by # q.try.by
    \/ \E t \in q.knew : t.by # p.try.by /\ t.at > p.try.at

\* No Jira issue is made by a run that knew of the attempt which made another,
\* unless a later one hid it (jira/create.go, create: "losing the state never
\* duplicates, and a clone that pulled the attempt sees it").
CreatedOnce ==
    \A i, j \in JiraId : Known(jira[i].post, jira[j].post) => Hidden(jira[i].post, jira[j].post)

\* The same, hidden or not.
CreatedOnceAtAll == \A i, j \in JiraId : ~Known(jira[i].post, jira[j].post)

\* Not everything that stands for a Jira issue is archived (jira/index.go,
\* firstToSync: "every clone holding both agrees").
OneKept ==
    \A r \in Clone \cup {Remote}, j \in JiraId :
        Paired(store[r], j) # {} => \E x \in Paired(store[r], j) \cup {Self} : x \notin store[r].archived

\* Once Jira has an issue made of Self, which it keeps, each clone links Self in
\* the end, and has no other copy of what it is linked to (jira/candidates.go,
\* consolidate).
Settled(s) ==
    s.link # 0 /\ \A x \in Paired(s, s.link) : x \in s.archived <=> x # Winner(s, s.link)
LinkedOnce == []<>(jira # <<>> => \A c \in Clone : Settled(store[c]))

=============================================================================
