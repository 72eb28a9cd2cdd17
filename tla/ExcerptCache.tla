---------------------------- MODULE ExcerptCache ----------------------------
(***************************************************************************)
(* The cache of each process: what is shown of an issue (its excerpt), the *)
(* ref hash recorded beside it, and the cached instance (cache/subcache.go).*)
(*                                                                         *)
(* One issue.  Its commits come from the writers of module Store, under    *)
(* the write lock, each on top of the tip: a hash is the commit's number,  *)
(* 0 the ref that does not exist.  What an entity, an excerpt or a page of *)
(* the file holds is told by the commit it was read at and by whether it   *)
(* shows operations that are staged and not committed; of an excerpt, a    *)
(* history field tells whether it was recorded without the write lock.     *)
(*                                                                         *)
(* How the cache file is replaced is module CacheFile's: here a process    *)
(* that opens its cache finds any page that some process has written, or   *)
(* no readable one.                                                        *)
(***************************************************************************)
EXTENDS Integers, FiniteSets

CONSTANTS
  Proc,
  Thread,      \* goroutines that use their process's cache
  Watcher,     \* those that run watchLoop
  Inst,        \* instances (*IssueCache)
  ProcOf,      \* the process of a thread, of an instance
  Kinds,       \* the calls that are made
  MaxCommits,  \* bound: commits to the issue
  MaxFaults,   \* bound: crashes and failed writes of the file
  None

ASSUME ExcerptCacheAssumption ==
  /\ ProcOf \in [Thread \cup Inst -> Proc]
  /\ Watcher \subseteq Thread
  /\ Kinds \subseteq {"update", "stage", "new", "remove", "merge"}
  /\ MaxCommits \in Nat \ {0} /\ MaxFaults \in Nat
  /\ None \notin Thread \cup Inst \cup [at : 0..MaxCommits, staged : BOOLEAN, loose : BOOLEAN]

Callers(p) == {t \in Thread \ Watcher : ProcOf[t] = p}

\* The program makes instances without limit: some process always has callers,
\* and an instance that neither they nor its cache have.
ASSUME InstancesAssumption ==
  \A p \in Proc :
    /\ Callers(p) # {}
    /\ \A used \in [Callers(p) -> Inst \cup {None}] :
         \E x \in Inst : ProcOf[x] = p /\ \A t \in Callers(p) : used[t] # x

VARIABLES
  commits,  \* commits made so far
  tip,      \* refs/work-issues/<id>
  lock,     \* holder of the write lock
  open,     \* the processes whose cache is ready
  excerpt,  \* SubCache.excerpts: what a process shows
  noted,    \* SubCache.refs: the hash recorded beside it, 0 for none
  cached,   \* SubCache.cached
  inst,     \* the entity inside an instance
  pc, call, \* where a thread stands, in which call
  cur,      \* the instance it holds
  listed,   \* the hash that refreshFromRefs or Build listed
  told,     \* history: the last commit a process was told it made
  pages,    \* the pages of cache/<namespace> written so far
  faults

refVars == <<commits, tip>>
cacheVars == <<excerpt, noted, cached>>
vars == <<refVars, lock, open, cacheVars, inst, pc, call, cur, listed, pages, told, faults>>

Content == [at : 0..MaxCommits, staged : BOOLEAN]
Excerpt == [at : 0..MaxCommits, staged : BOOLEAN, loose : BOOLEAN]
Page == [excerpt : Excerpt \cup {None}, noted : 0..MaxCommits]
Read(h) == [at |-> h, staged |-> FALSE]
Shown(x, unlocked) == [at |-> x.at, staged |-> x.staged, loose |-> unlocked]
FromRef(h) == Shown(Read(h), FALSE)
Of(p) == {t \in Thread : ProcOf[t] = p}

\* The subcache's mutex is free: nobody is between listing and reading.
MuFree(p) == \A t \in Of(p) : pc[t] # "listed"

\* The instances that the threads of a process hold.
Held(threads) == {cur[t] : t \in threads} \ {None}

\* Instances that nobody holds and no cache lists: garbage, and the next ones.
Unused(p) == {x \in Inst : ProcOf[x] = p} \ ({cached[p]} \cup Held(Of(p)))
Fresh(p) == CHOOSE x \in Unused(p) : TRUE

\* What remains of the instances of a process when only these are referenced.
Swept(p, used) ==
  [x \in Inst |-> IF ProcOf[x] = p /\ x \notin used THEN Read(0) ELSE inst[x]]

Init ==
  /\ commits = 0 /\ tip = 0
  /\ lock = None
  /\ open = {}
  /\ excerpt = [p \in Proc |-> None]
  /\ noted = [p \in Proc |-> 0]
  /\ cached = [p \in Proc |-> None]
  /\ inst = [x \in Inst |-> Read(0)]
  /\ pc = [t \in Thread |-> "idle"]
  /\ call = [t \in Thread |-> "none"]
  /\ cur = [t \in Thread |-> None]
  /\ listed = [t \in Thread |-> 0]
  /\ pages = {}
  /\ told = [p \in Proc |-> 0]
  /\ faults = 0

----------------------------------------------------------------------------
\* A thread goes on to another point of its call.
Goto(t, where) ==
  /\ pc' = [pc EXCEPT ![t] = where]
  /\ UNCHANGED <<call, cur>>

\* It starts a call.
Enter(t, kind, where) ==
  /\ pc' = [pc EXCEPT ![t] = where]
  /\ call' = [call EXCEPT ![t] = kind]
  /\ UNCHANGED cur

\* Its call returns, the deferred unlock included; the caller keeps its pointer.
Leave(t) ==
  /\ pc' = [pc EXCEPT ![t] = IF cur[t] = None THEN "idle" ELSE "holding"]
  /\ call' = [call EXCEPT ![t] = "none"]
  /\ lock' = IF lock = t THEN None ELSE lock
  /\ UNCHANGED cur

----------------------------------------------------------------------------
\* What write encodes of a process.
PageOf(p) == [excerpt |-> excerpt[p], noted |-> noted[p]]

\* Opening the cache: Load, and Build when Load fails.

StartBuild(t) ==
  LET p == ProcOf[t] IN
  /\ excerpt' = [excerpt EXCEPT ![p] = None]
  /\ noted' = [noted EXCEPT ![p] = tip]
  /\ listed' = [listed EXCEPT ![t] = tip]
  /\ Enter(t, "build", "listed")
  /\ UNCHANGED cached

\* The file is read and the refs are listed, one pass over them.
Load(t) ==
  LET p == ProcOf[t] IN
  /\ p \notin open
  /\ \A s \in Of(p) : pc[s] = "idle"
  /\ \/ StartBuild(t)
     \/ \E page \in pages :
          /\ excerpt' = [excerpt EXCEPT ![p] = page.excerpt]
          /\ noted' = [noted EXCEPT ![p] = page.noted]
          /\ listed' = [listed EXCEPT ![t] = tip]
          /\ Enter(t, "load", "listed")
          /\ UNCHANGED cached
  /\ UNCHANGED <<refVars, lock, open, inst, pages, told, faults>>

\* Build reads every entity there is, which may be more or less than it listed,
\* and keeps the instances.
BuildRead(t) ==
  LET p == ProcOf[t] IN
  /\ pc[t] = "listed"
  /\ call[t] = "build"
  /\ \/ /\ tip # 0
        /\ inst' = [inst EXCEPT ![Fresh(p)] = Read(tip)]
        /\ cached' = [cached EXCEPT ![p] = Fresh(p)]
        /\ excerpt' = [excerpt EXCEPT ![p] = FromRef(tip)]
     \/ tip = 0 /\ UNCHANGED <<inst, cached, excerpt>>
  /\ listed' = [listed EXCEPT ![t] = 0]
  /\ Goto(t, "write")
  /\ UNCHANGED <<refVars, lock, open, noted, pages, told, faults>>

\* What it listed is removed before it is read: no cache.
BuildFails(t) ==
  /\ pc[t] = "listed"
  /\ call[t] = "build"
  /\ listed[t] # 0 /\ tip = 0
  /\ listed' = [listed EXCEPT ![t] = 0]
  /\ Leave(t)
  /\ UNCHANGED <<refVars, open, cacheVars, inst, pages, told, faults>>

----------------------------------------------------------------------------
\* refreshFromRefs, in Load and in Refresh: list, then read what differs.

\* Refresh, on an event or on the poll.
RefreshList(t) ==
  LET p == ProcOf[t] IN
  /\ t \in Watcher
  /\ p \in open
  /\ pc[t] = "idle"
  /\ MuFree(p)
  /\ listed' = [listed EXCEPT ![t] = tip]
  /\ Enter(t, "refresh", "listed")
  /\ UNCHANGED <<refVars, lock, open, cacheVars, inst, pages, told, faults>>

\* Nothing moved: nothing is written.
RefreshNothing(t) ==
  LET p == ProcOf[t] IN
  /\ pc[t] = "listed"
  /\ call[t] \in {"load", "refresh"}
  /\ IF listed[t] = 0 THEN excerpt[p] = None ELSE listed[t] = noted[p]
  /\ open' = open \cup {p}
  /\ listed' = [listed EXCEPT ![t] = 0]
  /\ Leave(t)
  /\ UNCHANGED <<refVars, cacheVars, inst, pages, told, faults>>

\* Mistake: the refs are listed after the entities are read.
RefreshReadEarly(t) ==
  LET p == ProcOf[t] IN
  /\ pc[t] = "listed"
  /\ call[t] \in {"load", "refresh"}
  /\ listed[t] \notin {0, noted[p]}
  /\ tip # 0
  /\ excerpt' = [excerpt EXCEPT ![p] = FromRef(listed[t])]
  /\ noted' = [noted EXCEPT ![p] = tip]
  /\ cached' = [cached EXCEPT ![p] = None]
  /\ inst' = Swept(p, Held(Of(p)))
  /\ listed' = [listed EXCEPT ![t] = 0]
  /\ Goto(t, "write")
  /\ UNCHANGED <<refVars, lock, open, pages, told, faults>>

\* The issue changed: it is read as it is now, and the listed hash recorded.
RefreshRead(t) ==
  LET p == ProcOf[t] IN
  /\ pc[t] = "listed"
  /\ call[t] \in {"load", "refresh"}
  /\ listed[t] \notin {0, noted[p]}
  /\ tip # 0
  /\ excerpt' = [excerpt EXCEPT ![p] = FromRef(tip)]
  /\ noted' = [noted EXCEPT ![p] = listed[t]]
  /\ cached' = [cached EXCEPT ![p] = None]
  /\ inst' = Swept(p, Held(Of(p)))
  /\ listed' = [listed EXCEPT ![t] = 0]
  /\ Goto(t, "write")
  /\ UNCHANGED <<refVars, lock, open, pages, told, faults>>

\* It was removed since: the read is an error. The next tick tries again; a
\* Load that fails is a Build.
RefreshReadFails(t) ==
  /\ pc[t] = "listed"
  /\ listed[t] \notin {0, noted[ProcOf[t]]}
  /\ tip = 0
  /\ \/ /\ call[t] = "refresh"
        /\ listed' = [listed EXCEPT ![t] = 0]
        /\ Leave(t)
        /\ UNCHANGED cacheVars
     \/ /\ call[t] = "load"
        /\ StartBuild(t)
        /\ UNCHANGED lock
  /\ UNCHANGED <<refVars, open, inst, pages, told, faults>>

\* Mistake: what is gone is not looked for, only what is there.
RefreshForgetNot(t) ==
  /\ pc[t] = "listed"
  /\ call[t] \in {"load", "refresh"}
  /\ listed[t] = 0
  /\ excerpt[ProcOf[t]] # None
  /\ open' = open \cup {ProcOf[t]}
  /\ Leave(t)
  /\ UNCHANGED <<refVars, cacheVars, inst, listed, pages, told, faults>>

\* It is not listed: all that is known of it is forgotten.
RefreshForget(t) ==
  LET p == ProcOf[t] IN
  /\ pc[t] = "listed"
  /\ call[t] \in {"load", "refresh"}
  /\ listed[t] = 0
  /\ excerpt[p] # None
  /\ excerpt' = [excerpt EXCEPT ![p] = None]
  /\ noted' = [noted EXCEPT ![p] = 0]
  /\ cached' = [cached EXCEPT ![p] = None]
  /\ inst' = Swept(p, Held(Of(p)))
  /\ Goto(t, "write")
  /\ UNCHANGED <<refVars, lock, open, listed, pages, told, faults>>

----------------------------------------------------------------------------
\* Resolve.

Caller(t) == t \notin Watcher /\ ProcOf[t] \in open

ResolveHit(t) ==
  LET p == ProcOf[t] IN
  /\ Caller(t)
  /\ pc[t] = "idle"
  /\ MuFree(p)
  /\ cached[p] # None
  /\ pc' = [pc EXCEPT ![t] = "holding"]
  /\ cur' = [cur EXCEPT ![t] = cached[p]]
  /\ UNCHANGED <<refVars, lock, open, cacheVars, inst, call, listed, pages, told, faults>>

\* A miss reads the entity with no lock held,
ResolveMiss(t) ==
  LET p == ProcOf[t] IN
  /\ Caller(t)
  /\ pc[t] = "idle"
  /\ MuFree(p)
  /\ cached[p] = None
  /\ tip # 0
  /\ inst' = [inst EXCEPT ![Fresh(p)] = Read(tip)]
  /\ pc' = [pc EXCEPT ![t] = "resolving"]
  /\ cur' = [cur EXCEPT ![t] = Fresh(p)]
  /\ UNCHANGED <<refVars, lock, open, cacheVars, call, listed, pages, told, faults>>

\* and puts the instance into the cache, whatever is there by then.
PutCached(t) ==
  LET p == ProcOf[t] IN
  /\ pc[t] = "resolving"
  /\ MuFree(p)
  /\ cached' = [cached EXCEPT ![p] = cur[t]]
  /\ Goto(t, "holding")
  /\ UNCHANGED <<refVars, lock, open, excerpt, noted, inst, listed, pages, told, faults>>

Release(t) ==
  LET p == ProcOf[t] IN
  /\ pc[t] = "holding"
  /\ pc' = [pc EXCEPT ![t] = "idle"]
  /\ cur' = [cur EXCEPT ![t] = None]
  /\ inst' = Swept(p, {cached[p]} \cup Held(Of(p) \ {t}))
  /\ UNCHANGED <<refVars, lock, open, cacheVars, call, listed, pages, told, faults>>

----------------------------------------------------------------------------
\* The calls that write the issue.

\* CommitOperations appends in memory and has the excerpt updated, before it
\* queues for the write lock.
Stage(t) ==
  /\ pc[t] = "holding"
  /\ "stage" \in Kinds
  /\ commits < MaxCommits
  /\ inst' = [inst EXCEPT ![cur[t]].staged = TRUE]
  /\ Enter(t, "stage", "notify")
  /\ UNCHANGED <<refVars, lock, open, cacheVars, listed, pages, told, faults>>

\* Update and Remove of a resolved issue, New and MergeAll of none.
Ask(t, kind) ==
  /\ Caller(t)
  /\ kind \in Kinds \ {"stage"}
  /\ pc[t] = IF kind \in {"update", "remove"} THEN "holding" ELSE "idle"
  /\ kind = "new" => commits = 0
  /\ kind \in {"update", "merge"} => commits < MaxCommits
  /\ Enter(t, kind, "waiting")
  /\ UNCHANGED <<refVars, lock, open, cacheVars, inst, listed, pages, told, faults>>

TakeLock(t) ==
  /\ pc[t] = "waiting"
  /\ lock = None
  /\ lock' = t
  /\ Goto(t, "locked")
  /\ UNCHANGED <<refVars, open, cacheVars, inst, listed, pages, told, faults>>

LockTimeout(t) ==
  /\ pc[t] = "waiting"
  /\ lock # None
  /\ Leave(t)
  /\ UNCHANGED <<refVars, open, cacheVars, inst, listed, pages, told, faults>>

\* The issue is read again, and what is staged or decided committed.
Commit(t) ==
  /\ pc[t] = "locked"
  /\ call[t] \in {"update", "stage"}
  /\ tip # 0
  /\ call[t] = "stage" => inst[cur[t]].staged
  /\ commits < MaxCommits
  /\ commits' = commits + 1
  /\ tip' = commits'
  /\ inst' = [inst EXCEPT ![cur[t]] = Read(tip')]
  /\ Goto(t, "notify")
  /\ UNCHANGED <<lock, open, cacheVars, listed, pages, told, faults>>

\* An error, before the issue is read again or after; or nothing to commit.
CommitNot(t) ==
  /\ pc[t] = "locked"
  /\ \/ UNCHANGED inst
     \/ /\ call[t] \in {"update", "stage"}
        /\ tip # 0
        /\ inst' = [inst EXCEPT ![cur[t]].at = tip]
  /\ Leave(t)
  /\ UNCHANGED <<refVars, open, cacheVars, listed, pages, told, faults>>

\* newRaw lets the write lock go before it adds the entity to the cache.
CommitNew(t) ==
  LET x == Fresh(ProcOf[t]) IN
  /\ pc[t] = "locked"
  /\ call[t] = "new"
  /\ commits = 0
  /\ commits' = 1
  /\ tip' = 1
  /\ inst' = [inst EXCEPT ![x] = Read(1)]
  /\ lock' = None
  /\ pc' = [pc EXCEPT ![t] = "adding"]
  /\ cur' = [cur EXCEPT ![t] = x]
  /\ UNCHANGED <<open, cacheVars, call, listed, pages, told, faults>>

Add(t) ==
  LET p == ProcOf[t] IN
  /\ pc[t] = "adding"
  /\ MuFree(p)
  /\ \/ /\ cached[p] = None
        /\ cached' = [cached EXCEPT ![p] = cur[t]]
        /\ Goto(t, "notify")
        /\ UNCHANGED inst
     \/ /\ cached[p] # None
        /\ pc' = [pc EXCEPT ![t] = "idle"]
        /\ call' = [call EXCEPT ![t] = "none"]
        /\ cur' = [cur EXCEPT ![t] = None]
        /\ inst' = Swept(p, {cached[p]} \cup Held(Of(p) \ {t}))
        /\ UNCHANGED cached
  /\ UNCHANGED <<refVars, lock, open, excerpt, noted, listed, pages, told, faults>>

\* Remove: the ref and the cache under one hold of both locks.
RemoveRef(t) ==
  LET p == ProcOf[t] IN
  /\ pc[t] = "locked"
  /\ call[t] = "remove"
  /\ MuFree(p)
  /\ tip' = 0
  /\ excerpt' = [excerpt EXCEPT ![p] = None]
  /\ noted' = [noted EXCEPT ![p] = 0]
  /\ cached' = [cached EXCEPT ![p] = None]
  /\ inst' = Swept(p, Held(Of(p)))
  /\ Goto(t, "write")
  /\ UNCHANGED <<commits, lock, open, listed, pages, told, faults>>

\* MergeAll moves the ref to what another clone pushed, or joins both,
MergeRef(t) ==
  /\ pc[t] = "locked"
  /\ call[t] = "merge"
  /\ commits < MaxCommits
  /\ commits' = commits + 1
  /\ tip' = commits'
  /\ Goto(t, "merged")
  /\ UNCHANGED <<lock, open, cacheVars, inst, listed, pages, told, faults>>

\* or finds nothing to do: the cache is written as it is.
MergeNothing(t) ==
  /\ pc[t] = "locked"
  /\ call[t] = "merge"
  /\ MuFree(ProcOf[t])
  /\ pages' = pages \cup {PageOf(ProcOf[t])}
  /\ Leave(t)
  /\ UNCHANGED <<refVars, open, cacheVars, inst, listed, told, faults>>

\* Mistake: the entity the merge returns, read before it, is taken for the issue.
MergeTrusted(t) ==
  LET p == ProcOf[t] IN
  /\ pc[t] = "merged"
  /\ MuFree(p)
  /\ inst' = [Swept(p, Held(Of(p))) EXCEPT ![Fresh(p)] = Read(tip - 1)]
  /\ excerpt' = [excerpt EXCEPT ![p] = FromRef(tip - 1)]
  /\ noted' = [noted EXCEPT ![p] = tip]
  /\ cached' = [cached EXCEPT ![p] = Fresh(p)]
  /\ Goto(t, "write")
  /\ UNCHANGED <<refVars, lock, open, listed, pages, told, faults>>

\* After a move the issue is read back into a new instance.
MergeReadBack(t) ==
  LET p == ProcOf[t] IN
  /\ pc[t] = "merged"
  /\ MuFree(p)
  /\ inst' = [Swept(p, Held(Of(p))) EXCEPT ![Fresh(p)] = Read(tip)]
  /\ excerpt' = [excerpt EXCEPT ![p] = FromRef(tip)]
  /\ noted' = [noted EXCEPT ![p] = tip]
  /\ cached' = [cached EXCEPT ![p] = Fresh(p)]
  /\ Goto(t, "write")
  /\ UNCHANGED <<refVars, lock, open, listed, pages, told, faults>>

----------------------------------------------------------------------------
\* entityUpdated, then updateExcerpt: the excerpt of the instance the cache
\* lists, which need not be the one that was written, and the ref as it is now.
\* CommitOperations and New are outside the write lock here.
UpdateExcerpt(t) ==
  LET p == ProcOf[t] IN
  /\ pc[t] = "notify"
  /\ MuFree(p)
  /\ cached[p] # None
  /\ excerpt' = [excerpt EXCEPT ![p] = Shown(inst[cached[p]], lock # t)]
  /\ noted' = [noted EXCEPT ![p] = tip]
  /\ Goto(t, "write")
  /\ UNCHANGED <<refVars, lock, open, cached, inst, listed, pages, told, faults>>

\* "entity missing from cache": the call fails, its commit done or not.
UpdateExcerptFails(t) ==
  /\ pc[t] = "notify"
  /\ MuFree(ProcOf[t])
  /\ cached[ProcOf[t]] = None
  /\ Leave(t)
  /\ UNCHANGED <<refVars, open, cacheVars, inst, listed, pages, told, faults>>

----------------------------------------------------------------------------
\* write: the maps are encoded and the file replaced, under the read lock.
\* CommitOperations goes on to commit.
Write(t) ==
  LET p == ProcOf[t] IN
  /\ pc[t] = "write"
  /\ MuFree(p)
  /\ pages' = pages \cup {PageOf(p)}
  /\ \/ /\ call[t] = "stage"
        /\ lock # t
        /\ Goto(t, "waiting")
        /\ UNCHANGED <<lock, open, told>>
     \/ /\ ~(call[t] = "stage" /\ lock # t)
        /\ open' = open \cup {p}
        /\ told' = [told EXCEPT ![p] = IF lock = t THEN tip ELSE @]
        /\ Leave(t)
  /\ UNCHANGED <<refVars, cacheVars, inst, listed, faults>>

\* The replacement fails, and the call with it, though another writer may have
\* put the page in place (CacheFile). A Load that fails is a Build, a Build that
\* fails is no cache.
WriteFails(t) ==
  /\ pc[t] = "write"
  /\ faults < MaxFaults
  /\ \/ /\ call[t] = "load"
        /\ StartBuild(t)
        /\ UNCHANGED lock
     \/ /\ call[t] # "load"
        /\ Leave(t)
        /\ UNCHANGED <<cacheVars, listed>>
  /\ faults' = faults + 1
  /\ pages' = pages \cup {PageOf(ProcOf[t])}
  /\ UNCHANGED <<refVars, open, inst, told>>

----------------------------------------------------------------------------
\* A process ends at any point, its memory gone, its lock released. The files
\* stay as they are, and the next one opens its cache from them.
Crash(p) ==
  LET mine(f, none) == [t \in Thread |-> IF t \in Of(p) THEN none ELSE f[t]] IN
  /\ p \in open \/ \E t \in Of(p) : pc[t] # "idle"
  /\ faults < MaxFaults
  /\ faults' = faults + 1
  /\ lock' = IF lock \in Of(p) THEN None ELSE lock
  /\ open' = open \ {p}
  /\ excerpt' = [excerpt EXCEPT ![p] = None]
  /\ noted' = [noted EXCEPT ![p] = 0]
  /\ cached' = [cached EXCEPT ![p] = None]
  /\ inst' = [x \in Inst |-> IF ProcOf[x] = p THEN Read(0) ELSE inst[x]]
  /\ pc' = mine(pc, "idle")
  /\ call' = mine(call, "none")
  /\ cur' = mine(cur, None)
  /\ listed' = mine(listed, 0)
  /\ told' = [told EXCEPT ![p] = 0]
  /\ pages' = pages \cup {PageOf(p) : t \in {s \in Of(p) : pc[s] = "write"}}
  /\ UNCHANGED refVars

----------------------------------------------------------------------------
\* What a thread does to get to the end of a call.
Step(t) ==
  \/ BuildRead(t) \/ BuildFails(t)
  \/ RefreshNothing(t) \/ RefreshRead(t) \/ RefreshReadFails(t) \/ RefreshForget(t)
  \/ PutCached(t)
  \/ TakeLock(t) \/ LockTimeout(t) \/ Commit(t) \/ CommitNot(t)
  \/ CommitNew(t) \/ Add(t) \/ RemoveRef(t) \/ MergeRef(t) \/ MergeNothing(t)
  \/ MergeReadBack(t)
  \/ UpdateExcerpt(t) \/ UpdateExcerptFails(t)
  \/ Write(t) \/ WriteFails(t)

Next ==
  \/ \E t \in Thread :
       \/ Step(t) \/ Load(t) \/ RefreshList(t)
       \/ ResolveHit(t) \/ ResolveMiss(t)
       \/ Release(t) \/ Stage(t) \/ \E kind \in Kinds : Ask(t, kind)
  \/ \E p \in Proc : Crash(p)

Spec == Init /\ [][Next]_vars

\* Calls go on once made, and the poll of watchLoop comes round. Nobody has to
\* open a cache or to make a call.
FairSpec ==
  /\ Spec
  /\ \A t \in Thread : WF_vars(Step(t))
  /\ \A t \in Watcher : SF_vars(RefreshList(t))

----------------------------------------------------------------------------
TypeOK ==
  /\ commits \in 0..MaxCommits /\ tip \in 0..commits
  /\ lock \in Thread \cup {None}
  /\ open \subseteq Proc
  /\ excerpt \in [Proc -> Excerpt \cup {None}]
  /\ noted \in [Proc -> 0..commits]
  /\ cached \in [Proc -> Inst \cup {None}]
  /\ inst \in [Inst -> Content]
  /\ listed \in [Thread -> 0..commits]
  /\ cur \in [Thread -> Inst \cup {None}]
  /\ told \in [Proc -> 0..commits]
  /\ pages \subseteq Page
  /\ pc \in [Thread -> {"idle", "listed", "resolving", "holding", "notify", "waiting",
                        "locked", "adding", "merged", "write"}]
  /\ call \in [Thread -> Kinds \cup {"none", "load", "build", "refresh"}]

\* An excerpt whose recorded hash is the ref's shows the issue as it is: that
\* hash is what refreshFromRefs goes by, so an excerpt that breaks this is
\* never read again.
Shows(e) == e # None /\ e.at = tip /\ ~e.staged
Current(e, h) == h = tip /\ tip # 0 => Shows(e)

\* "It is what makes the cache verifiable instead of merely trusted", in every
\* process and in whatever file the next one opens, of all that is recorded
\* under the write lock or by a refresh.
Loose(e) == e # None /\ e.loose
Trusted(e, h) == Loose(e) \/ Current(e, h)
Verified ==
  /\ \A p \in open : Trusted(excerpt[p], noted[p])
  /\ \A page \in pages : Trusted(page.excerpt, page.noted)

\* The same with no exception, once nobody is in a call and nothing is staged
\* any more: what the processes show by then is what they will go on showing.
AtRest == (\A t \in Thread : pc[t] = "idle") /\ (\A x \in Inst : ~inst[x].staged)
VerifiedAtRest == AtRest => \A p \in open : Current(excerpt[p], noted[p])

\* What a process shows never goes back to an earlier state of the issue, but by
\* what it records without the write lock.
NeverBack ==
  [][\A p \in open \cap open' :
       excerpt[p] # None /\ excerpt'[p] # None =>
         excerpt[p].at <= excerpt'[p].at \/ excerpt'[p].loose]_vars

\* A process reads its own writes: after a call that succeeded, nothing the
\* process shows is older than the commit that call made.
ReadYourWrites ==
  \A p \in open : excerpt[p] # None => excerpt[p].at >= told[p]

\* Once writers pause, every process with a watcher shows the issue as it is,
\* or that it is gone, unless it shows what was recorded without the write lock.
CatchesUp ==
  \A t \in Watcher :
    LET p == ProcOf[t] IN
    <>[](p \in open =>
           Loose(excerpt[p]) \/ IF tip = 0 THEN excerpt[p] = None ELSE Shows(excerpt[p]))

\* And so do the instances it hands out ("without a poll, a missed event means
\* a view that never updates again").
ViewsCatchUp ==
  \A t \in Watcher : <>[](LET x == cached[ProcOf[t]] IN
                            x # None => inst[x].at = tip)
=============================================================================
