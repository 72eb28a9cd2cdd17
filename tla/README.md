# git-work: a TLA+ development

git-work keeps a project's issues inside its git repository. An issue is a chain
of commits under `refs/work-issues/<id>`; each commit holds a *pack* of
operations; reading the issue means reading the packs in an order every clone
agrees on and applying the operations. No daemon owns the repository: a command,
the terminal interface, a web handler and a Jira sync may all write it, from
several processes and several threads. This directory holds the TLA+ modules that
model that system, the TLC configurations that check them on small instances,
and the TLAPS proofs that hold for every instance. Paths below are relative to
`src/`.

## 1. Inventory

### 1.1 Components

| component | state | operations | what makes it correct |
|---|---|---|---|
| **Concurrent store** (`cache/lock.go`, `cache/cached.go`, `cache/issue_cache.go`, `cache/issue_subcache.go`) | the refs; the write lock `.git/git-work/write.lock`; per process the cached instances, each with a mutex and the list of operations staged on it | Resolve, CommitOperations, AddComment..., Commit, CommitAsNeeded, Update, New, Remove | refs only fast-forward though `UpdateRef` compares nothing; a decision is committed to the tip it was taken on; nothing staged is lost or committed twice; an acknowledged write is durable; the lock is always released |
| **Entity commit and read** (`entity/dag/entity.go`, `operation_pack.go`) | `lastCommit`, `staging`; commits, packs | Append, Commit, CommitAsNeeded, readAt, parentsFirst, order of compilation | whole calls are readable or none of it; every history can be read; an operation is compiled after what its author saw |
| **Entity merge and sync** (`entity/dag/entity_actions.go`, `gitcli/remote.go`, `cache/repo_cache_common.go`) | local, tracking and remote refs | Fetch, Push, Pull, MergeAll and its five scenarios, Remove | nothing is forgotten; clones converge; pulls and pushes do not refuse each other for ever |
| **Lamport clocks** (`util/lamport`, `repository/gogit.go`) | a counter in memory in each process, a file they share | Increment, Witness, load at first use | times follow the history |
| **Excerpt cache** (`cache/subcache.go`, `cache/issue_excerpt.go`) | per process: excerpts, the ref hash noted for each, cached instances, LRU; the cache file shared by all | Load, Build, Refresh, Resolve, entityUpdated, write, evict | an excerpt marked as built from a ref shows that ref; the file is always a coherent one |
| **Watcher, observers** (`cache/watcher.go`, `cache/subcache.go`) | debounced events; registered observers | watch the refs, refresh, notify | every change made elsewhere is shown in the end |
| **Repository cache** (`cache/repo_cache.go`, `cache/multi_repo_cache.go`) | open repositories, the subcaches | open, close, build | wiring only |
| **Identities** (`entities/identity`, `cache/identity_cache.go`, and their writers in `jira/engine.go`, `jira/issue.go`) | versions of a person, linear; a ref for each; per process those it has read | Commit (with no second read), MergeAll (fast-forward or refused), the Jira sync's tags and new identities | no version is lost; an identity is not split; what one clone makes reaches the others |
| **Jira: engine** (`jira/engine.go`, `create.go`, `candidates.go`, `issue.go`) | per issue the pairing metadata and the merge base; per run the cursor, failed hits, seen keys | candidates, converge, commit, settle, create, findCreated, Gone | one issue per Jira issue and conversely; an edit on either side is never overwritten unseen; every failed hit is retried |
| **Jira: merge** (`jira/merge.go`, `fields.go`) | base, ours, theirs | three-way merge of scalars, sets, comments | symmetric, idempotent, loses no edit |
| **Jira: mapping, REST client** | none of their own | conversion, HTTP | data conversion |
| **Schema, config entities** (`schema`, `entities/config`) | declared keys, types, defaults | load, check, import and reconcile, pick among duplicates | clones that read the same entities derive one schema |
| **Rank** (`entities/issue/rank*.go`) | fractional ranks | between two neighbours | strictly between |
| **Migration** (`migrate`) | old refs | rewrite once | idempotent |
| **Flows, query, views, commands, terminal and host interfaces** | none that is shared | call the cache | as writers they are callers of the store |
| **Inherited from git-bug**: bridges, bug entity, utilities | | | not part of git-work's own core |

PROJECT.json lists the same parts with their sources and what is modelled of
each.

### 1.2 How they interact

A caller *resolves* an issue in its process's cache: an excerpt in memory, an
instance on a miss. It *stages* operations on the instance under the instance's
mutex. *Commit* takes the write lock (flock, up to five seconds), reads the
entity again from git, replays the staged operations onto that read, writes the
packs, moves the ref, then lets the lock go. *Update* takes the write lock, reads
the entity again, hands a snapshot to the caller's function, appends what that
function decided and commits it. Readers take no lock. A *pull* fetches into
tracking refs and merges under the write lock; a *push* sends the local refs; and
other clones do the same at any time. A *Jira sync* reads candidates from Jira,
merges each against its base, writes to Jira with no lock held, and commits what
it learned through Update.

### 1.3 What is hard

- **Two instances of one issue.** Resolve lets go of the subcache's mutex to read
  (`cache/subcache.go:484`): two threads that miss together each make one.
- **UpdateRef compares nothing** (`entity/dag/entity.go:552`): whether a commit
  is a fast-forward rests on the lock and on the read made inside it.
- **The mutex is let go between deciding and committing** (`Update`,
  `cache/issue_cache.go:310`).
- **Commit consumes its staging area before it has written** (`entity/dag/entity.go:509`).
- **Each process has its own clock** and overwrites the shared file unread.
- **One call may take several packs**, one per author.
- **Instances outlive their issue**, and staged operations outlive failed commits.
- **Merges list hashes first and move refs later**, unconditionally.
- **Answers to pushes and to POSTs are lost**; processes die anywhere.

The hazards of PROJECT.json give each its line and the properties aimed at it. A
hazard with no property says so and is on the plan.

## 2. What is modelled

### 2.1 `Store`: the concurrent store

One repository; processes `Proc`, threads `Worker`, instances `Inst`, and issues.
A *batch* is the list of operations of one call; each is staged at most once.
A commit hash determines its history, and the history written by one store is
linear, so a hash is modelled as the *set of packs it reaches*: `{}` is the ref
that does not exist, `\subseteq` is "is an ancestor of", and a pack is a set of
operations with its edit time.

| variable | code |
|---|---|
| `ref` | `refs/work-issues/<id>` |
| `removed` | history variable: issues removed here |
| `lock` | holder of the flock of `cache/lock.go` |
| `file`, `mem` | `clocks/<name>` on disk, and the `PersistedClock` of each process (0: not loaded) |
| `live` | instances in a `SubCache.cached` map, or still held by a caller |
| `mu` | holder of `CachedEntityBase.mu` |
| `base`, `pending` | `dag.Entity.lastCommit`, `dag.Entity.staging` |
| `staged` | `withSnapshot.staged`, the wrapper's own list |
| `pc`, `call`, `cur`, `mine` | where a thread stands, in what call, on what instance, with which of its own batches unanswered |
| `home`, `reply` | history variables: the issue of a batch; what its writer was last told |

The actions follow the code's critical sections. Outside the lock: `ResolveHit`,
`ResolveMiss`, `Release`, `Stage`, `CommitNotNeeded`, `Call`, `New`. At the lock:
`TakeLock`, `LockTimeout`. Inside: `Rebase` (the read again and the replay of
`rebaseStaged`), `NothingToCommit`, `ReloadFails`, `ReadForUpdate`,
`PlanDeclined`, `AppendPlan`, then `WritePack` for each pack, `UpdateRef`, and
`RemoveIssue`. Each write may fail (`WritePackFails`, `UpdateRefFails`). The way
out: `Return`, and `UnlockNew` followed by `Add` for a new issue. `Crash` may
strike between any two steps: the kernel frees the lock, memory is gone, the
clock starts again from the file.

Choices worth knowing:

- Two threads of a process may hold one instance, or one each of the same issue.
  `ResolveHit` allows any live instance of the process, one that eviction has
  dropped from the map included: a superset of what callers can get hold of.
- `Crash` loses unsaved batches; `reply` becomes "lost", which exempts them from
  the properties on staged batches and from nothing else.
- The checks of the schema inside `AppendPlan` and the caller's function are a
  choice between an append and `PlanDeclined`.
- The create clock of `New` works like the edit clock and is left out.
- An issue's id is that of its first operation, so no two calls build the same
  issue: `New` takes an issue for which no batch was ever built.

### 2.2 `OpLog`: what the store promises

The abstract specification: each issue is a set of operations that grows by whole
batches in one visible step; what a writer was told is saved is there; an issue
removed stays gone. `Store!ImplementsLog` is `OpLog!Spec` under the mapping
`log[i] <- operations the ref reaches`, `gone <- removed`,
`told <- batches acknowledged`. Every other step of the store is a stutter.

### 2.3 `Clones` and `Gossip`: synchronisation

One issue in several clones and a remote. `commits` is the object store (a commit
never changes, and a fetch brings what is missing); per clone `local`,
`tracking`, the edit `clock`, and the hashes MergeAll `listed`. A commit's hash tells its
history, and so a commit carries the set of commits it reaches (`past`). Inside a clone a
write is a single step, because `Store` shows that it appears as one. Actions: `Write`,
`Elsewhere`, `Fetch`, `Push` (with the tracking ref written or the answer lost),
`MergeList`, and `MergeOne`, which is `MergeInvalid` (the remote's history cannot be
read: reported, not merged) or one of `MergeNew`, `MergeNothing`, `MergeForward`,
`MergeJoin`, the scenarios of `entity/dag/entity_actions.go`, and `MergeError` (a join
without a user identity, or with a local history that cannot be read).

All issues of a clone share one edit clock. `Elsewhere` is an edit of another issue,
or the read of one after a fetch: it moves the clock and leaves this issue alone. An
issue edited after a great many of these gets a pack that *jumps*: its edit time is more than
`MaxJump` ahead of its parent's (`entity/dag/entity.go:192`, 1,000,000 there; a merge
commit may). The write is not checked, every read of that history is refused.

The reader is modelled as the code computes it: `BFSOrder` is the walk of
readAt and `WalkTurn` one turn of its loop, `ParentsFirst` is Kahn's algorithm over
that walk and `SortTurn` one turn of it; `ReadOrder` is the order in which the commits
are then checked, `Accepts` the checks that make readAt fail or panic (`Accepted`, of such an order), and
`CompiledBefore` the order of compilation (edit time, then pack id), a total one.
The pack ids are hashes; the runs take them in the order opposite to that of
writing, the unfavourable one.

`Gossip` is what it promises: every replica knows a set of operations that grows
by what it writes and by what others know. `Clones!NothingForgotten` is
`Gossip!Spec` under `known[r] <- the operations reachable from r's ref`.

### 2.4 `ExcerptCache`: what each process shows

One issue, several processes. The store below is reduced to its shape: commits
numbered in order, `tip` the number the ref stands at (0: no ref), and the write
lock; that a commit goes on top of the tip is what `Store` shows. What an
entity, an excerpt or a page of the cache file holds is told by two things: the
commit it was read `at`, and whether it shows `staged` operations. Of an excerpt a
history field also says whether it was recorded without the write lock (`loose`): by
`New` and `CommitOperations`, which notify before they queue for the lock or after they
have let it go.

| variable | code |
|---|---|
| `excerpt`, `noted`, `cached` | `SubCache.excerpts`, `.refs`, `.cached` of each process |
| `inst` | the entity inside an instance (`*IssueCache`) |
| `listed` | the hash that `currentRefs` returned to a thread that has not read yet |
| `pages` | every page some process has written to `cache/<namespace>`: an opening process finds any of them, or none that can be read |
| `open` | processes whose cache is loaded or built |
| `told` | history: the last commit a successful call of a process made |

Actions: `Load` (with `StartBuild`, `BuildRead`, `BuildFails` when there is no
file); refreshFromRefs as `RefreshList` and then one of `RefreshNothing`, `RefreshRead`,
`RefreshReadFails`, `RefreshForget`; `ResolveHit`, and `ResolveMiss` followed by
`PutCached`; `Stage` (CommitOperations up to its notification); `Ask`,
`TakeLock`, `LockTimeout` and what is done under the lock: `Commit`,
`CommitNot`, `CommitNew` and `Add`, `RemoveRef`, `MergeRef` and `MergeReadBack`
or `MergeNothing`; then `UpdateExcerpt` or `UpdateExcerptFails`, and `Write` or
`WriteFails`. The subcache's mutex is a guard, `MuFree`: listing and reading are
the only two steps made under one hold of it, every other hold is one action.
A ref may move between the listing and the read of one refresh, since other
processes do not know of that mutex.

An instance that nobody holds and no cache lists is reset (`Swept`) and used
again; the number of instances of a process is the number that can be referenced
at once, one by its caller and one by the cache.

### 2.5 `CacheFile`: how the file is replaced

The three system calls of `SubCache.write`: the sibling `<namespace>.new` is
created (or truncated under whoever is filling it), filled through the
descriptor, renamed; and the fallback when the rename fails. Inodes are kept
apart from names, because a writer fills the inode it opened whatever its name
is by then. `CacheFileProofs` shows that the file survives crashes as long as no
two writers are at it at a time. `ExcerptCache` assumes nothing of this module: it lets an opening
process find any page or no file.

### 2.6 `JiraMerge`: one field of a linked issue

A field, a text or a required choice or a set of entries, of one issue linked to
Jira, while persons edit both sides and the sync runs.

| variable | code |
|---|---|
| `field` | the field: its values, whether it is a set, what Jira makes of a value (`norm`), which it lets the sync write, which the schema lets anyone commit |
| `loc`, `who` | the value in the issue's snapshot; history: who set it last |
| `marker` | the merge base in the issue's latest marker (`Base`): value, the value sent and when, what is fresh from a create |
| `jira` | Jira's versions of the field; the last is the present one. Jira's clock is a place in this sequence |
| `floor` | the newest version that every GET shows: a GET never goes back, and one `Settle` after a write shows it |
| `run` | a run's converge of this issue between two of its steps |
| `noted`, `blind` | history: whether the last commit carries a conflict note; whether a write landed that no run learnt of, or a GET older than a write passed for its answer (`Mistaken`) |

`Decide` is `merge.go`'s table of base, local and remote; `MergeSet` that of a
set; `Confirm` what a read says of earlier writes (`fresh`, landed, echo, the
settling time); `Merge` the whole of merge and what it leaves in the base.
Actions: a person's `Edit` and `JiraEdit`, `Pass` (time); `Read` (a GET and the
first merge), `Write` (`Land` is Jira's PUT), `WriteRefused`, `WriteLost` (with
or without the write having landed), `Reread`, `RereadFails`, `Commit` (the merge
decided again on the fresh snapshot, under the lock, and `Admit`, the schema's
check) and `Crash`. `Linked` gives the ways a link begins: imported, linked by
its alias, created with the value or without.

What is assumed of Jira: GETs do not go back; a write shows in GETs within
`Settle`, the constant of the code; a run has its answers within `Settle` of its
write.

### 2.7 `JiraCandidates`: which issues a run reads

Many issues, each reduced to its `updated`, the `updated` its marker records
(`got`), whether a change is `unread` and whether the clone passes the issue over
(`foreign`: it names an issue that the clone has not pulled, or that is linked to
another of Jira's, or its type is not mapped; until a run may `Claim` it). The state file (`disk`) holds the
cursor, the failed hits and the last one read again; a run works on a copy and
saves it at the end, whatever its error. Actions: `Search` (the JQL from
`LowerBound` less the overlap, over an index that lags by up to `Lag`), the
round robin of `refetch` (`Refetch`, `RefetchGone`, `RefetchFails`), the hits in
order (`HitSkipped`, `HitRead` of a linked issue, `HitImported` of one that is not,
`HitPassed`, `HitGone`, `HitFails`, for the issue or for the
run), the linked issues that changed here (`ReadChanged`), `Finish`, `RunIds`, `Save`,
`Crash`, `Lose`. What reading does is `JiraMerge`'s business. Between the hits and
the save a run also creates issues in Jira, which is `JiraCreate`, and looks for
deleted ones, which is left out; so are link requests, and hits of an issue that the
run has already done.

### 2.8 `JiraCreate`: from a local issue to one of Jira's

One local issue, `Self`, written in the clone `Home`; several clones that sync
with one Jira and exchange what they know through a remote; every Jira issue is
made of `Self`.

| variable | code |
|---|---|
| `jira`, `shown`, `flight` | the issues made in Jira, in the order of their ids; those that its search shows; POSTs whose run has gone and that may still land |
| `store` | what each clone and the remote have: `Self`, its attempts (`jira-create`), its link (`jira-id`) and the place of that link in the order of operations, the first `updated` of its markers, copies that were adopted, what is archived |
| `disk` | each clone's `State.Refused` |
| `run` | a run of the sync: the index and the losers as scanned, the hits left, the created search, the POST |

Actions, in the order of `runAll`: `Begin` (`scan`, `NewIndex`), `Consolidate`
each loser, `Search`, the hits (`Adopt`, `Orphan`, `LinkHit`), and then `create`
of `Self`: `TurnSkipped`, `CreatedSearch`, what it found (`FoundKept`,
`FoundTaken`, `LinkFound`), `Wait`, or `Attempt`; the POST's answer (`PostMade`,
`PostRefused`, `PostLost`) and `Link`. `Stop` is a failure or a death between any
two of these, `Lose` the loss of the state file. `Push` and `Pull` may come
between any two steps of a run: they are other processes.

Choices worth knowing: a search returns any of the issues that Jira shows, since
which ones is the business of `JiraCandidates`; markers get the `updated` that
is worst for their issue; a clone's two attempts fall in different seconds; of
two links written apart the one counts whose operation comes first
(`SetMetadata` sets a key once), and either may: the order is that of clocks and
hashes, which nothing in the sync decides, so a link that is written while a
repository has one to another Jira issue takes a `place` before it or after it (`Places`,
`Precedes`; `MaxPlace` bounds the places); a run that would do nothing is left out; a
run with `--adopt` and one without may alternate. Assumed of Jira: its search shows an issue within `Lag`,
a POST lands within `Delay`, and a run's created search is at most `Drag` old when
it is used; together less than `Settle`.

### 2.9 `Identities`: who did it

The identities of several clones of a repository. A ref is the sequence of
versions that it reaches; a version is told apart by a number and the Jira account
in its metadata.

| variable | code |
|---|---|
| `local`, `remote` | `refs/work-users/<id>` of each clone and of the remote |
| `view` | what a process has read: in a sync the identities of its cache, in MergeAll the tracking refs |
| `run` | the step of the command that a process is in, and in MergeAll the ids still to come |

A sync is `StartSync`, then `TagRunner` or `RunnerTagged` (`setup`), then any number of
`EnsureUser`, each a new identity for an account that none carries; it may end
anywhere (`EndSync`). A pull is `Pull` and, id by id, `MergeForward`, `MergeNothing` or
`MergeRefused`, which ends it; a `Crash` may come in between. `Push` sends each ref that the
remote takes as a fast-forward. Several processes may work in one clone: a sync
holds no lock between what it read and the versions it writes on top of that. The fetch
and the taking of the lock are one step, and a process reads anew for each command, as
the command line does; a process that stays open and has not refreshed since is left out.

### 2.10 `StoreInv`, the proofs, and the MC modules

`StoreInv` states the inductive invariant of the store in three parts: the
control, the operations, the times. `StoreProofs` proves the first of itself,
the others on top of it, and then the refinement of `OpLog`;
`ClonesInv` and `ClonesProofs`, `ExcerptCacheInv` and `ExcerptCacheProofs` do the
same for the clones, with the refinement of `Gossip`, and for the excerpt cache;
`JiraMergeInv` and `JiraMergeProofs` for the merge with Jira,
`JiraCreateInv` and `JiraCreateProofs` for the creation there, `IdentitiesInv` and
`IdentitiesProofs` for the identities; that of the candidates is in `JiraCandidates`, its proof in
`JiraCandidatesProofs`. `CacheFileProofs` has both for the cache file.
The MC modules hold the small sets and maps that the configurations choose from.

Operators whose comment begins with "Mistake:" are used by no specification.
Each is the definition after it with a plausible bug, some of which the code
once had (`RebaseNoReread`, `ReversedOrder`); substituted for it, a property listed
beside it in PROJECT.json must fail, which shows that the property depends on
that line.

## 3. What the runs check

| run | instance | checks | shows |
|---|---|---|---|
| `store_shared` | 1 process, 2 threads, 1 shared instance, 3 batches, 1 fault | `TypeOK`, `NothingMeansDurable`, `NoSilentDrop`, `WholeBatches`, `CommittedOnce`, `StoreInvariant`, `LockReleased`, `CallsReturn` | sharing an instance through failed writes and a crash loses nothing, commits nothing twice, shows no half of a call; no error path and no crash keeps the lock or a mutex, and every call returns; the invariant of the proofs holds |
| `store_twins` | 1 process, 2 threads, 2 instances of an issue, 3 batches, no fault | `DecidedOnTip`, `FastForward` | two instances of one issue do not undo each other's commits, and an Update commits to what it decided on |
| `store_apart` | 2 processes, an instance each, 3 batches, 1 fault | `AckedDurable`, `RemovedForGood`, `EditOrder`, `ImplementsLog` | what was acknowledged stays, what was removed stays removed, times follow the history in spite of separate clocks, and readers see the log of `OpLog` |
| `clones_pair` | 2 clones, 4 operations, clocks up to 4 by edits of other issues, jumps of 2 refused | `ClonesInvariant` (which contains `TypeOK`), `Readable`, `PullsReadable`, `Converge` | of every history the clones join each commit is read once and after its parents, and the history is refused only for a pack that jumps; a pull never makes a readable issue unreadable; while all can be read, clones that keep syncing settle on one history; the invariant of the proofs holds |
| `clones_trio` | 3 clones, one with no user identity, 3 operations, clocks up to 2 by others | `CausalOrder`, `NothingForgotten` | operations are compiled in causal order; nothing is forgotten, answers to pushes lost or not |
| `cache` | 2 processes, one watching, one caller each, `Update`, `Remove`, `MergeAll`, 2 commits, 1 fault | `NeverBack`, `CatchesUp` | what is shown never goes back; the watcher catches up |
| `cache_calls` | the same processes, every call, 2 commits, no fault | `CacheInv` (which contains `TypeOK`), `ReadYourWrites`, `Verified` | a process shows at least what its own successful calls committed; an excerpt recorded under the lock or by a refresh, beside the ref's hash, shows that ref, in memory and in any file; the invariant of the proofs holds |
| `cache_file` | 2 writers | `FileKept` **violated** | finding 1 |
| `jira_merge` | a text, a required choice and a set, however linked, 2 edits here, 1 in Jira, 1 fault | `MergeInvariant` (which contains `TypeOK`), `BaseObserved`, `NeverSilent`, `JiraKept`, `Converges` | a person's value is replaced only with a note or a reason; a value set in Jira is never overwritten unseen; a base is a value Jira held; the sides agree in the end; the invariant of the proofs holds |
| `jira_candidates` | 3 issues, one never readable, one created later by another clone, a clock of 3, 1 failed hit a run, lag and overlap 1, 2 changes, 1 fault, the state file lost once | `NothingMissed`, `IInv` (which contains `TypeOK`), `AllRead` | unless the state file is lost, no unread change drops out of its reach and each is read or passed over in the end, in spite of one that always fails |
| `jira_create` | 2 clones, 1 fault, lag 1, overlap 1, settling 2, a clock of 3, 3 places | `KeptInvariant` (which contains `CreateInvariant` and `TypeOK`), `CreatedOnce`, `OneKept`, `LinkedOnce` | a run that knows of an attempt makes no second Jira issue while it looks for it; the clones never archive all that stands for a Jira issue; once Jira has one, every clone links the issue and keeps one copy; the invariant of the proofs holds |
| `identities` | 2 clones, 3 processes, two of them in clone 1; a runner in each clone and an identity for others, 2 accounts, 3 versions, 1 crash | `IdentitiesInvariant` (which contains `TypeOK`), `PartsOnlyShared`, `Arrives` | only an identity that two processes run as splits; an identity arrives everywhere unless it, or one before it in the order of ids, is split; the invariant of the proofs holds |

**Bounds, and why they are enough.** Every conflict in the store is between two
writers of one issue, inside a process (shared instance, twin instances) or
across processes (separate clocks): the first three runs take these arrangements
in turn. Three batches let a writer commit before, between and after another's
two; one of them has two authors, so that a commit takes two packs and can fail or
be interrupted half way. One fault (`MaxFaults`, crashes and failed writes
counted together) is enough to reach every error path with another writer in any
position; `store_twins` takes none, for its size (its properties also hold
with one, in 11,715,672 states). For the clones,
`MaxOps` bounds the operations written: four are needed for the uneven branches
that the reader once could not order (a commit read before its parent); merge commits
are not bounded by it. `MaxElsewhere` and `MaxJump` are small so that a pack can jump:
on either clone, before or after an exchange, below a merge commit or on top of one.
In the cache, what goes wrong needs a hash that moves while something is read or
written: one commit to be read and one to overtake it, two processes (one with a
watcher, as an interface has, one without, as a command), and one fault to lose
a process between the file and the commit. `Verified`, `ReadYourWrites` and the
invariant are checked with every call; `NeverBack` and `CatchesUp` with `Update`, `Remove` and
`MergeAll` and a fault, since liveness and every call together are too many states.
All exempt what is recorded without the lock (`loose`), and are for
one caller per process: two callers in one process that miss together can put an older
instance over a newer one, which then shows in the excerpt (section 4).
For the merge, two edits here let one be sent and another fall into each gap of
the protocol, with an edit in Jira before, between or after them, and one fault
reaches each error path with any of them on either side of it. `NeverSilent`
exempts what section 4 lists (`blind`, and sets). For the
candidates, three issues are the fewest with which two failed hits wait in one
round robin, since the newest hit is always found by the search itself; the one that
is passed over at first is claimed before a run, after it, or never.
For the creation, two clones and three seconds hold every order of an
attempt, the settling time and a second attempt, by the same clone or the other,
before or after an exchange, and an overlap that reaches an issue made before the
attempt; `Lag` is the only delay in the run, since what
counts is that the delays together stay below `Settle`. Of three places the first link takes
the middle one, and a link to another Jira issue comes before it or after it.
For the identities, two processes of clone 1 run as identity 2, and one of clone 2 as
identity 1, so that one runner has one writer and the other has two; the identity
that a sync makes comes after both and is not merged once identity 2 is split. Three versions are
the two tags of identity 2, between which a push and a pull may come, and one more by anyone.

**Deadlock** is not checked: callers may stop calling, and a finite set of
batches runs out. That nobody waits for ever on the lock or a mutex is
`CallsReturn`.

**Fairness.** `Store!FairSpec` assumes weak fairness of a thread's step *once it
has made a call*: goroutines are scheduled, flock is retried and is granted or
times out after five seconds, and a caller's function returns. No caller has to
call and nothing has to fail. `Clones!FairSpec` assumes a clone that keeps
pulling and pushing (weak fairness of Fetch, MergeList, MergeOne and Push);
nobody has to write. That is a property of how people use it, not of the
code: `Converge` says what regular syncing brings, as long as no history has a
pack that jumps.
`ExcerptCache!FairSpec` assumes weak fairness of a thread's step inside a call,
and strong fairness of `RefreshList` for a watcher: the poll of
`cache/watcher.go` recurs every ten seconds for as long as the process is open,
and it waits for the subcache's mutex, which Go's RWMutex grants a waiting writer.
File events are not needed, only sooner. In `CatchesUp` "writers pause" is the
bound on commits.
`JiraMerge!FairSpec` assumes that time passes, that a run once begun ends and
that another follows it, and, strongly, that a run reads again after a write has
had `Settle` to show; `JiraCandidates!FairSpec` that the index catches up and
that runs recur; `JiraCreate!FairSpec` the same, and that each clone keeps
pushing and pulling. Its clock need not advance: an issue that Jira has is found
without waiting. `LinkedOnce` says "again and again, if Jira has an issue, all clones are
settled", which is "eventually, once it has one", for Jira never loses it.
`Identities!FairSpec` assumes that a sync and a
merge once begun end, and, strongly, that someone in each clone keeps pulling and pushing
(whenever the lock is free and one of its processes is not busy with another command). The sync is run by a person or a timer, not by this code:
the liveness properties say what running it regularly brings.

## 4. Findings

A run that finds a statement of the repository violated:

1. *The cache file is removed by a lost race* (run `cache_file`). Two processes
   that load, refresh or stage at once share the sibling; the one whose rename
   finds it gone takes the fallback meant for Windows and removes the real file.
   While only one writes at a time the file survives a crash at any point (proved:
   `CrashKeepsFile`).

Known from the modules and not among the runs; each is a definition of its
module that the instance named makes TLC refute:

- *A lost state file.* `jira/state.go:15` and `doc/design/jira-sync.md:425` say
  that losing it costs a slower run, never a wrong one. The next run starts from
  the newest `updated` of a marker with no failed hits: a hit that failed, or a
  change older than an issue that was read on its own since, is not found until it
  changes again or someone runs `--full`: `JiraCandidates!LossHarmless` under
  `JiraCandidates.cfg` with `MaxFaults = 0`. Unless the file is lost, nothing is missed (proved:
  `NoChangeMissed`).
- *A version of an identity lost.* `IdentityCache.Commit` takes the lock and does not
  read again (`cache/identity_cache.go:45-53`): of two processes that tag one
  identity, the second moves the ref off the first's version, against
  `doc/design/concurrent-store.md` D2 ("nothing is overwritten"):
  `Identities!NothingOverwritten` under `Identities.cfg`. What is lost is never more than
  that: the identity is the runner's, two processes run as it, and it carries an account
  afterwards all the same (proved: `VersionsKept`).
- *An identity split for ever.* Two processes, of one clone or of two, that sync with Jira
  before they exchange what they wrote each tag the identity they share
  (`jira/engine.go:171-179`); its lines no longer join, each MergeAll of
  identities ends at it (`entities/identity/identity_actions.go:113`), and those
  after it in the order of ids are not merged again, against
  `doc/design/jira-sync.md:215` ("two bound clones converge"):
  `Identities!Converge` under `Identities.cfg`. Pulling before the first sync
  avoids it between clones, since the second then finds the account taken. No other
  identity splits (proved: `OnlySharedParts`).
- *An issue that cannot be read any more.* The edit clock is shared by a clone's issues,
  and by whoever they came from. An issue edited after 1,000,000 edits of others has a
  pack that readAt refuses (`entity/dag/entity.go:192`); the write does not look, so the
  issue is lost to its author from the next read on, and to every other clone once pushed:
  MergeAll reports it and goes on. `MergeInvalid` and the second disjunct of
  `MergeError` are this in run `clones_pair`, with a smaller bound. No merge brings it about
  (proved: `PullsRead`), and before a clock has come that far all can be read
  (`ReadsYoung`).
- *A change of an issue that was passed over.* The cursor goes past a hit whose type is not
  mapped, or that names an issue this clone has not pulled. When the issue is pulled
  later, with a link, the change is read at its next change only, or with `--full`;
  `JiraCandidates!HitPassed` counts it as read. Of those that name an absent issue the state
  file keeps a list, for the report alone (`jira/candidates.go:425`).
- *`CommitAsNeeded` after a failed write.* `Commit` takes operations off
  `staging` before they are written. When the write fails, `NeedCommit` looks at
  the empty `staging` and `CommitAsNeeded` answers nil; the operations are only
  in the wrapper's own list, which a later `Commit` does look at. So they are
  not lost (`NoSilentDrop` holds) but the caller is told that nothing needs
  saving: `Store!CleanMeansDurable` under `StoreShared.cfg`.
- *Edit times of two issues.* The lock covers the clock's file but no process
  reads the file again after loading it; two commits to two issues can carry one
  edit time, against `doc/design/concurrent-store.md` D1:
  `Store!EditTimesDiffer` with two processes and an issue each. Within an issue
  the read under the lock keeps times apart (`EditOrder`).
- *An edit that is never committed stays in the cache.* `CommitOperations`
  notifies before it commits; the excerpt with the uncommitted operations and
  the ref's current hash are written to the cache file. After a crash the hash
  agrees with the ref and the excerpt is shown until the issue changes again:
  `ExcerptCache!VerifiedAtRest` under `Cache.cfg` with "stage" or "new" among its
  `Kinds`: New too notifies without the lock, after it has let it go
  (`cache/subcache.go:815`). `Verified`, `NeverBack` and `CatchesUp` exempt what these two
  record (`loose`), and nothing else: `Update`, `Remove` and `MergeAll` beside them are not
  affected.
- *An old instance that no refresh replaces.* `Resolve` reads with no lock and
  stores what it read afterwards; a refresh in between has recorded the newer
  hash, and finds no difference any more. The excerpt is right (`CatchesUp`
  holds); the issue views draw the instance: `ExcerptCache!ViewsCatchUp` under
  `Cache.cfg` with no fault.
- *Other silent losses of the Jira merge*, which `NeverSilent` exempts by name:
  a write that landed and no run learnt of (its answer was lost, or the run died)
  and that the person then takes back, and a set's entry removed between the PUT
  and the commit. *In the second of a write*: whether a re-read shows our write is
  told by times of one second (`jira/engine.go:142`); a version that is older but of
  the same second passes for the answer to the write, and Jira's old value
  replaces the person's with no note, against `doc/design/jira-sync.md:583` ("never
  a silent loss"): `JiraMerge!NeverSilentAtAll` under `JiraMerge.cfg`. *So does an
  older version that has the value written*, whatever its time
  (`jira/base.go:166`, `held`): someone set that value in Jira and took it back just
  before the write; the person takes it back here too, and the write, seen
  at last, replaces the person's value. It takes two edits in Jira
  (`MaxJira = 2`), one more than the run has. Without these, and in a scalar, none is silent
  (proved: `SilenceJustified`).
- *An attempt that a later one hides.* A run looks for the latest attempt only
  (`inDoubt`), and not for one that it knows Jira refused. An attempt of another
  clone that was made before, and that the run knew of, is then not looked for:
  it makes a second Jira issue, against `jira/create.go:20` ("a clone that pulled the
  attempt sees it"): `JiraCreate!CreatedOnceAtAll` under `JiraCreate.cfg`.
  `CreatedOnce` exempts this case (`Hidden`) and no other, for any number of
  clones (proved: `CreatedOnceOnly`).
- *Both archived, with three clones.* A clone that links the issue from a hit,
  without having pulled the attempt, takes an adopted copy to have been first and
  archives the issue; the clone with the attempt archives the copy. Against
  `jira/index.go:145` ("every clone holding both agrees"): `JiraCreate!OneKept`
  with `Clone <- MCTrio`, `Lag = 0`, `Overlap = 0`, `Settle = 1`, `MaxTime = 2`, no
  fault.

## 5. What is proved

**The store.** `StoreProofs` proves, for any sets of
processes, threads, instances, issues and batches, from `StoreAssumption` alone
(the maps are total on their domains; batches are non-empty and disjoint, and
have no operation twice, since an operation's id is a hash of it and its nonce):

| theorem | statement |
|---|---|
| `Invariance` | `Spec => []IInv` |
| `TypeCorrect` | `Spec => []TypeOK` |
| `Removal` | `Spec => []RemovedForGood` |
| `NoCommitLost` | `Spec => FastForward` |
| `WholeInvariance` | `Spec => []StoreInvariant` |
| `UpdateDecidedOnTip` | `Spec => []DecidedOnTip` |
| `NothingTwice` | `Spec => []CommittedOnce` |
| `BatchesWhole` | `Spec => []WholeBatches` |
| `AnswersTrue` | `Spec => []AckedDurable` |
| `NothingLost` | `Spec => []NothingMeansDurable` |
| `NothingDropped` | `Spec => []NoSilentDrop` |
| `TimesInOrder` | `Spec => EditOrder` |
| `StoreImplementsLog` | `Spec => ImplementsLog` |

`FastForward` and `RemovedForGood` are not inductive: a ref is overwritten with
`base`, and to know that `base` extends the ref one must know that nothing moved
the ref since it was read. `IInv` says why: only the lock's holder is inside
(`LockInv`); what the holder read is still the tip and what it adds is on top of
it (`TipInv`); a worker in a call works on an instance of its own process, which
is private while `newRaw` builds it (`CallInv`); and the issue that `newRaw`
builds is known to its builder alone (`NewInv`), since whatever exists of an
issue stems from a batch built for it (`HomeInv`). The module has one lemma per
action, each proving the conjuncts that the action disturbs; `NoCommitLost`
follows because `UpdateRef` and `RemoveIssue` are the only actions that change
`ref`.

What becomes of an operation takes more, `DataInv`: an operation is staged on
one instance, or can be read, or neither, and its whole batch with it
(`PlaceInv`); a worker alone knows the batches whose fate is open, and each of
them is saved, or staged on the worker's own instance, or what `newRaw` is
building (`MineInv`, `BuildInv`); and between the first pack and the ref,
what is written and what is left to write make up the tip and what was staged,
with nothing twice, and nobody stages in between (`WriteInv`: the instance's
mutex). The answers follow: `Return` says "saved" only after the ref, and a
commit that finds nothing staged has had its operations saved by another thread.
The times need `ClockInv`: what the holder read is not after its process's
clock, however many clocks there are, because every commit reads the issue first.

The refinement maps `UpdateRef` to `Save` of what is being saved, `RemoveIssue` to `Remove`,
`Return` and `Add` to `Tell` if they answer with success, and every other action to a
stutter; a reader sees of a commit that takes many steps only the last.

**Synchronisation.** `ClonesProofs` proves, for any number of clones and operations,
with or without user identities, and for any order of the pack ids, from
`ClonesAssumption` (no two packs have one id; the remote is not called as a clone is):

| theorem | statement |
|---|---|
| `ClonesInvariance` | `Spec => []ClonesInvariant` |
| `ClonesTyped` | `Spec => []TypeOK` |
| `CompiledInOrder` | `Spec => []CausalOrder` |
| `NothingIsForgotten` | `Spec => NothingForgotten` |
| `ReadsAll` | `Spec => []Readable`: every commit is read, once, after its parents; refused is what has a pack that jumps, and nothing else |
| `ReadsYoung` | while no clock is beyond `MaxJump` every history is read |
| `PullsRead` | `Spec => PullsReadable` |
| `MergesAll` | a merge reads what it has listed, unless a pack in it jumps |

A merge moves the ref to the hash it listed, and decides whether that is forward
on the tracking ref as it is now, which a fetch may have moved in between
(`entity/dag/entity_actions.go:166`). That nothing is lost needs three facts of
the whole system. Two clones have in common only what the remote has
(`SharedInv`), since a clone's commits reach another by the remote alone. What a
clone knows of the remote is in the remote's history, which only grows
(`RefsInv`). Hence a clone's ref that the remote has got there by the clone's own
push, on top of what it had fetched until then, or by a merge of what it had
fetched: it is comparable with its tracking ref and with what it listed
(`ComparableInv`). So the move is forward (lemma `Forward`), and the refinement
maps a write to `Record`, a join, a merge or a push to `Learn`. The order of
compilation ignores the history; it follows it all the same because a writer's
clock has witnessed everything below its commit (`HistoryInv`, `ClockInv`). That there is
a latest time to witness takes a bound on the clocks, by what is written here and
elsewhere (`ClockInv`).

`ReadsAll` is about the loops of the reader. What it needs of a history is in
`HistoryInv`: parents come before their children, no commit has a parent twice,
there is one root, and an ancestor's time is the earlier one. The walk keeps
that what it has read and what it has queued are together what it has visited, with
nothing twice, and that the parents of what is read are visited; when its queue is empty
it has read the whole history (`WalkStep`, `WalkedOnce`). The sort keeps that each
commit comes after its parents and that whatever is ready is queued; of commits
that are left the one of the lowest number is ready, so that an empty queue means
the end (`SortStep`, `NoneLeft`, `SortedOnce`). `Len(commits)` turns are enough,
because each turn reads a commit that no other has read. Of the checks on that order all
but one then hold by `HistoryInv`; the last is that no pack jumps, about which nothing is
assumed. A pull leaves what can be read readable because a merge reads both sides
before it joins them, and a merge commit is exempt (`PullsRead`). A loop is a
recursive function, on a domain that depends on the state. That its values obey a loop invariant
stated as a *set* of pairs `<<turn, state>>` (`WalkTurns`, `SortTurns`) follows from
an induction that takes a set for its hypothesis (`UpTo`, from the least member
of a set of numbers, `LeastNat`) and from the existence of what such a recursion defines
(`Recursion`), so that no operator has to be instantiated.

**The cache file.** `CacheFileProofs` proves, for any finite number of writers that
die anywhere, that `Spec /\ []Alone => FileKept` (`CrashKeepsFile`), where `Alone`
says that no two of them replace the file at a time; when two do, finding 1 shows what
happens. What a writer that is alone knows (`AloneInv`): the sibling is not the file
and is the one that it has open, nobody else has it open, so that what it renames is whole, and
there is one to rename, so that it never takes the fallback. There is always an
inode for `Create` that no name and no descriptor has (`NewInode`).

**The excerpt cache.** `ExcerptCacheProofs` proves, for any processes, callers,
watchers, instances, kinds of call, commits and faults:

| theorem | statement |
|---|---|
| `CallsOrdered` | `Spec => []ControlInv` |
| `CacheTyped` | `Spec => []TypeOK` |
| `CacheInvariance` | `OneCaller => (Spec => []CacheInv)` |
| `OwnWritesRead` | `OneCaller => (Spec => []ReadYourWrites)` |
| `HashTrusted` | `OneCaller => (Spec => []Verified)` |
| `NeverOlder` | `OneCaller => (Spec => NeverBack)` |

`ExcerptCacheAssumption` is about types; `InstancesAssumption` says that every process has
a caller and that the cache can always make an instance which neither its callers nor its map have, as
the program can. `OneCaller` is where the code stops giving the
guarantee (section 4): two callers of a process that miss
together put an older instance over a newer one. All kinds of call are made, by any number of
processes with any number of watchers each. CommitOperations and New notify without the lock, so
that what they record beside the ref's hash need not be of that commit: the last two
theorems except that very excerpt, until the process records another, and not the
processes that make such calls.

The argument: who is in which call, holds the lock or opens the cache
(`ControlInv`, for any number of callers). A caller's instance is then the one in the
cache, if the cache has one (`OneInstance`), so what a call notifies of is what it committed; and
nothing that the process has is older than what it was told (`ToldInv`), because
a read returns the present ref and a call that commits notifies before
it lets go of the lock. `Verified` speaks of a process at rest and of its ref's
present hash; `CurrentInv` carries it through the steps between: a ref only moves
to a commit nobody has recorded yet, or goes (`TipMoves`), so a recorded hash that
is not the ref's never becomes it again, and it is enough that what is written
beside the ref's hash, if it was written under the lock or by a refresh, shows it. A page in the file can be read back at any later time,
so the same is said of every page. Only the excerpts that a Build starts from are
exempt (`Presentable`), and they are not written.

**Identities.** `IdentitiesProofs` proves, for any number of clones, processes,
identities and accounts (`IdentitiesAssumption`: the maps are total, there is a
clone, and 0 stands for no account):

| theorem | statement |
|---|---|
| `IdentitiesInvariance` | `Spec => []IdentitiesInvariant` |
| `IdentitiesTyped` | `Spec => []TypeOK` |
| `MadeWhole` | `Spec => []MadeNeverSplit` |
| `OnlySharedParts` | `Spec => []PartsOnlyShared` |
| `VersionsKept` | `Spec => LostOnlyToTag` |

Any number of processes work in a clone, with no hypothesis. An identity that a sync
makes has a new id, nobody tags it, and so it has one line wherever it is
(`MadeOnce`). The runner's identity is written on top of what was read. If one process
alone runs as it, that is what the clone has (`ReadHere`), and its clone is ahead of the
remote and the remote ahead of every other (`OwnerAhead`); a fetched line is behind the
remote however late it is merged (`Fetched`). If several run as it (`Shared`) nothing of the kind
holds: one may write on top of what is no longer there. That is the one step that takes a
version off a ref, and it leaves an account on it (`LostOnlyToTag`): a sync that
overwrites the tag of another does so with its own.

**The candidates of a run.** `JiraCandidatesProofs` proves, for any issues, any
that fail, any lag within the overlap and any bounds (`CandidatesAssumption`):

| theorem | statement |
|---|---|
| `CandidatesInvariance` | `Spec => []IInv` |
| `CandidatesTyped` | `Spec => []TypeOK` |
| `NoChangeMissed` | `Spec => []NothingMissed` |

`NothingMissed` speaks of the state file alone; what makes it hold at the end of
a run is what the run has had in hand. `IInv` is the types and, unless the state
file has been `Lost`, `Covered`, which adds to it: times are of the past,
the index lags by at most `Lag`, and an unread change is newer than the marker
(`Times`); a hit carries the issue's present `updated`, or the issue has changed
so late that the next search reaches back to it (`HitsKnown`); each unread
change is a failed hit, or that late, or a hit still to be handled (`InHand`);
and the run could be cut off here (`NothingDropped`), because the hits come in
the order of their times and the cursor does not pass one that is left.

**From a local issue to one of Jira's.** `JiraCreateProofs` proves, for any number of
clones, any times and any faults, from `CreateAssumption` (the delays together are
less than the settling time; the remote is not called as a clone is):

| theorem | statement |
|---|---|
| `CreateInvariance` | `Spec => []CreateInvariant` |
| `CreateTyped` | `Spec => []TypeOK` |
| `CreatedOnceOnly` | `Spec => []CreatedOnce` |
| `KeptInvariance` | `Spec => []KeptInvariant` |
| `OneIsKept` | `TwoClones => (Spec => []OneKept)` |

`CreatedOnce` speaks of what Jira has made. A POST that may still land has to be
counted with it (`Live`, `OnceInv`), and the proof is about the one step that makes
a new attempt: what may a run conclude of a live POST whose attempt it knows (lemma
`Decided`)? If it has found nothing and the latest attempt has settled, that attempt
made nothing and never will: its POST would have landed within `Delay`, its issue be
shown within `Lag`, and the search that did not find it is at most `Drag` old
(`TimeInv`, `SearchInv`). If the latest attempt is one that Jira refused, it is the
clone's own and made nothing, because nothing but an answer of Jira to that very
POST is taken for a refusal (`RefusedInv`, `PostInv`). So the attempt in question is
not the latest: a later one has hidden it, and that one is of another clone, or
there is one of another clone later still (`LaterInv`: a clone that repeats an
attempt of its own has concluded the same of it before). `WinnerIs`, by which
`NewIndex` always finds one that keeps a Jira issue, is what its types rest on:
`firstToSync` orders the copies of an issue and `Self` totally.

`OneKept` is false with three clones (section 4) and is proved for two
(`TwoClones`: the home and at most one other), where it holds in a stronger form:
`Self` is never archived (`SelfInv`). Copies are made by the other clone alone, while it does not
have `Self`, and of issues that an attempt of the home made (`CopyInv`, `AbsentInv`).
Whoever links `Self` to a Jira issue has the attempt that made it, or no clone
is left that could adopt it (`LinkInv`); so whoever links it knows `Self` to have been there
before each copy of that issue (`Early`: by the time of an attempt or of a marker),
and by `firstToSync` it is no loser (lemmas `EarlyIs`, `SelfNoLoser`). A run decides by
what it scanned when it began; that this knows all that the run itself has adopted is
`IndexInv`. `LinkedOnce` is liveness.

**The merge with Jira.** `JiraMergeProofs` proves, for any fields and any numbers of
edits on both sides, of faults and of versions a GET lags behind, from
`MergeAssumption` (`Unknown` and `None` are no values; the empty value is one of
each field; what Jira makes of a value is one; the values of a set are all the
sets of its items):

| theorem | statement |
|---|---|
| `MergeInvariance` | `Spec => []MergeInvariant` |
| `MergeTyped` | `Spec => []TypeOK` |
| `BaseWasJiras` | `Spec => []BaseObserved` |
| `JirasKept` | `Spec => JiraKept` |
| `SilenceJustified` | `Spec => NeverSilent` |

`NeverSilent` asks of a commit that takes Jira's value over the person's with no
note that someone changed Jira since the marker. What the commit knows is only that
the value here is the base, and Jira's is not. So a base must be the value of a
version that is known (`BaseInv`: of the version it was read in, or the schema
refuses that one; the empty base of a create stands for none), and the version
the run read must be no older (`OrderInv`: a GET never goes back). Then the value
changed between the two, and one of the versions between is no touch (`TouchInv`,
lemma `Changed`). That it is not one of the sync's own is `SyncInv`: of the versions
the sync made, the base is as new as each, or one is the very write that the base
still waits for. A commit that stops waiting has read that write or a later
version (lemma `ClearedIs`), except by the two mistakes of section 4, which
`blind` records, and a write that no run learnt of. A run's own write, read back
changed, is Jira's normal form of it until someone changes that (`RunInv`).
`JirasKept` needs of the same invariant that a scalar is only written if the base is
what Jira had in the version read (`MergeIs`). The lemmas on the rules
(`DecideIs`, `MergeIs`, `AdmitIs`, `SettleIs`) say what each returns; the steps
cite nothing else of them.

**Not proved.** Each safety property that a passing run checks is stated by one of these
theorems. Liveness under fairness is out of the prover's reach and left to TLC:
`LockReleased`, `CallsReturn`, `Converge`, `CatchesUp`, `Converges`, `AllRead`,
`LinkedOnce` and `Arrives`. So is what section 4 says that TLC refutes.

## 6. What is not modelled, and why

- *The effect of an operation on a snapshot*, the validity of packs, signatures:
  data that the properties above do not tell apart.
- *Several issues in one push or pull*: an entity's merge touches its own refs;
  what is left is the order of the tiers, the cap on refs per push and errors
  that cut a loop short (on the plan).
- *A clone that dies during MergeAll*: in `Clones` the merge of an issue is one
  step. It writes the merge commit and then the ref; between the two nothing
  reaches the commit.
- *A history that is damaged*: a pack that does not parse, is not signed or has no
  clock. The histories of `Clones` are those that this program writes; the only ones
  of them that cannot be read have a pack that jumps.
- *Eviction and observers*: the excerpt cache has no LRU (its hazard is a lock
  on an instance that is never released) and tells nobody.
- *Several issues in one cache file*: excerpts of different issues do not
  interact, except that one unreadable entity fails the refresh of all.
- *Identities: a person's own edits, keys, the times at which a version takes
  effect*: an edit commits as a tag does. The excerpts of identities: their cache is that
  of issues, except that a fast-forward is reported as "nothing"
  (`entities/identity/identity.go:384`) and shown after the next refresh.
- *Jira: comments, a change of type, a description that Jira cannot hold*
  (`jira/merge.go`): one field at a time is modelled. *The Gone pass, the
  list of orphans, link requests by alias, projects that move, paging*: the candidates know an issue that was deleted
  only as one that no GET finds. Two changes with one `updated` are one change
  to Jira's search; the model has none. *Several issues in creation*: they share
  the created search, which the model may use late (`Drag`), and nothing else.
  What a create sends, and a person who edits its properties in Jira, are left out.
- *Pure I/O and presentation*: REST and HTTP, argument parsing, drawing, query
  evaluation over excerpts. *Inherited from git-bug*: bridges, the bug entity.

## 7. Plan

In order; each item is one component's module with its runs, then its proofs.

1. `OpLog`, `Store`, `StoreInv`, `StoreProofs`: done, proofs included.
2. `Gossip`, `Clones`, `ClonesInv`, `ClonesProofs`: done.
3. `ExcerptCache`, `ExcerptCacheInv`, `ExcerptCacheProofs`, `CacheFile`,
   `CacheFileProofs`: done, except for eviction and observers.
4. `JiraMerge`, `JiraMergeInv`, `JiraMergeProofs`: done, except for comments.
5. `JiraCandidates`, `JiraCandidatesProofs`: done, except for the Gone pass.
6. `JiraCreate`, `JiraCreateInv`, `JiraCreateProofs`: done, except for link requests
   by alias.
7. `Identities`, `IdentitiesInv`, `IdentitiesProofs`: done, except for a person's
   own edits and keys.
8. `ClockFile`: the file truncated before it is written.
9. `Pull`: MergeAll's channel and lock, the early return of Pull, chunks of a
   push, Remove one ref at a time.
10. Pure algorithms against reference definitions: schema reconciliation, the
    choice among duplicate config entities, rank.

Theorems worth proving next: the invariants of 8 and 9, where a crash and an early return
meet a lock; and that a merge done in several steps, which a crash may cut off,
implements the one step that it is in `Clones`.
