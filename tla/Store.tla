------------------------------- MODULE Store -------------------------------
(***************************************************************************)
(* The concurrent store: operating-system processes, each with its threads *)
(* and its cached issue instances, that write the issues of one git        *)
(* repository with no daemon between them.  Readers take nothing; a writer *)
(* holds the lock of cache/lock.go across one read-modify-commit.          *)
(*                                                                         *)
(* A commit hash determines its whole history, and the history that one    *)
(* store writes is linear: a hash is modelled by the set of the operation  *)
(* packs it reaches, so the parent of a pack is the set it was added to, a *)
(* fast-forward is \subseteq, and {} is the ref that does not exist.       *)
(* Two instances of one issue may be live in one process (SubCache.Resolve *)
(* does not exclude it), so an instance is an identity of its own.         *)
(***************************************************************************)
EXTENDS Integers, Sequences, FiniteSets, Functions

CONSTANTS
  Proc,       \* operating-system processes
  Worker,     \* threads of control: a command, a TUI or web handler
  Inst,       \* cached instances (*IssueCache) a process may hold
  Issue,
  Op,         \* operations, each built once: its id hashes a nonce
  Batch,      \* lists of operations one call appends together
  ProcOf,     \* the process of a worker, of an instance
  IssueOf,    \* the issue of an instance
  AuthorOf,   \* the author of an operation
  MaxFaults,  \* bound: crashes and failed writes in a behaviour
  None

ASSUME StoreAssumption ==
  /\ ProcOf \in [Worker \cup Inst -> Proc]
  /\ IssueOf \in [Inst -> Issue]
  /\ DOMAIN AuthorOf = Op
  /\ Batch \subseteq Seq(Op)
  /\ \A b \in Batch : b # <<>> /\ IsInjective(b)
  /\ \A b, c \in Batch : b # c => Range(b) \cap Range(c) = {}
  /\ MaxFaults \in Nat
  /\ None \notin Worker \cup Inst \cup Issue

VARIABLES
  ref,      \* refs/work-issues/<id>: the packs its head reaches
  removed,  \* history: the issues removed from this repository
  lock,     \* holder of .git/git-work/write.lock
  file,     \* the edit clock's file, 0 when there is none
  mem,      \* each process's edit clock in memory, 0 when not loaded
  live,     \* the instances that exist in their process
  mu,       \* holder of an instance's mutex
  base,     \* dag.Entity.lastCommit of an instance
  pending,  \* dag.Entity.staging
  staged,   \* withSnapshot.staged
  pc,       \* where a worker stands
  call,     \* what it is in the middle of
  cur,      \* the instance it works on
  mine,     \* the batches it appended and was not told the fate of
  home,     \* history: the issue a batch was built for
  reply,    \* history: what the writer of a batch was last told
  faults

repoVars == <<ref, removed>>
clockVars == <<file, mem>>
instVars == <<live, mu, base, pending, staged>>
callVars == <<pc, call, cur, mine>>
histVars == <<home, reply>>
vars == <<repoVars, lock, clockVars, instVars, callVars, histVars, faults>>

Pack == [ops : SUBSET Op, edit : Nat]
Calls == {"none", "commit", "update", "new", "remove"}
\* The states in which a worker stands inside the write lock.
Inside == {"locked", "planned", "writing", "committed"}
PCs == {"idle", "holding", "waiting"} \cup Inside
Replies == {"none", "staged", "acked", "clean", "nothing", "refused", "lost"}

\* The operations reachable from a commit.
OpsOf(head) == UNION {p.ops : p \in head}

\* The batch can be read in its issue.
Durable(b) == home[b] # None /\ Range(b) \subseteq OpsOf(ref[home[b]])

\* What Increment and Witness start from: the clock loaded at open, else the
\* file as it is at first use, else a new clock.
Clock(p) == IF mem[p] # 0 THEN mem[p] ELSE IF file # 0 THEN file ELSE 1

Init ==
  /\ ref = [i \in Issue |-> {}]
  /\ removed = {}
  /\ lock = None
  /\ file = 0
  /\ mem = [p \in Proc |-> 0]
  /\ live = {}
  /\ mu = [x \in Inst |-> None]
  /\ base = [x \in Inst |-> {}]
  /\ pending = [x \in Inst |-> <<>>]
  /\ staged = [x \in Inst |-> <<>>]
  /\ pc = [w \in Worker |-> "idle"]
  /\ call = [w \in Worker |-> "none"]
  /\ cur = [w \in Worker |-> None]
  /\ mine = [w \in Worker |-> {}]
  /\ home = [b \in Batch |-> None]
  /\ reply = [b \in Batch |-> "none"]
  /\ faults = 0

----------------------------------------------------------------------------
\* Helpers that write part of the state.

\* The process's clock, in memory and in the file it shares with the others.
SetClock(p, t) ==
  /\ mem' = [mem EXCEPT ![p] = t]
  /\ file' = t

\* Witness every pack of a commit: the clock becomes the latest of its own
\* time and theirs, and its file is written even when nothing advanced.
Witness(p, head) ==
  \E t \in {Clock(p)} \cup {k.edit : k \in head} :
    /\ t >= Clock(p)
    /\ \A k \in head : t >= k.edit
    /\ SetClock(p, t)

\* Tell w the fate of the batches it appended.
Tell(w, what) ==
  /\ reply' = [b \in Batch |-> IF b \in mine[w] THEN what ELSE reply[b]]
  /\ UNCHANGED home

\* Mistake: no deferred unlock of the write lock on the error paths.
GiveUpKeepingLock(w) ==
  /\ mu' = [x \in Inst |-> IF mu[x] = w THEN None ELSE mu[x]]
  /\ pc' = [pc EXCEPT ![w] = "holding"]
  /\ call' = [call EXCEPT ![w] = "none"]
  /\ UNCHANGED <<lock, cur>>

\* Mistake: no unlock of the entity's mutex on the error paths.
GiveUpKeepingMutex(w) ==
  /\ lock' = None
  /\ pc' = [pc EXCEPT ![w] = "holding"]
  /\ call' = [call EXCEPT ![w] = "none"]
  /\ UNCHANGED <<mu, cur>>

\* A call of w returns an error from inside the write lock: the deferred
\* unlocks run, and what was staged stays on the instance.
GiveUp(w) ==
  /\ lock' = None
  /\ mu' = [x \in Inst |-> IF mu[x] = w THEN None ELSE mu[x]]
  /\ pc' = [pc EXCEPT ![w] = "holding"]
  /\ call' = [call EXCEPT ![w] = "none"]
  /\ UNCHANGED cur

----------------------------------------------------------------------------
\* Calls that take no write lock.

\* SubCache.Resolve, hit: the pointer to an instance the process holds.
ResolveHit(w, x) ==
  /\ pc[w] = "idle"
  /\ ProcOf[x] = ProcOf[w]
  /\ x \in live
  /\ pc' = [pc EXCEPT ![w] = "holding"]
  /\ cur' = [cur EXCEPT ![w] = x]
  /\ UNCHANGED <<repoVars, lock, clockVars, instVars, call, mine, histVars, faults>>

\* SubCache.Resolve, miss: the entity is read from git, its clocks witnessed,
\* with no lock held.
ResolveMiss(w, x) ==
  /\ pc[w] = "idle"
  /\ ProcOf[x] = ProcOf[w]
  /\ x \notin live
  /\ \A v \in Worker : cur[v] # x
  /\ ref[IssueOf[x]] # {}
  /\ live' = live \cup {x}
  /\ base' = [base EXCEPT ![x] = ref[IssueOf[x]]]
  /\ Witness(ProcOf[w], ref[IssueOf[x]])
  /\ pc' = [pc EXCEPT ![w] = "holding"]
  /\ cur' = [cur EXCEPT ![w] = x]
  /\ UNCHANGED <<repoVars, lock, mu, pending, staged, call, mine, histVars, faults>>

\* The caller drops its pointer.
Release(w) ==
  /\ pc[w] = "holding"
  /\ pc' = [pc EXCEPT ![w] = "idle"]
  /\ cur' = [cur EXCEPT ![w] = None]
  /\ mine' = [mine EXCEPT ![w] = {}]
  /\ UNCHANGED <<repoVars, lock, clockVars, instVars, call, histVars, faults>>

\* AddCommentRaw, EditCommentRaw and the first half of CommitOperations: a new
\* batch is appended, in memory only, under the instance's mutex.
Stage(w, b) ==
  LET x == cur[w] IN
  /\ pc[w] = "holding"
  /\ x \in live
  /\ mu[x] = None
  /\ home[b] = None
  /\ pending' = [pending EXCEPT ![x] = @ \o b]
  /\ staged' = [staged EXCEPT ![x] = @ \o b]
  /\ mine' = [mine EXCEPT ![w] = @ \cup {b}]
  /\ home' = [home EXCEPT ![b] = IssueOf[x]]
  /\ reply' = [reply EXCEPT ![b] = "staged"]
  /\ UNCHANGED <<repoVars, lock, clockVars, live, mu, base, pc, call, cur, faults>>

\* CommitAsNeeded when NeedCommit says no: success, nothing done.
CommitNotNeeded(w) ==
  LET x == cur[w] IN
  /\ pc[w] = "holding"
  /\ x \in live
  /\ mu[x] = None
  /\ pending[x] = <<>>
  /\ Tell(w, "clean")
  /\ mine' = [mine EXCEPT ![w] = {}]
  /\ UNCHANGED <<repoVars, lock, clockVars, instVars, pc, call, cur, faults>>

\* Commit, Update and Remove queue for the write lock.
Call(w, kind) ==
  /\ pc[w] = "holding"
  /\ cur[w] \in live
  /\ kind \in {"commit", "update", "remove"}
  /\ pc' = [pc EXCEPT ![w] = "waiting"]
  /\ call' = [call EXCEPT ![w] = kind]
  /\ UNCHANGED <<repoVars, lock, clockVars, instVars, cur, mine, histVars, faults>>

\* newRaw builds an entity nobody else sees yet, then queues for the lock. An
\* issue's id is its first operation's, so no other call builds the same one.
New(w, x, b) ==
  /\ pc[w] = "idle"
  /\ ProcOf[x] = ProcOf[w]
  /\ x \notin live
  /\ \A v \in Worker : cur[v] # x
  /\ home[b] = None
  /\ \A c \in Batch : home[c] # IssueOf[x]
  /\ base' = [base EXCEPT ![x] = {}]
  /\ pending' = [pending EXCEPT ![x] = b]
  /\ pc' = [pc EXCEPT ![w] = "waiting"]
  /\ call' = [call EXCEPT ![w] = "new"]
  /\ cur' = [cur EXCEPT ![w] = x]
  /\ mine' = [mine EXCEPT ![w] = {b}]
  /\ home' = [home EXCEPT ![b] = IssueOf[x]]
  /\ reply' = [reply EXCEPT ![b] = "staged"]
  /\ UNCHANGED <<repoVars, lock, clockVars, live, mu, staged, faults>>

----------------------------------------------------------------------------
\* The write lock.

\* A new entity stays private to newRaw: when its commit fails it is dropped.
DropNew(w) ==
  /\ pending' = [pending EXCEPT ![cur[w]] = <<>>]
  /\ base' = [base EXCEPT ![cur[w]] = {}]
  /\ pc' = [pc EXCEPT ![w] = "idle"]
  /\ call' = [call EXCEPT ![w] = "none"]
  /\ cur' = [cur EXCEPT ![w] = None]
  /\ mine' = [mine EXCEPT ![w] = {}]
  /\ Tell(w, "refused")

\* Mistake: a lock that names the process, not the thread.
TakeLockForProcess(w) ==
  /\ pc[w] = "waiting"
  /\ lock = None
  /\ lock' = ProcOf[w]
  /\ pc' = [pc EXCEPT ![w] = IF call[w] = "new" THEN "writing" ELSE "locked"]
  /\ mu' = IF call[w] = "new" THEN [mu EXCEPT ![cur[w]] = w] ELSE mu
  /\ UNCHANGED <<repoVars, clockVars, live, base, pending, staged, call, cur, mine, histVars, faults>>

\* Mistake: an advisory lock that is not waited for.
TakeLockAnyway(w) ==
  /\ pc[w] = "waiting"
  /\ lock' = w
  /\ pc' = [pc EXCEPT ![w] = IF call[w] = "new" THEN "writing" ELSE "locked"]
  /\ mu' = IF call[w] = "new" THEN [mu EXCEPT ![cur[w]] = w] ELSE mu
  /\ UNCHANGED <<repoVars, clockVars, live, base, pending, staged, call, cur, mine, histVars, faults>>

\* flock granted by the kernel. A new entity has nothing to read again.
TakeLock(w) ==
  /\ pc[w] = "waiting"
  /\ lock = None
  /\ lock' = w
  /\ pc' = [pc EXCEPT ![w] = IF call[w] = "new" THEN "writing" ELSE "locked"]
  /\ mu' = IF call[w] = "new" THEN [mu EXCEPT ![cur[w]] = w] ELSE mu
  /\ UNCHANGED <<repoVars, clockVars, live, base, pending, staged, call, cur, mine, histVars, faults>>

\* Mistake: the timeout is not an error, and the call goes on without the lock.
LockTimeoutIgnored(w) ==
  /\ pc[w] = "waiting"
  /\ lock # None
  /\ call[w] # "new"
  /\ pc' = [pc EXCEPT ![w] = "locked"]
  /\ UNCHANGED <<repoVars, lock, clockVars, instVars, call, cur, mine, histVars, faults>>

\* Five seconds of retries while another holds the lock: the call fails.
LockTimeout(w) ==
  /\ pc[w] = "waiting"
  /\ lock # None
  /\ \/ /\ call[w] = "new"
        /\ DropNew(w)
        /\ UNCHANGED <<live, mu, staged>>
     \/ /\ call[w] # "new"
        /\ pc' = [pc EXCEPT ![w] = "holding"]
        /\ call' = [call EXCEPT ![w] = "none"]
        /\ UNCHANGED <<instVars, cur, mine, histVars>>
  /\ UNCHANGED <<repoVars, lock, clockVars, faults>>

\* Mistake: a read that finds no ref leaves the instance as it was.
ReloadTolerant(w) ==
  LET x == cur[w]
      head == IF ref[IssueOf[x]] = {} THEN base[x] ELSE ref[IssueOf[x]]
  IN
  /\ base' = [base EXCEPT ![x] = head]
  /\ pending' = [pending EXCEPT ![x] = staged[x]]
  /\ Witness(ProcOf[w], head)

\* Mistake: the read does not witness the packs' clocks.
ReloadNoWitness(w) ==
  LET x == cur[w] IN
  /\ ref[IssueOf[x]] # {}
  /\ base' = [base EXCEPT ![x] = ref[IssueOf[x]]]
  /\ pending' = [pending EXCEPT ![x] = staged[x]]
  /\ SetClock(ProcOf[w], Clock(ProcOf[w]))

\* Read the instance's entity again, replaying what is staged onto it.
Reload(w) ==
  LET x == cur[w] IN
  /\ ref[IssueOf[x]] # {}
  /\ base' = [base EXCEPT ![x] = ref[IssueOf[x]]]
  /\ pending' = [pending EXCEPT ![x] = staged[x]]
  /\ Witness(ProcOf[w], ref[IssueOf[x]])

\* Mistake: the lock is taken, but the entity is not read again (before 2a51f66).
RebaseNoReread(w) ==
  LET x == cur[w] IN
  /\ pc[w] = "locked"
  /\ call[w] = "commit"
  /\ mu[x] = None
  /\ staged[x] # <<>>
  /\ mu' = [mu EXCEPT ![x] = w]
  /\ pc' = [pc EXCEPT ![w] = "writing"]
  /\ UNCHANGED <<repoVars, lock, clockVars, live, base, pending, staged, call, cur, mine, histVars, faults>>

\* Commit: the staged operations are rebased onto the current tip. The mutex
\* is kept until the ref has moved.
Rebase(w) ==
  LET x == cur[w] IN
  /\ pc[w] = "locked"
  /\ call[w] = "commit"
  /\ mu[x] = None
  /\ staged[x] # <<>>
  /\ Reload(w)
  /\ mu' = [mu EXCEPT ![x] = w]
  /\ pc' = [pc EXCEPT ![w] = "writing"]
  /\ UNCHANGED <<repoVars, lock, live, staged, call, cur, mine, histVars, faults>>

\* Commit with nothing staged: nothing is read again, and dag.Entity.Commit
\* answers "no pending operation".
NothingToCommit(w) ==
  LET x == cur[w] IN
  /\ pc[w] = "locked"
  /\ call[w] = "commit"
  /\ mu[x] = None
  /\ staged[x] = <<>>
  /\ pending[x] = <<>>
  /\ GiveUp(w)
  /\ Tell(w, "nothing")
  /\ mine' = [mine EXCEPT ![w] = {}]
  /\ UNCHANGED <<repoVars, clockVars, live, base, pending, staged, faults>>

\* Commit and Update on an issue that was removed: the read finds no ref.
ReloadFails(w) ==
  LET x == cur[w] IN
  /\ pc[w] = "locked"
  /\ \/ call[w] = "commit" /\ staged[x] # <<>>
     \/ call[w] = "update"
  /\ mu[x] = None
  /\ ref[IssueOf[x]] = {}
  /\ GiveUp(w)
  /\ UNCHANGED <<repoVars, clockVars, live, base, pending, staged, mine, histVars, faults>>

\* Mistake: the write lock is let go together with the mutex.
ReadForUpdateUnlocks(w) ==
  LET x == cur[w] IN
  /\ pc[w] = "locked"
  /\ call[w] = "update"
  /\ mu[x] = None
  /\ Reload(w)
  /\ lock' = None
  /\ pc' = [pc EXCEPT ![w] = "planned"]
  /\ UNCHANGED <<repoVars, live, mu, staged, call, cur, mine, histVars, faults>>

\* Mistake: Update forgets what was staged before it.
ReadForUpdateForgets(w) ==
  LET x == cur[w] IN
  /\ pc[w] = "locked"
  /\ call[w] = "update"
  /\ mu[x] = None
  /\ Reload(w)
  /\ staged' = [staged EXCEPT ![x] = <<>>]
  /\ pc' = [pc EXCEPT ![w] = "planned"]
  /\ UNCHANGED <<repoVars, lock, live, mu, call, cur, mine, histVars, faults>>

\* Update reads the issue and hands the snapshot to fn, which runs under the
\* mutex; the mutex is then let go for the schema check.
ReadForUpdate(w) ==
  LET x == cur[w] IN
  /\ pc[w] = "locked"
  /\ call[w] = "update"
  /\ mu[x] = None
  /\ Reload(w)
  /\ pc' = [pc EXCEPT ![w] = "planned"]
  /\ UNCHANGED <<repoVars, lock, live, mu, staged, call, cur, mine, histVars, faults>>

\* fn had nothing to write or failed, or the schema refused what it planned.
PlanDeclined(w) ==
  /\ pc[w] = "planned"
  /\ GiveUp(w)
  /\ UNCHANGED <<repoVars, clockVars, live, base, pending, staged, mine, histVars, faults>>

\* The operations fn planned are appended after what is staged.
AppendPlan(w, b) ==
  LET x == cur[w] IN
  /\ pc[w] = "planned"
  /\ mu[x] = None
  /\ home[b] = None
  /\ pending' = [pending EXCEPT ![x] = @ \o b]
  /\ staged' = [staged EXCEPT ![x] = @ \o b]
  /\ mine' = [mine EXCEPT ![w] = @ \cup {b}]
  /\ home' = [home EXCEPT ![b] = IssueOf[x]]
  /\ reply' = [reply EXCEPT ![b] = "staged"]
  /\ mu' = [mu EXCEPT ![x] = w]
  /\ pc' = [pc EXCEPT ![w] = "writing"]
  /\ UNCHANGED <<repoVars, lock, clockVars, live, base, call, cur, faults>>

----------------------------------------------------------------------------
\* dag.Entity.Commit, under the lock and the mutex.

\* The operations at the head of the staging area that share an author.
IsChunk(s, n) ==
  /\ n \in 1..Len(s)
  /\ \A j \in 1..n : AuthorOf[s[j]] = AuthorOf[s[1]]
  /\ n < Len(s) => AuthorOf[s[n + 1]] # AuthorOf[s[1]]

\* Mistake: the ref is moved for every pack rather than after the loop.
WritePackMovesRef(w) ==
  LET x == cur[w]
      t == Clock(ProcOf[w]) + 1
  IN
  /\ pc[w] = "writing"
  /\ \E n \in 1..Len(pending[x]) :
       /\ IsChunk(pending[x], n)
       /\ base' = [base EXCEPT ![x] =
            @ \cup {[ops |-> {pending[x][j] : j \in 1..n}, edit |-> t]}]
       /\ pending' = [pending EXCEPT ![x] = SubSeq(@, n + 1, Len(@))]
       /\ ref' = [ref EXCEPT ![IssueOf[x]] = base'[x]]
  /\ SetClock(ProcOf[w], t)
  /\ UNCHANGED <<removed, lock, live, mu, staged, callVars, histVars, faults>>

\* One turn of the loop: a pack for one author, its parent the last commit.
WritePack(w) ==
  LET x == cur[w]
      t == Clock(ProcOf[w]) + 1
  IN
  /\ pc[w] = "writing"
  /\ \E n \in 1..Len(pending[x]) :
       /\ IsChunk(pending[x], n)
       /\ base' = [base EXCEPT ![x] =
            @ \cup {[ops |-> {pending[x][j] : j \in 1..n}, edit |-> t]}]
       /\ pending' = [pending EXCEPT ![x] = SubSeq(@, n + 1, Len(@))]
  /\ SetClock(ProcOf[w], t)
  /\ UNCHANGED <<repoVars, lock, live, mu, staged, callVars, histVars, faults>>

\* The clock cannot be loaded, or its file or the pack cannot be written once
\* the clock in memory has advanced. The chunk has left the staging area already; the wrapper's
\* own list is untouched.
WritePackFails(w) ==
  LET x == cur[w]
      t == Clock(ProcOf[w]) + 1
  IN
  /\ pc[w] = "writing"
  /\ faults < MaxFaults
  /\ \/ UNCHANGED clockVars
     \/ /\ mem' = [mem EXCEPT ![ProcOf[w]] = t]
        /\ file' \in {IF file = 0 THEN 1 ELSE file, t}
  /\ \/ /\ call[w] = "new"
        /\ pending[x] # <<>>
        /\ DropNew(w)
        /\ lock' = None
        /\ mu' = [mu EXCEPT ![x] = None]
     \/ /\ call[w] # "new"
        /\ \E n \in 1..Len(pending[x]) :
             /\ IsChunk(pending[x], n)
             /\ pending' = [pending EXCEPT ![x] = SubSeq(@, n + 1, Len(@))]
        /\ GiveUp(w)
        /\ UNCHANGED <<base, mine, histVars>>
  /\ faults' = faults + 1
  /\ UNCHANGED <<repoVars, live, staged>>

\* Mistake: the wrapper keeps its list of staged operations after a commit.
UpdateRefKeepsStaged(w) ==
  LET x == cur[w] IN
  /\ pc[w] = "writing"
  /\ pending[x] = <<>>
  /\ ref' = [ref EXCEPT ![IssueOf[x]] = base[x]]
  /\ mu' = [mu EXCEPT ![x] = None]
  /\ pc' = [pc EXCEPT ![w] = "committed"]
  /\ UNCHANGED <<removed, lock, clockVars, live, base, pending, staged, call, cur, mine, histVars, faults>>

\* The loop is done: UpdateRef, which compares nothing, moves the ref.
UpdateRef(w) ==
  LET x == cur[w] IN
  /\ pc[w] = "writing"
  /\ pending[x] = <<>>
  /\ ref' = [ref EXCEPT ![IssueOf[x]] = base[x]]
  /\ staged' = [staged EXCEPT ![x] = <<>>]
  /\ mu' = [mu EXCEPT ![x] = None]
  /\ pc' = [pc EXCEPT ![w] = "committed"]
  /\ UNCHANGED <<removed, lock, clockVars, live, base, pending, call, cur, mine, histVars, faults>>

\* Mistake: the wrapper clears its list of staged operations on an error too.
UpdateRefFailsClearing(w) ==
  LET x == cur[w] IN
  /\ pc[w] = "writing"
  /\ pending[x] = <<>>
  /\ faults < MaxFaults
  /\ call[w] # "new"
  /\ GiveUp(w)
  /\ staged' = [staged EXCEPT ![x] = <<>>]
  /\ faults' = faults + 1
  /\ UNCHANGED <<repoVars, clockVars, live, base, pending, mine, histVars>>

\* The ref cannot be written: the packs exist, and nothing reaches them.
UpdateRefFails(w) ==
  LET x == cur[w] IN
  /\ pc[w] = "writing"
  /\ pending[x] = <<>>
  /\ faults < MaxFaults
  /\ \/ /\ call[w] = "new"
        /\ DropNew(w)
        /\ lock' = None
        /\ mu' = [mu EXCEPT ![x] = None]
     \/ /\ call[w] # "new"
        /\ GiveUp(w)
        /\ UNCHANGED <<base, pending, mine, histVars>>
  /\ faults' = faults + 1
  /\ UNCHANGED <<repoVars, clockVars, live, staged>>

----------------------------------------------------------------------------
\* The way out of the lock.

\* Commit and Update return. entityUpdated runs first and may fail, in which
\* case the caller is given an error for a commit that is durable.
Return(w) ==
  /\ pc[w] = "committed"
  /\ call[w] \in {"commit", "update"}
  /\ lock' = None
  /\ pc' = [pc EXCEPT ![w] = "holding"]
  /\ call' = [call EXCEPT ![w] = "none"]
  /\ mine' = [mine EXCEPT ![w] = {}]
  /\ Tell(w, "acked") \/ UNCHANGED histVars
  /\ UNCHANGED <<repoVars, clockVars, instVars, cur, faults>>

\* newRaw lets the lock go before it adds the entity to the cache.
UnlockNew(w) ==
  /\ pc[w] = "committed"
  /\ call[w] = "new"
  /\ lock = w
  /\ lock' = None
  /\ UNCHANGED <<repoVars, clockVars, instVars, callVars, histVars, faults>>

\* SubCache.add, which refuses an id that got cached since.
Add(w) ==
  LET x == cur[w] IN
  /\ pc[w] = "committed"
  /\ call[w] = "new"
  /\ lock # w
  /\ \/ /\ \A y \in live : ~(ProcOf[y] = ProcOf[x] /\ IssueOf[y] = IssueOf[x])
        /\ live' = live \cup {x}
        /\ pc' = [pc EXCEPT ![w] = "holding"]
        /\ Tell(w, "acked")
        /\ UNCHANGED cur
     \/ /\ \E y \in live : ProcOf[y] = ProcOf[x] /\ IssueOf[y] = IssueOf[x]
        /\ pc' = [pc EXCEPT ![w] = "idle"]
        /\ cur' = [cur EXCEPT ![w] = None]
        /\ UNCHANGED <<live, histVars>>
  /\ call' = [call EXCEPT ![w] = "none"]
  /\ mine' = [mine EXCEPT ![w] = {}]
  /\ UNCHANGED <<repoVars, lock, clockVars, mu, base, pending, staged, faults>>

\* SubCache.Remove under the lock: the refs go, whoever still holds a pointer.
RemoveIssue(w) ==
  LET i == IssueOf[cur[w]] IN
  /\ pc[w] = "locked"
  /\ call[w] = "remove"
  /\ ref' = [ref EXCEPT ![i] = {}]
  /\ removed' = removed \cup {i}
  /\ GiveUp(w)
  /\ UNCHANGED <<clockVars, live, base, pending, staged, mine, histVars, faults>>

----------------------------------------------------------------------------
\* A process dies anywhere and is started again: the kernel releases its
\* lock, its memory is gone, and its clock is what the file says.
Crash(p) ==
  LET workers == {w \in Worker : ProcOf[w] = p}
      insts == {x \in Inst : ProcOf[x] = p}
  IN
  /\ faults < MaxFaults
  /\ faults' = faults + 1
  /\ lock' = IF lock \in workers THEN None ELSE lock
  /\ mem' = [mem EXCEPT ![p] = file]
  /\ live' = live \ insts
  /\ mu' = [x \in Inst |-> IF x \in insts THEN None ELSE mu[x]]
  /\ base' = [x \in Inst |-> IF x \in insts THEN {} ELSE base[x]]
  /\ pending' = [x \in Inst |-> IF x \in insts THEN <<>> ELSE pending[x]]
  /\ staged' = [x \in Inst |-> IF x \in insts THEN <<>> ELSE staged[x]]
  /\ pc' = [w \in Worker |-> IF w \in workers THEN "idle" ELSE pc[w]]
  /\ call' = [w \in Worker |-> IF w \in workers THEN "none" ELSE call[w]]
  /\ cur' = [w \in Worker |-> IF w \in workers THEN None ELSE cur[w]]
  /\ mine' = [w \in Worker |-> IF w \in workers THEN {} ELSE mine[w]]
  /\ reply' = [b \in Batch |->
       IF /\ reply[b] = "staged" /\ ~Durable(b)
          /\ \/ \E x \in insts : Range(b) \subseteq Range(staged[x])
             \/ \E w \in workers : b \in mine[w]
       THEN "lost" ELSE reply[b]]
  /\ UNCHANGED <<repoVars, file, home>>

----------------------------------------------------------------------------
\* A call of w runs to its end by these steps alone.
Step(w) ==
  \/ TakeLock(w) \/ LockTimeout(w)
  \/ Rebase(w) \/ NothingToCommit(w) \/ ReloadFails(w)
  \/ ReadForUpdate(w) \/ PlanDeclined(w) \/ \E b \in Batch : AppendPlan(w, b)
  \/ WritePack(w) \/ WritePackFails(w) \/ UpdateRef(w) \/ UpdateRefFails(w)
  \/ Return(w) \/ UnlockNew(w) \/ Add(w) \/ RemoveIssue(w)

\* What a caller decides to do.
Ask(w) ==
  \/ \E x \in Inst : ResolveHit(w, x) \/ ResolveMiss(w, x)
  \/ Release(w)
  \/ \E b \in Batch : Stage(w, b)
  \/ CommitNotNeeded(w)
  \/ \E kind \in Calls : Call(w, kind)
  \/ \E x \in Inst, b \in Batch : New(w, x, b)

Next ==
  \/ \E w \in Worker : Ask(w) \/ Step(w)
  \/ \E p \in Proc : Crash(p)

Spec == Init /\ [][Next]_vars

\* A call once made goes on: goroutines are scheduled, flock either is granted
\* or times out, fn returns. Nobody has to make a call, nothing has to fail.
FairSpec == Spec /\ \A w \in Worker : WF_vars(Step(w))

----------------------------------------------------------------------------
TypeOK ==
  /\ ref \in [Issue -> SUBSET Pack]
  /\ removed \subseteq Issue
  /\ lock \in Worker \cup {None}
  /\ file \in Nat
  /\ mem \in [Proc -> Nat]
  /\ live \subseteq Inst
  /\ mu \in [Inst -> Worker \cup {None}]
  /\ base \in [Inst -> SUBSET Pack]
  /\ pending \in [Inst -> Seq(Op)]
  /\ staged \in [Inst -> Seq(Op)]
  /\ pc \in [Worker -> PCs]
  /\ call \in [Worker -> Calls]
  /\ cur \in [Worker -> Inst \cup {None}]
  /\ mine \in [Worker -> SUBSET Batch]
  /\ home \in [Batch -> Issue \cup {None}]
  /\ reply \in [Batch -> Replies]
  /\ faults \in Nat

(***************************************************************************)
(* Safety.                                                                 *)
(***************************************************************************)

\* UpdateRef compares nothing, and yet every move of a ref is a fast-forward
\* or the removal of its issue: nobody's commit is ever left unreachable
\* (CachedEntityBase.rebaseStaged, "a fast-forward in fact instead").
FastForward ==
  [][\A i \in Issue : \/ ref[i] \subseteq ref'[i]
                      \/ ref'[i] = {} /\ i \in removed']_vars

\* An instance that outlived the removal of its issue cannot write the issue
\* back: every write reads the ref again first, and finds none.
RemovedForGood == \A i \in removed : ref[i] = {}

\* What Commit, Update or New said it saved can be read back, whatever other
\* writers, failed writes and crashes came after, until the issue is removed.
AckedDurable ==
  \A b \in Batch : reply[b] = "acked" => Durable(b) \/ home[b] \in removed

\* A Commit that answers "no pending operation" has lost nothing: another
\* thread that shares the instance committed the caller's operations for it.
NothingMeansDurable ==
  \A b \in Batch : reply[b] = "nothing" => Durable(b) \/ home[b] \in removed

\* CommitAsNeeded returning nil means the entity is "already in sync with the
\* repository" (dag.Entity.CommitAsNeeded): the caller's operations are saved.
CleanMeansDurable ==
  \A b \in Batch : reply[b] = "clean" => Durable(b) \/ home[b] \in removed

\* The operations of one call are read together or not at all, also when they
\* take one pack per author ("a reader never sees a half-applied document").
WholeBatches ==
  \A b \in Batch, i \in Issue :
    Range(b) \cap OpsOf(ref[i]) = {} \/ Range(b) \subseteq OpsOf(ref[i])

\* Replaying what is staged never commits an operation twice: the packs of an
\* issue share none, so Validate's id collision check never refuses a commit.
CommittedOnce ==
  \A i \in Issue : \A p, q \in ref[i] : p # q => p.ops \cap q.ops = {}

\* Failed commits, reloads and other writers never make an appended batch
\* vanish: until its process dies it is in the issue or staged somewhere.
NoSilentDrop ==
  \A b \in Batch : reply[b] = "staged" =>
    \/ Durable(b) \/ home[b] \in removed
    \/ \E x \in live : IssueOf[x] = home[b] /\ Range(b) \subseteq Range(staged[x])
    \/ \E w \in Worker : call[w] = "new" /\ b \in mine[w]

\* What a fast-forward adds is later, in Lamport time, than all it adds to,
\* and no two packs of an issue share a time: otherwise readAt refuses the
\* issue ("lamport clock ordering doesn't match the DAG"). Each process has
\* its own clock in memory; only the read under the lock keeps them together.
EditOrder ==
  /\ [](\A i \in Issue : \A p, q \in ref[i] : p # q => p.edit # q.edit)
  /\ [][\A i \in Issue : \A p \in ref'[i] \ ref[i], q \in ref[i] :
          q.edit < p.edit]_vars

\* Nothing is committed to the issue between the snapshot that Update's fn
\* decides on and the commit of what it decided.
DecidedOnTip ==
  \A w \in Worker : pc[w] \in {"planned", "writing"} /\ call[w] = "update" =>
    ref[IssueOf[cur[w]]] \subseteq base[cur[w]]
    /\ \A p \in base[cur[w]] \ ref[IssueOf[cur[w]]] :
         p.ops \subseteq Range(staged[cur[w]])

\* No two packs of the store carry one edit time: the lock covers the clocks
\* ("two concurrent commits can hand out the same edit time ... the short
\* lock has to keep covering it", concurrent-store.md D1).
EditTimesDiffer ==
  \A i, j \in Issue : i # j =>
    \A p \in ref[i], q \in ref[j] : p.edit # q.edit

(***************************************************************************)
(* The store implements the log of OpLog: what can be read is what the     *)
(* refs reach.                                                             *)
(***************************************************************************)
Log == INSTANCE OpLog WITH
  log <- [i \in Issue |-> OpsOf(ref[i])],
  gone <- removed,
  told <- {b \in Batch : reply[b] = "acked"}

\* Appends, reloads, packs, failures, crashes and threads that get in between
\* are invisible to readers: they see whole batches appear, and removals.
ImplementsLog == Log!Spec

(***************************************************************************)
(* Liveness.                                                               *)
(***************************************************************************)

\* The write lock is never kept: whoever holds it lets it go.
LockReleased == \A w \in Worker : lock = w ~> lock # w

\* Every call returns, with an answer or an error: no writer waits for ever on
\* the lock or on an instance's mutex.
CallsReturn ==
  \A w \in Worker : pc[w] \notin {"idle", "holding"} ~> pc[w] \in {"idle", "holding"}
=============================================================================
