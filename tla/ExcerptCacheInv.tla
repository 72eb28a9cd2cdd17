--------------------------- MODULE ExcerptCacheInv ---------------------------
(***************************************************************************)
(* The inductive invariants of ExcerptCache: CacheInv, why a process reads *)
(* its own writes, and CurrentInv on top of it, why the hash recorded      *)
(* beside an excerpt can be trusted.  TLC checks them as invariants;       *)
(* ExcerptCacheProofs proves that they are inductive.                      *)
(***************************************************************************)
EXTENDS ExcerptCache

\* A process whose issue views and commands use it from one goroutine, beside
\* the watcher's: two that miss together make an instance each.
OneCaller == \A p \in Proc : \A s, t \in Callers(p) : s = t

----------------------------------------------------------------------------
(* Who is where in a call.                                                 *)

Opens(t) == call[t] \in {"load", "build"}

\* The points of a call, and what a thread holds there.
CallInv(t) ==
  /\ call[t] = "none" <=> pc[t] \in {"idle", "resolving", "holding"}
  /\ call[t] \in {"load", "build", "refresh"} => pc[t] \in {"listed", "write"}
  /\ pc[t] = "listed" => call[t] \in {"load", "build", "refresh"}
  /\ pc[t] = "adding" => call[t] = "new"
  /\ pc[t] = "merged" => call[t] = "merge"
  /\ pc[t] = "notify" => call[t] \in {"update", "stage", "new"}
  /\ pc[t] \in {"waiting", "locked"} => call[t] \in Kinds
  /\ pc[t] \in {"resolving", "holding", "adding"} => cur[t] # None
  /\ call[t] \in {"update", "stage", "remove"} => cur[t] # None
  /\ call[t] = "new" /\ pc[t] \in {"notify", "write"} => cur[t] # None
  /\ pc[t] = "idle" \/ call[t] \in {"load", "build", "refresh", "merge"} => cur[t] = None
  /\ call[t] = "new" /\ pc[t] \in {"waiting", "locked"} => cur[t] = None

\* A thread holds instances of its own process, a watcher none.
HeldInv(t) ==
  /\ cur[t] # None => ProcOf[cur[t]] = ProcOf[t]
  /\ t \in Watcher => cur[t] = None /\ call[t] \notin Kinds

\* Only the holder of the write lock is inside it, and a call that commits
\* notifies before it lets go.
LockInv(t) ==
  /\ pc[t] \in {"locked", "merged"} => lock = t
  /\ call[t] \in {"update", "merge", "remove"} /\ pc[t] \in {"notify", "write"} => lock = t
  /\ lock = t => pc[t] \in {"locked", "merged", "notify", "write"} /\ call[t] \in Kinds

\* While a cache is opened, the thread that opens it is alone in its process.
OpenInv(t) ==
  /\ Opens(t) => ProcOf[t] \notin open
  /\ ProcOf[t] \notin open /\ pc[t] # "idle" =>
       Opens(t) /\ \A s \in Of(ProcOf[t]) : s # t => pc[s] = "idle"

\* The ref is where the last commit put it, or gone; no file knows a later one.
TipInv ==
  /\ tip \in {0, commits}
  /\ \A page \in pages : page.noted <= commits

\* A cache lists instances of its own process.
CachedInv == \A p \in Proc : cached[p] # None => ProcOf[cached[p]] = p

ControlInv ==
  /\ TypeOK /\ TipInv /\ CachedInv
  /\ \A t \in Thread : CallInv(t) /\ HeldInv(t) /\ LockInv(t) /\ OpenInv(t)

----------------------------------------------------------------------------
(* What a process has is not older than what it was told.                  *)

\* Of one caller, the instance that it has is the one in the cache, if any.
\* Before the first commit there is none.
OneInstance ==
  /\ \A t \in Thread : cur[t] # None => cached[ProcOf[t]] \in {None, cur[t]}
  /\ commits = 0 => /\ \A p \in Proc : cached[p] = None
                    /\ \A t \in Thread : cur[t] = None

\* Nothing that p shows or hands out is older than commit h.
AllSince(p, h) ==
  /\ excerpt[p] # None => excerpt[p].at >= h
  /\ cached[p] # None => inst[cached[p]].at >= h
  /\ \A t \in Of(p) : cur[t] # None => inst[cur[t]].at >= h

\* What a process was told, it has; and what its caller is about to be told.
ToldInv ==
  /\ \A p \in Proc : IF p \in open THEN AllSince(p, told[p]) ELSE told[p] = 0
  /\ \A t \in Thread : lock = t /\ pc[t] = "notify" =>
       tip # 0 /\ inst[cur[t]] = Read(tip)
  /\ \A t \in Thread : pc[t] = "merged" => tip # 0
  /\ \A t \in Thread : lock = t /\ pc[t] = "write" => AllSince(ProcOf[t], tip)

CacheInv == ControlInv /\ OneInstance /\ ToldInv

----------------------------------------------------------------------------
(* What is recorded with the ref's hash shows the ref.                     *)

\* What p may write to its file: all but what Build starts from.
Presentable(p) ==
  \/ p \in open
  \/ \E t \in Of(p) : pc[t] = "write" \/ (pc[t] = "listed" /\ call[t] = "load")

\* Nobody shows a commit that was not made.
MadeInv ==
  /\ \A p \in Proc : excerpt[p] # None => excerpt[p].at <= commits
  /\ \A x \in Inst : inst[x].at <= commits
  /\ \A page \in pages : page.excerpt # None => page.excerpt.at <= commits

CurrentInv ==
  /\ MadeInv
  /\ \A p \in Proc : Presentable(p) => Trusted(excerpt[p], noted[p])
  /\ \A page \in pages : Trusted(page.excerpt, page.noted)
=============================================================================
