------------------------- MODULE ExcerptCacheProofs -------------------------
(***************************************************************************)
(* Proofs about ExcerptCache, for any number of processes, watchers,       *)
(* instances and commits: ControlInv is inductive; with one caller in each *)
(* process, so is CacheInv, and a process reads its own writes; and so is  *)
(* CurrentInv: of all that is recorded by a refresh or under the write     *)
(* lock, the hash beside an excerpt can be trusted, and what is shown then *)
(* never goes back.                                                        *)
(***************************************************************************)
EXTENDS ExcerptCacheInv, TLAPS

USE ExcerptCacheAssumption DEF refVars, cacheVars

\* What a thread does.
Acts(t) ==
  \/ Step(t) \/ Load(t) \/ RefreshList(t) \/ ResolveHit(t) \/ ResolveMiss(t)
  \/ Release(t) \/ Stage(t) \/ \E kind \in Kinds : Ask(t, kind)

\* An instance that the cache makes is one that nobody has.
LEMMA FreshFacts ==
  ASSUME TypeOK, \A s \in Thread : HeldInv(s), NEW p \in Proc,
         \E t \in Callers(p) : cur[t] = None
  PROVE  /\ Fresh(p) \in Inst /\ ProcOf[Fresh(p)] = p
         /\ Fresh(p) # cached[p]
         /\ \A s \in Thread : cur[s] # Fresh(p)
<1>1. PICK t \in Callers(p) : cur[t] = None
  OBVIOUS
<1> DEFINE used == [s \in Callers(p) |-> IF s = t THEN cached[p] ELSE cur[s]]
<1>2. used \in [Callers(p) -> Inst \cup {None}]
  BY DEF TypeOK, Callers
<1>3. PICK x \in Inst : ProcOf[x] = p /\ \A s \in Callers(p) : used[s] # x
  BY <1>2, InstancesAssumption, ZenonT(30)
<1>4. x # cached[p] /\ \A s \in Callers(p) : cur[s] # x
  BY <1>1, <1>3
<1>5. \A s \in Of(p) : cur[s] # x
  BY <1>3, <1>4 DEF Of, Callers, HeldInv
<1>6. x \in Unused(p)
  BY <1>3, <1>4, <1>5 DEF Unused, Held
<1>7. Fresh(p) \in Unused(p)
  BY <1>6 DEF Fresh
<1>8. /\ Fresh(p) \in Inst /\ ProcOf[Fresh(p)] = p
      /\ Fresh(p) # cached[p] /\ Fresh(p) \notin Held(Of(p))
  BY <1>7 DEF Unused
<1>9. ASSUME NEW s \in Thread, cur[s] = Fresh(p)
      PROVE  FALSE
  <2>1. cur[s] # None /\ ProcOf[s] = p
    BY <1>8, <1>9 DEF HeldInv
  <2>2. QED
    BY <1>8, <1>9, <2>1 DEF Held, Of
<1>10. QED
  BY <1>8, <1>9

\* Who makes an instance has none yet.
LEMMA FreshCaller ==
  ASSUME ControlInv, NEW t \in Thread, cur[t] = None,
         t \notin Watcher \/ Opens(t)
  PROVE  LET p == ProcOf[t] IN
         /\ p \in Proc /\ Fresh(p) \in Inst /\ ProcOf[Fresh(p)] = p
         /\ Fresh(p) # cached[p]
         /\ \A s \in Thread : cur[s] # Fresh(p)
<1>1. ProcOf[t] \in Proc
  OBVIOUS
<1>2. \E s \in Callers(ProcOf[t]) : cur[s] = None
  <2>1. CASE t \notin Watcher
    BY <2>1 DEF Callers
  <2>2. CASE Opens(t)
    <3>1. PICK s \in Callers(ProcOf[t]) : TRUE
      BY <1>1, InstancesAssumption
    <3>2. s = t \/ pc[s] = "idle"
      BY <2>2, <3>1 DEF ControlInv, OpenInv, CallInv, Opens, Callers, Of
    <3>3. QED
      BY <3>1, <3>2 DEF ControlInv, CallInv, Callers
  <2>3. QED
    BY <2>1, <2>2
<1>3. QED
  BY <1>1, <1>2, FreshFacts DEF ControlInv

\* An excerpt shows what its instance holds.
LEMMA Shapes ==
  /\ \A x \in Content, b \in BOOLEAN :
       Shown(x, b) \in Excerpt /\ Shown(x, b).at = x.at /\ Shown(x, b).staged = x.staged /\ Shown(x, b).loose = b
  /\ \A e \in Content \cup Excerpt : e.at \in Nat
  /\ None \notin Excerpt \cup Inst
  BY DEF Content, Excerpt, Shown

\* Reading, sweeping and making instances keep their type.
LEMMA Contents ==
  ASSUME TypeOK
  PROVE  /\ Read(tip) \in Content /\ Read(0) \in Content
         /\ \A p, used : Swept(p, used) \in [Inst -> Content]
         /\ \A p \in Proc : PageOf(p) \in Page
         /\ noted \in [Proc -> 0..MaxCommits]
         /\ FromRef(tip) \in Excerpt /\ FromRef(tip).at = tip
         /\ FromRef(tip) # None
<1>1. commits \in 0..MaxCommits /\ tip \in 0..MaxCommits
  BY DEF TypeOK
<1>2. Read(tip) \in Content /\ Read(0) \in Content
  BY <1>1 DEF Read, Content
<1>3. \A p, used : Swept(p, used) \in [Inst -> Content]
  BY <1>2 DEF Swept, TypeOK
<1>4. noted \in [Proc -> 0..MaxCommits]
  BY <1>1 DEF TypeOK
<1>5. \A p \in Proc : PageOf(p) \in Page
  BY <1>4 DEF PageOf, Page, TypeOK
<1>6. FromRef(tip) \in Excerpt /\ FromRef(tip).at = Read(tip).at
  BY <1>2, Shapes DEF FromRef
<1>7. FromRef(tip) # None
  BY <1>6, Shapes
<1>8. QED
  BY <1>2, <1>3, <1>4, <1>5, <1>6, <1>7 DEF Read

\* The types, after a step of one thread.
LEMMA TypeOfStep ==
  ASSUME ControlInv, NEW t \in Thread, Acts(t)
  PROVE  TypeOK'
<1> DEFINE p == ProcOf[t]
<1>1. /\ TypeOK /\ p \in Proc /\ commits \in Nat /\ tip \in Nat
      /\ CallInv(t) /\ HeldInv(t) /\ TipInv
  BY DEF ControlInv, TypeOK
<1>2. /\ Read(tip) \in Content /\ Read(0) \in Content
      /\ \A used : Swept(p, used) \in [Inst -> Content]
      /\ PageOf(p) \in Page
      /\ noted \in [Proc -> 0..MaxCommits]
      /\ FromRef(tip) \in Excerpt
  BY <1>1, Contents
<1>3. cur[t] = None /\ (t \notin Watcher \/ Opens(t)) => Fresh(p) \in Inst
  BY FreshCaller
<1>4. CASE BuildRead(t)
  <2>1. excerpt' = excerpt \/ excerpt' = [excerpt EXCEPT ![p] = FromRef(tip)]
    BY <1>4 DEF BuildRead
  <2>2. excerpt' \in [Proc -> Excerpt \cup {None}]
    BY <1>1, <1>2, <2>1 DEF TypeOK
  <2>3. tip # 0 => Fresh(p) \in Inst
    BY <1>1, <1>3, <1>4 DEF BuildRead, CallInv, HeldInv, Opens
  <2>4. inst' \in [Inst -> Content] /\ cached' \in [Proc -> Inst \cup {None}]
    BY <1>1, <1>2, <1>4, <2>3 DEF BuildRead, TypeOK
  <2>5. QED
    BY <1>1, <1>4, <2>2, <2>4 DEF BuildRead, TypeOK, Goto
<1>5. CASE BuildFails(t)
  BY <1>1, <1>2, <1>5 DEF BuildFails, TypeOK, Goto, Enter, Leave, StartBuild, Caller
<1>6. CASE RefreshList(t)
  BY <1>1, <1>2, <1>6 DEF RefreshList, TypeOK, Goto, Enter, Leave, StartBuild, Caller
<1>7. CASE RefreshNothing(t)
  BY <1>1, <1>2, <1>7 DEF RefreshNothing, TypeOK, Goto, Enter, Leave, StartBuild, Caller
<1>8. CASE RefreshRead(t)
  <2>1. excerpt' = [excerpt EXCEPT ![p] = FromRef(tip)]
    BY <1>8 DEF RefreshRead
  <2>2. excerpt' \in [Proc -> Excerpt \cup {None}]
    BY <1>1, <1>2, <2>1 DEF TypeOK
  <2>3. inst' \in [Inst -> Content] /\ cached' \in [Proc -> Inst \cup {None}]
    BY <1>1, <1>2, <1>8 DEF RefreshRead, TypeOK
  <2>4. QED
    BY <1>1, <1>2, <1>8, <2>2, <2>3 DEF RefreshRead, TypeOK, Goto
<1>9. CASE RefreshReadFails(t)
  BY <1>1, <1>2, <1>9 DEF RefreshReadFails, TypeOK, Goto, Enter, Leave, StartBuild, Caller
<1>10. CASE RefreshForget(t)
  BY <1>1, <1>2, <1>10 DEF RefreshForget, TypeOK, Goto, Enter, Leave, StartBuild, Caller
<1>11. CASE ResolveHit(t)
  BY <1>1, <1>2, <1>11 DEF ResolveHit, TypeOK, Goto, Enter, Leave, StartBuild, Caller
<1>12. CASE ResolveMiss(t)
  BY <1>1, <1>2, <1>12, <1>3 DEF ResolveMiss, TypeOK, Goto, Enter, Leave, StartBuild, Caller, CallInv, HeldInv, Opens
<1>13. CASE PutCached(t)
  BY <1>1, <1>2, <1>13 DEF PutCached, TypeOK, Goto, Enter, Leave, StartBuild, Caller, CallInv
<1>14. CASE Release(t)
  BY <1>1, <1>2, <1>14 DEF Release, TypeOK, Goto, Enter, Leave, StartBuild, Caller
<1>15. CASE Stage(t)
  BY <1>1, <1>2, <1>15 DEF Stage, TypeOK, Goto, Enter, Leave, StartBuild, Caller, CallInv, Content, Read
<1>16. CASE TakeLock(t)
  BY <1>1, <1>2, <1>16 DEF TakeLock, TypeOK, Goto, Enter, Leave, StartBuild, Caller
<1>17. CASE LockTimeout(t)
  BY <1>1, <1>2, <1>17 DEF LockTimeout, TypeOK, Goto, Enter, Leave, StartBuild, Caller
<1>18. CASE Commit(t)
  BY <1>1, <1>2, <1>18 DEF Commit, TypeOK, Goto, Enter, Leave, StartBuild, Caller, CallInv, Content, Read
<1>19. CASE CommitNot(t)
  <2>1. CASE inst' = inst
    BY <1>1, <1>2, <1>19, <2>1 DEF CommitNot, TypeOK, Leave
  <2>2. CASE /\ call[t] \in {"update", "stage"}
             /\ inst' = [inst EXCEPT ![cur[t]].at = tip]
    <3>1. cur[t] \in Inst /\ inst \in [Inst -> Content]
      BY <1>1, <2>2 DEF CallInv, TypeOK
    <3>2. [inst[cur[t]] EXCEPT !.at = tip] \in Content
      BY <1>1, <3>1 DEF Content, TypeOK
    <3>3. inst' \in [Inst -> Content]
      BY <2>2, <3>1, <3>2
    <3>4. QED
      BY <1>1, <1>2, <1>19, <3>3 DEF CommitNot, TypeOK, Leave
  <2>3. QED
    BY <1>19, <2>1, <2>2 DEF CommitNot
<1>20. CASE CommitNew(t)
  <2>1. cur[t] = None /\ t \notin Watcher
    BY <1>1, <1>20 DEF CommitNew, CallInv, HeldInv
  <2>2. Fresh(p) \in Inst /\ Read(1) \in Content
    BY <1>3, <2>1 DEF Content, Read
  <2>3. QED
    BY <1>1, <1>2, <1>20, <2>2 DEF CommitNew, TypeOK
<1>21. CASE Add(t)
  BY <1>1, <1>2, <1>21 DEF Add, TypeOK, Goto, Enter, Leave, StartBuild, Caller, CallInv
<1>22. CASE RemoveRef(t)
  BY <1>1, <1>2, <1>22 DEF RemoveRef, TypeOK, Goto, Enter, Leave, StartBuild, Caller
<1>23. CASE MergeRef(t)
  BY <1>1, <1>2, <1>23 DEF MergeRef, TypeOK, Goto, Enter, Leave, StartBuild, Caller
<1>24. CASE MergeNothing(t)
  BY <1>1, <1>2, <1>24 DEF MergeNothing, TypeOK, Goto, Enter, Leave, StartBuild, Caller
<1>25. CASE MergeReadBack(t)
  <2>1. cur[t] = None /\ t \notin Watcher
    BY <1>1, <1>25 DEF MergeReadBack, CallInv, HeldInv, TypeOK
  <2>2. Fresh(p) \in Inst
    BY <1>3, <2>1
  <2>3. inst' \in [Inst -> Content]
    BY <1>2, <1>25, <2>2 DEF MergeReadBack
  <2>4. QED
    BY <1>1, <1>2, <1>25, <2>2, <2>3 DEF MergeReadBack, TypeOK, Goto
<1>26. CASE UpdateExcerpt(t)
  <2>1. /\ cached[p] \in Inst /\ inst[cached[p]] \in Content /\ (lock # t) \in BOOLEAN
        /\ excerpt' = [excerpt EXCEPT ![p] = Shown(inst[cached[p]], lock # t)]
    BY <1>1, <1>26 DEF UpdateExcerpt, TypeOK
  <2>2. Shown(inst[cached[p]], lock # t) \in Excerpt
    BY <2>1, Shapes
  <2>3. excerpt' \in [Proc -> Excerpt \cup {None}]
    BY <1>1, <2>1, <2>2 DEF TypeOK
  <2>4. QED
    BY <1>1, <1>2, <1>26, <2>3 DEF UpdateExcerpt, TypeOK, Goto
<1>27. CASE UpdateExcerptFails(t)
  BY <1>1, <1>2, <1>27 DEF UpdateExcerptFails, TypeOK, Goto, Enter, Leave, StartBuild, Caller
<1>28. CASE Write(t)
  BY <1>1, <1>2, <1>28 DEF Write, TypeOK, Goto, Enter, Leave, StartBuild, Caller
<1>29. CASE WriteFails(t)
  BY <1>1, <1>2, <1>29 DEF WriteFails, TypeOK, Goto, Enter, Leave, StartBuild, Caller
<1>30. CASE Load(t)
  <2>1. \A page \in pages : page.excerpt \in Excerpt \cup {None} /\ page.noted \in 0..commits
    BY <1>1 DEF TypeOK, Page, TipInv
  <2>2. QED
    BY <1>1, <1>2, <1>30, <2>1 DEF Load, TypeOK, StartBuild, Enter
<1>31. ASSUME NEW kind \in Kinds, Ask(t, kind)
      PROVE  TypeOK'
  BY <1>1, <1>31 DEF Ask, TypeOK, Goto, Enter, Leave, StartBuild, Caller
<1>32. QED
  BY <1>4, <1>5, <1>6, <1>7, <1>8, <1>9, <1>10, <1>11, <1>12, <1>13, <1>14, <1>15, <1>16, <1>17, <1>18, <1>19, <1>20, <1>21, <1>22, <1>23, <1>24, <1>25, <1>26, <1>27, <1>28, <1>29, <1>30, <1>31 DEF Acts, Step

\* A step of one thread leaves the others where they are.
LEMMA OthersKept ==
  ASSUME ControlInv, NEW t \in Thread, Acts(t), NEW s \in Thread, s # t
  PROVE  /\ pc'[s] = pc[s] /\ call'[s] = call[s] /\ cur'[s] = cur[s] /\ listed'[s] = listed[s]
         /\ lock' = s <=> lock = s
<1>1. /\ pc \in [Thread -> {"idle", "listed", "resolving", "holding", "notify", "waiting",
                           "locked", "adding", "merged", "write"}]
      /\ call \in [Thread -> Kinds \cup {"none", "load", "build", "refresh"}]
      /\ cur \in [Thread -> Inst \cup {None}] /\ listed \in [Thread -> 0..commits]
      /\ None \notin Thread /\ LockInv(t)
  BY DEF ControlInv, TypeOK
<1>2. CASE BuildRead(t)
  BY <1>1, <1>2 DEF BuildRead, Goto, Enter, Leave, StartBuild, Caller
<1>3. CASE BuildFails(t)
  BY <1>1, <1>3 DEF BuildFails, Goto, Enter, Leave, StartBuild, Caller
<1>4. CASE RefreshList(t)
  BY <1>1, <1>4 DEF RefreshList, Goto, Enter, Leave, StartBuild, Caller
<1>5. CASE RefreshNothing(t)
  BY <1>1, <1>5 DEF RefreshNothing, Goto, Enter, Leave, StartBuild, Caller
<1>6. CASE RefreshRead(t)
  BY <1>1, <1>6 DEF RefreshRead, Goto, Enter, Leave, StartBuild, Caller
<1>7. CASE RefreshReadFails(t)
  BY <1>1, <1>7 DEF RefreshReadFails, Goto, Enter, Leave, StartBuild, Caller
<1>8. CASE RefreshForget(t)
  BY <1>1, <1>8 DEF RefreshForget, Goto, Enter, Leave, StartBuild, Caller
<1>9. CASE ResolveHit(t)
  BY <1>1, <1>9 DEF ResolveHit, Goto, Enter, Leave, StartBuild, Caller
<1>10. CASE ResolveMiss(t)
  BY <1>1, <1>10 DEF ResolveMiss, Goto, Enter, Leave, StartBuild, Caller
<1>11. CASE PutCached(t)
  BY <1>1, <1>11 DEF PutCached, Goto, Enter, Leave, StartBuild, Caller
<1>12. CASE Release(t)
  BY <1>1, <1>12 DEF Release, Goto, Enter, Leave, StartBuild, Caller
<1>13. CASE Stage(t)
  BY <1>1, <1>13 DEF Stage, Goto, Enter, Leave, StartBuild, Caller
<1>14. CASE TakeLock(t)
  BY <1>1, <1>14 DEF TakeLock, Goto, Enter, Leave, StartBuild, Caller
<1>15. CASE LockTimeout(t)
  BY <1>1, <1>15 DEF LockTimeout, Goto, Enter, Leave, StartBuild, Caller
<1>16. CASE Commit(t)
  BY <1>1, <1>16 DEF Commit, Goto, Enter, Leave, StartBuild, Caller
<1>17. CASE CommitNot(t)
  BY <1>1, <1>17 DEF CommitNot, Goto, Enter, Leave, StartBuild, Caller
<1>18. CASE CommitNew(t)
  BY <1>1, <1>18 DEF CommitNew, Goto, Enter, Leave, StartBuild, Caller, LockInv
<1>19. CASE Add(t)
  BY <1>1, <1>19 DEF Add, Goto, Enter, Leave, StartBuild, Caller
<1>20. CASE RemoveRef(t)
  BY <1>1, <1>20 DEF RemoveRef, Goto, Enter, Leave, StartBuild, Caller
<1>21. CASE MergeRef(t)
  BY <1>1, <1>21 DEF MergeRef, Goto, Enter, Leave, StartBuild, Caller
<1>22. CASE MergeNothing(t)
  BY <1>1, <1>22 DEF MergeNothing, Goto, Enter, Leave, StartBuild, Caller
<1>23. CASE MergeReadBack(t)
  BY <1>1, <1>23 DEF MergeReadBack, Goto, Enter, Leave, StartBuild, Caller
<1>24. CASE UpdateExcerpt(t)
  BY <1>1, <1>24 DEF UpdateExcerpt, Goto, Enter, Leave, StartBuild, Caller
<1>25. CASE UpdateExcerptFails(t)
  BY <1>1, <1>25 DEF UpdateExcerptFails, Goto, Enter, Leave, StartBuild, Caller
<1>26. CASE Write(t)
  BY <1>1, <1>26 DEF Write, Goto, Enter, Leave, StartBuild, Caller
<1>27. CASE WriteFails(t)
  BY <1>1, <1>27 DEF WriteFails, Goto, Enter, Leave, StartBuild, Caller
<1>28. CASE Load(t)
  BY <1>1, <1>28 DEF Load, Goto, Enter, Leave, StartBuild, Caller
<1>29. ASSUME NEW kind \in Kinds, Ask(t, kind)
      PROVE  pc'[s] = pc[s] /\ call'[s] = call[s] /\ cur'[s] = cur[s] /\ listed'[s] = listed[s] /\ (lock' = s <=> lock = s)
  BY <1>1, <1>29 DEF Ask, Goto, Enter, Leave, StartBuild, Caller
<1>30. QED
  BY <1>2, <1>3, <1>4, <1>5, <1>6, <1>7, <1>8, <1>9, <1>10, <1>11, <1>12, <1>13, <1>14, <1>15, <1>16, <1>17, <1>18, <1>19, <1>20, <1>21, <1>22, <1>23, <1>24, <1>25, <1>26, <1>27, <1>28, <1>29 DEF Acts, Step

\* Where the thread that moves is, and what it holds.
LEMMA OwnControl ==
  ASSUME ControlInv, TypeOK', NEW t \in Thread, Acts(t)
  PROVE  (CallInv(t) /\ HeldInv(t) /\ LockInv(t))'
<1>1. /\ CallInv(t) /\ HeldInv(t) /\ LockInv(t) /\ TypeOK /\ ProcOf[t] \in Proc
      /\ Kinds \subseteq {"update", "stage", "new", "remove", "merge"}
  BY DEF ControlInv
<1>2. cur[t] = None /\ (t \notin Watcher \/ Opens(t)) =>
        Fresh(ProcOf[t]) \in Inst /\ ProcOf[Fresh(ProcOf[t])] = ProcOf[t]
  BY FreshCaller
<1>3. \A p \in Proc : cached[p] # None => cached[p] \in Inst /\ ProcOf[cached[p]] = p
  BY DEF ControlInv, CachedInv, TypeOK
<1>4. CASE BuildRead(t)
  BY <1>1, <1>4 DEF BuildRead, Goto, Enter, Leave, StartBuild, Caller, CallInv, HeldInv, LockInv, TypeOK
<1>5. CASE BuildFails(t)
  BY <1>1, <1>5 DEF BuildFails, Goto, Enter, Leave, StartBuild, Caller, CallInv, HeldInv, LockInv, TypeOK
<1>6. CASE RefreshList(t)
  BY <1>1, <1>6 DEF RefreshList, Goto, Enter, Leave, StartBuild, Caller, CallInv, HeldInv, LockInv, TypeOK
<1>7. CASE RefreshNothing(t)
  BY <1>1, <1>7 DEF RefreshNothing, Goto, Enter, Leave, StartBuild, Caller, CallInv, HeldInv, LockInv, TypeOK
<1>8. CASE RefreshRead(t)
  BY <1>1, <1>8 DEF RefreshRead, Goto, Enter, Leave, StartBuild, Caller, CallInv, HeldInv, LockInv, TypeOK
<1>9. CASE RefreshReadFails(t)
  BY <1>1, <1>9 DEF RefreshReadFails, Goto, Enter, Leave, StartBuild, Caller, CallInv, HeldInv, LockInv, TypeOK
<1>10. CASE RefreshForget(t)
  BY <1>1, <1>10 DEF RefreshForget, Goto, Enter, Leave, StartBuild, Caller, CallInv, HeldInv, LockInv, TypeOK
<1>11. CASE ResolveHit(t)
  BY <1>1, <1>3, <1>11 DEF ResolveHit, Goto, Enter, Leave, StartBuild, Caller, CallInv, HeldInv, LockInv, TypeOK
<1>12. CASE ResolveMiss(t)
  BY <1>1, <1>2, <1>12 DEF ResolveMiss, Goto, Enter, Leave, StartBuild, Caller, CallInv, HeldInv, LockInv, TypeOK
<1>13. CASE PutCached(t)
  BY <1>1, <1>13 DEF PutCached, Goto, Enter, Leave, StartBuild, Caller, CallInv, HeldInv, LockInv, TypeOK
<1>14. CASE Release(t)
  BY <1>1, <1>14 DEF Release, Goto, Enter, Leave, StartBuild, Caller, CallInv, HeldInv, LockInv, TypeOK
<1>15. CASE Stage(t)
  BY <1>1, <1>15 DEF Stage, Goto, Enter, Leave, StartBuild, Caller, CallInv, HeldInv, LockInv, TypeOK
<1>16. CASE TakeLock(t)
  BY <1>1, <1>16 DEF TakeLock, Goto, Enter, Leave, StartBuild, Caller, CallInv, HeldInv, LockInv, TypeOK
<1>17. CASE LockTimeout(t)
  BY <1>1, <1>17 DEF LockTimeout, Goto, Enter, Leave, StartBuild, Caller, CallInv, HeldInv, LockInv, TypeOK
<1>18. CASE Commit(t)
  BY <1>1, <1>18 DEF Commit, Goto, Enter, Leave, StartBuild, Caller, CallInv, HeldInv, LockInv, TypeOK
<1>19. CASE CommitNot(t)
  BY <1>1, <1>19 DEF CommitNot, Goto, Enter, Leave, StartBuild, Caller, CallInv, HeldInv, LockInv, TypeOK
<1>20. CASE CommitNew(t)
  BY <1>1, <1>2, <1>20 DEF CommitNew, Goto, Enter, Leave, StartBuild, Caller, CallInv, HeldInv, LockInv, TypeOK
<1>21. CASE Add(t)
  BY <1>1, <1>21 DEF Add, Goto, Enter, Leave, StartBuild, Caller, CallInv, HeldInv, LockInv, TypeOK
<1>22. CASE RemoveRef(t)
  BY <1>1, <1>22 DEF RemoveRef, Goto, Enter, Leave, StartBuild, Caller, CallInv, HeldInv, LockInv, TypeOK
<1>23. CASE MergeRef(t)
  BY <1>1, <1>23 DEF MergeRef, Goto, Enter, Leave, StartBuild, Caller, CallInv, HeldInv, LockInv, TypeOK
<1>24. CASE MergeNothing(t)
  BY <1>1, <1>24 DEF MergeNothing, Goto, Enter, Leave, StartBuild, Caller, CallInv, HeldInv, LockInv, TypeOK
<1>25. CASE MergeReadBack(t)
  BY <1>1, <1>25 DEF MergeReadBack, Goto, Enter, Leave, StartBuild, Caller, CallInv, HeldInv, LockInv, TypeOK
<1>26. CASE UpdateExcerpt(t)
  BY <1>1, <1>26 DEF UpdateExcerpt, Goto, Enter, Leave, StartBuild, Caller, CallInv, HeldInv, LockInv, TypeOK
<1>27. CASE UpdateExcerptFails(t)
  BY <1>1, <1>27 DEF UpdateExcerptFails, Goto, Enter, Leave, StartBuild, Caller, CallInv, HeldInv, LockInv, TypeOK
<1>28. CASE Write(t)
  BY <1>1, <1>28 DEF Write, Goto, Enter, Leave, StartBuild, Caller, CallInv, HeldInv, LockInv, TypeOK
<1>29. CASE WriteFails(t)
  BY <1>1, <1>29 DEF WriteFails, Goto, Enter, Leave, StartBuild, Caller, CallInv, HeldInv, LockInv, TypeOK
<1>30. CASE Load(t)
  BY <1>1, <1>30 DEF Load, Of, Goto, Enter, Leave, StartBuild, Caller, CallInv, HeldInv, LockInv, TypeOK
<1>31. ASSUME NEW kind \in Kinds, Ask(t, kind)
      PROVE  (CallInv(t) /\ HeldInv(t) /\ LockInv(t))'
  BY <1>1, <1>31 DEF Ask, Goto, Enter, Leave, StartBuild, Caller, CallInv, HeldInv, LockInv, TypeOK
<1>32. QED
  BY <1>4, <1>5, <1>6, <1>7, <1>8, <1>9, <1>10, <1>11, <1>12, <1>13, <1>14, <1>15, <1>16, <1>17, <1>18, <1>19, <1>20, <1>21, <1>22, <1>23, <1>24, <1>25, <1>26, <1>27, <1>28, <1>29, <1>30, <1>31 DEF Acts, Step

\* A cache is opened by one thread of its process, alone in it.
LEMMA OpenStep ==
  ASSUME ControlInv, TypeOK', NEW t \in Thread, Acts(t)
  PROVE  \A s \in Thread : OpenInv(s)'
<1>1. /\ CallInv(t) /\ OpenInv(t) /\ TypeOK /\ ProcOf[t] \in Proc /\ Kinds \subseteq {"update", "stage", "new", "remove", "merge"}
      /\ HeldInv(t) /\ LockInv(t)
  BY DEF ControlInv
<1>2. /\ open \subseteq open'
      /\ ProcOf[t] \notin open' /\ pc'[t] # "idle" =>
           Opens(t)' /\ \A s \in Of(ProcOf[t]) : s # t => pc[s] = "idle"
      /\ Opens(t)' => ProcOf[t] \notin open'
      /\ open' \subseteq open \cup {ProcOf[t]}
      /\ open' # open /\ ProcOf[t] \notin open => pc[t] # "idle"
  <2>1. CASE BuildRead(t)
    BY <1>1, <2>1 DEF BuildRead, Goto, Enter, Leave, StartBuild, Caller, CallInv, HeldInv, LockInv, OpenInv, Opens, TypeOK
  <2>2. CASE BuildFails(t)
    BY <1>1, <2>2 DEF BuildFails, Goto, Enter, Leave, StartBuild, Caller, CallInv, HeldInv, LockInv, OpenInv, Opens, TypeOK
  <2>3. CASE RefreshList(t)
    BY <1>1, <2>3 DEF RefreshList, Goto, Enter, Leave, StartBuild, Caller, CallInv, HeldInv, LockInv, OpenInv, Opens, TypeOK
  <2>4. CASE RefreshNothing(t)
    BY <1>1, <2>4 DEF RefreshNothing, Goto, Enter, Leave, StartBuild, Caller, CallInv, HeldInv, LockInv, OpenInv, Opens, TypeOK
  <2>5. CASE RefreshRead(t)
    BY <1>1, <2>5 DEF RefreshRead, Goto, Enter, Leave, StartBuild, Caller, CallInv, HeldInv, LockInv, OpenInv, Opens, TypeOK
  <2>6. CASE RefreshReadFails(t)
    BY <1>1, <2>6 DEF RefreshReadFails, Goto, Enter, Leave, StartBuild, Caller, CallInv, HeldInv, LockInv, OpenInv, Opens, TypeOK
  <2>7. CASE RefreshForget(t)
    BY <1>1, <2>7 DEF RefreshForget, Goto, Enter, Leave, StartBuild, Caller, CallInv, HeldInv, LockInv, OpenInv, Opens, TypeOK
  <2>8. CASE ResolveHit(t)
    BY <1>1, <2>8 DEF ResolveHit, Goto, Enter, Leave, StartBuild, Caller, CallInv, HeldInv, LockInv, OpenInv, Opens, TypeOK
  <2>9. CASE ResolveMiss(t)
    BY <1>1, <2>9 DEF ResolveMiss, Goto, Enter, Leave, StartBuild, Caller, CallInv, HeldInv, LockInv, OpenInv, Opens, TypeOK
  <2>10. CASE PutCached(t)
    BY <1>1, <2>10 DEF PutCached, Goto, Enter, Leave, StartBuild, Caller, CallInv, HeldInv, LockInv, OpenInv, Opens, TypeOK
  <2>11. CASE Release(t)
    BY <1>1, <2>11 DEF Release, Goto, Enter, Leave, StartBuild, Caller, CallInv, HeldInv, LockInv, OpenInv, Opens, TypeOK
  <2>12. CASE Stage(t)
    BY <1>1, <2>12 DEF Stage, Goto, Enter, Leave, StartBuild, Caller, CallInv, HeldInv, LockInv, OpenInv, Opens, TypeOK
  <2>13. CASE TakeLock(t)
    BY <1>1, <2>13 DEF TakeLock, Goto, Enter, Leave, StartBuild, Caller, CallInv, HeldInv, LockInv, OpenInv, Opens, TypeOK
  <2>14. CASE LockTimeout(t)
    BY <1>1, <2>14 DEF LockTimeout, Goto, Enter, Leave, StartBuild, Caller, CallInv, HeldInv, LockInv, OpenInv, Opens, TypeOK
  <2>15. CASE Commit(t)
    BY <1>1, <2>15 DEF Commit, Goto, Enter, Leave, StartBuild, Caller, CallInv, HeldInv, LockInv, OpenInv, Opens, TypeOK
  <2>16. CASE CommitNot(t)
    BY <1>1, <2>16 DEF CommitNot, Goto, Enter, Leave, StartBuild, Caller, CallInv, HeldInv, LockInv, OpenInv, Opens, TypeOK
  <2>17. CASE CommitNew(t)
    BY <1>1, <2>17 DEF CommitNew, Goto, Enter, Leave, StartBuild, Caller, CallInv, HeldInv, LockInv, OpenInv, Opens, TypeOK
  <2>18. CASE Add(t)
    BY <1>1, <2>18 DEF Add, Goto, Enter, Leave, StartBuild, Caller, CallInv, HeldInv, LockInv, OpenInv, Opens, TypeOK
  <2>19. CASE RemoveRef(t)
    BY <1>1, <2>19 DEF RemoveRef, Goto, Enter, Leave, StartBuild, Caller, CallInv, HeldInv, LockInv, OpenInv, Opens, TypeOK
  <2>20. CASE MergeRef(t)
    BY <1>1, <2>20 DEF MergeRef, Goto, Enter, Leave, StartBuild, Caller, CallInv, HeldInv, LockInv, OpenInv, Opens, TypeOK
  <2>21. CASE MergeNothing(t)
    BY <1>1, <2>21 DEF MergeNothing, Goto, Enter, Leave, StartBuild, Caller, CallInv, HeldInv, LockInv, OpenInv, Opens, TypeOK
  <2>22. CASE MergeReadBack(t)
    BY <1>1, <2>22 DEF MergeReadBack, Goto, Enter, Leave, StartBuild, Caller, CallInv, HeldInv, LockInv, OpenInv, Opens, TypeOK
  <2>23. CASE UpdateExcerpt(t)
    BY <1>1, <2>23 DEF UpdateExcerpt, Goto, Enter, Leave, StartBuild, Caller, CallInv, HeldInv, LockInv, OpenInv, Opens, TypeOK
  <2>24. CASE UpdateExcerptFails(t)
    BY <1>1, <2>24 DEF UpdateExcerptFails, Goto, Enter, Leave, StartBuild, Caller, CallInv, HeldInv, LockInv, OpenInv, Opens, TypeOK
  <2>25. CASE Write(t)
    BY <1>1, <2>25 DEF Write, Goto, Enter, Leave, StartBuild, Caller, CallInv, HeldInv, LockInv, OpenInv, Opens, TypeOK
  <2>26. CASE WriteFails(t)
    BY <1>1, <2>26 DEF WriteFails, Goto, Enter, Leave, StartBuild, Caller, CallInv, HeldInv, LockInv, OpenInv, Opens, TypeOK
  <2>27. CASE Load(t)
    BY <1>1, <2>27 DEF Load, Goto, Enter, Leave, StartBuild, Caller, CallInv, HeldInv, LockInv, OpenInv, Opens, TypeOK, Of
  <2>28. CASE \E kind \in Kinds : Ask(t, kind)
    BY <1>1, <2>28 DEF Ask, Goto, Enter, Leave, StartBuild, Caller, CallInv, OpenInv, Opens, TypeOK
  <2>29. QED
    BY <2>1, <2>2, <2>3, <2>4, <2>5, <2>6, <2>7, <2>8, <2>9, <2>10, <2>11, <2>12, <2>13, <2>14, <2>15, <2>16, <2>17, <2>18, <2>19, <2>20, <2>21, <2>22, <2>23, <2>24, <2>25, <2>26, <2>27, <2>28 DEF Acts, Step
<1>3. \A s \in Thread : s # t => pc'[s] = pc[s] /\ call'[s] = call[s]
  BY OthersKept
<1>4. SUFFICES ASSUME NEW s \in Thread
               PROVE  OpenInv(s)'
  OBVIOUS
<1>5. CASE s = t
  BY <1>2, <1>3, <1>5 DEF OpenInv, Of
<1>6. CASE s # t
  <2>1. OpenInv(s) /\ OpenInv(t) /\ pc'[s] = pc[s] /\ call'[s] = call[s]
    BY <1>3, <1>6 DEF ControlInv
  <2>2. ASSUME Opens(s)
        PROVE  ProcOf[s] \notin open'
    <3>1. ProcOf[s] \notin open /\ pc[s] # "idle"
      BY <2>1, <2>2 DEF OpenInv, ControlInv, CallInv, Opens
    <3>2. ProcOf[s] = ProcOf[t] => pc[t] = "idle"
      BY <1>6, <2>1, <3>1 DEF OpenInv, Of
    <3>3. QED
      BY <1>2, <3>1, <3>2
  <2>3. ASSUME ProcOf[s] \notin open', pc[s] # "idle"
        PROVE  Opens(s) /\ \A u \in Of(ProcOf[s]) : u # s => pc'[u] = "idle"
    <3>1. ProcOf[s] \notin open /\ Opens(s) /\ \A u \in Of(ProcOf[s]) : u # s => pc[u] = "idle"
      BY <1>2, <2>1, <2>3 DEF OpenInv
    <3>2. ProcOf[s] = ProcOf[t] => pc'[t] = "idle"
      BY <1>2, <1>6, <2>3 DEF Of
    <3>3. QED
      BY <1>3, <3>1, <3>2 DEF Of
  <2>4. QED
    BY <2>1, <2>2, <2>3 DEF OpenInv, Opens, Of
<1>7. QED
  BY <1>5, <1>6

\* The ref stands at the last commit or is gone, and the lock excludes the rest.
LEMMA TipStep ==
  ASSUME ControlInv, TypeOK', NEW t \in Thread, Acts(t)
  PROVE  /\ TipInv' /\ commits <= commits'
         /\ UNCHANGED refVars \/ (pc[t] = "locked" /\ lock = t /\ call[t] \in Kinds)
<1>1. /\ TypeOK /\ TipInv /\ ProcOf[t] \in Proc /\ LockInv(t) /\ CallInv(t)
      /\ commits \in Nat /\ commits' \in Nat /\ \A page \in pages : page.noted \in Nat
  BY DEF ControlInv, TypeOK, Page
<1>2. CASE BuildRead(t)
  BY <1>1, <1>2 DEF BuildRead, Goto, Enter, Leave, StartBuild, Caller, TypeOK, TipInv, PageOf, LockInv, CallInv
<1>3. CASE BuildFails(t)
  BY <1>1, <1>3 DEF BuildFails, Goto, Enter, Leave, StartBuild, Caller, TypeOK, TipInv, PageOf, LockInv, CallInv
<1>4. CASE RefreshList(t)
  BY <1>1, <1>4 DEF RefreshList, Goto, Enter, Leave, StartBuild, Caller, TypeOK, TipInv, PageOf, LockInv, CallInv
<1>5. CASE RefreshNothing(t)
  BY <1>1, <1>5 DEF RefreshNothing, Goto, Enter, Leave, StartBuild, Caller, TypeOK, TipInv, PageOf, LockInv, CallInv
<1>6. CASE RefreshRead(t)
  BY <1>1, <1>6 DEF RefreshRead, Goto, Enter, Leave, StartBuild, Caller, TypeOK, TipInv, PageOf, LockInv, CallInv
<1>7. CASE RefreshReadFails(t)
  BY <1>1, <1>7 DEF RefreshReadFails, Goto, Enter, Leave, StartBuild, Caller, TypeOK, TipInv, PageOf, LockInv, CallInv
<1>8. CASE RefreshForget(t)
  BY <1>1, <1>8 DEF RefreshForget, Goto, Enter, Leave, StartBuild, Caller, TypeOK, TipInv, PageOf, LockInv, CallInv
<1>9. CASE ResolveHit(t)
  BY <1>1, <1>9 DEF ResolveHit, Goto, Enter, Leave, StartBuild, Caller, TypeOK, TipInv, PageOf, LockInv, CallInv
<1>10. CASE ResolveMiss(t)
  BY <1>1, <1>10 DEF ResolveMiss, Goto, Enter, Leave, StartBuild, Caller, TypeOK, TipInv, PageOf, LockInv, CallInv
<1>11. CASE PutCached(t)
  BY <1>1, <1>11 DEF PutCached, Goto, Enter, Leave, StartBuild, Caller, TypeOK, TipInv, PageOf, LockInv, CallInv
<1>12. CASE Release(t)
  BY <1>1, <1>12 DEF Release, Goto, Enter, Leave, StartBuild, Caller, TypeOK, TipInv, PageOf, LockInv, CallInv
<1>13. CASE Stage(t)
  BY <1>1, <1>13 DEF Stage, Goto, Enter, Leave, StartBuild, Caller, TypeOK, TipInv, PageOf, LockInv, CallInv
<1>14. CASE TakeLock(t)
  BY <1>1, <1>14 DEF TakeLock, Goto, Enter, Leave, StartBuild, Caller, TypeOK, TipInv, PageOf, LockInv, CallInv
<1>15. CASE LockTimeout(t)
  BY <1>1, <1>15 DEF LockTimeout, Goto, Enter, Leave, StartBuild, Caller, TypeOK, TipInv, PageOf, LockInv, CallInv
<1>16. CASE Commit(t)
  BY <1>1, <1>16 DEF Commit, Goto, Enter, Leave, StartBuild, Caller, TypeOK, TipInv, PageOf, LockInv, CallInv
<1>17. CASE CommitNot(t)
  BY <1>1, <1>17 DEF CommitNot, Goto, Enter, Leave, StartBuild, Caller, TypeOK, TipInv, PageOf, LockInv, CallInv
<1>18. CASE CommitNew(t)
  BY <1>1, <1>18 DEF CommitNew, Goto, Enter, Leave, StartBuild, Caller, TypeOK, TipInv, PageOf, LockInv, CallInv
<1>19. CASE Add(t)
  BY <1>1, <1>19 DEF Add, Goto, Enter, Leave, StartBuild, Caller, TypeOK, TipInv, PageOf, LockInv, CallInv
<1>20. CASE RemoveRef(t)
  BY <1>1, <1>20 DEF RemoveRef, Goto, Enter, Leave, StartBuild, Caller, TypeOK, TipInv, PageOf, LockInv, CallInv
<1>21. CASE MergeRef(t)
  BY <1>1, <1>21 DEF MergeRef, Goto, Enter, Leave, StartBuild, Caller, TypeOK, TipInv, PageOf, LockInv, CallInv
<1>22. CASE MergeNothing(t)
  BY <1>1, <1>22 DEF MergeNothing, Goto, Enter, Leave, StartBuild, Caller, TypeOK, TipInv, PageOf, LockInv, CallInv
<1>23. CASE MergeReadBack(t)
  BY <1>1, <1>23 DEF MergeReadBack, Goto, Enter, Leave, StartBuild, Caller, TypeOK, TipInv, PageOf, LockInv, CallInv
<1>24. CASE UpdateExcerpt(t)
  BY <1>1, <1>24 DEF UpdateExcerpt, Goto, Enter, Leave, StartBuild, Caller, TypeOK, TipInv, PageOf, LockInv, CallInv
<1>25. CASE UpdateExcerptFails(t)
  BY <1>1, <1>25 DEF UpdateExcerptFails, Goto, Enter, Leave, StartBuild, Caller, TypeOK, TipInv, PageOf, LockInv, CallInv
<1>26. CASE Write(t)
  BY <1>1, <1>26 DEF Write, Goto, Enter, Leave, StartBuild, Caller, TypeOK, TipInv, PageOf, LockInv, CallInv
<1>27. CASE WriteFails(t)
  BY <1>1, <1>27 DEF WriteFails, Goto, Enter, Leave, StartBuild, Caller, TypeOK, TipInv, PageOf, LockInv, CallInv
<1>28. CASE Load(t)
  BY <1>1, <1>28 DEF Load, Goto, Enter, Leave, StartBuild, Caller, TypeOK, TipInv, PageOf, LockInv, CallInv
<1>29. CASE \E kind \in Kinds : Ask(t, kind)
  BY <1>1, <1>29 DEF Ask, Goto, Enter, Leave, StartBuild, Caller, TipInv
<1>30. QED
  BY <1>2, <1>3, <1>4, <1>5, <1>6, <1>7, <1>8, <1>9, <1>10, <1>11, <1>12, <1>13, <1>14, <1>15, <1>16, <1>17, <1>18, <1>19, <1>20, <1>21, <1>22, <1>23, <1>24, <1>25, <1>26, <1>27, <1>28, <1>29 DEF Acts, Step

\* A process ends, and takes nothing with it but its memory.
LEMMA CrashControl ==
  ASSUME ControlInv, NEW p \in Proc, Crash(p)
  PROVE  /\ TypeOK' /\ TipInv'
         /\ \A t \in Thread : (CallInv(t) /\ HeldInv(t) /\ LockInv(t) /\ OpenInv(t))'
<1>1. TypeOK /\ TipInv /\ commits \in Nat /\ PageOf(p) \in Page /\ Read(0) \in Content /\ PageOf(p).noted \in 0..commits
  <2>1. TypeOK /\ TipInv /\ commits \in Nat /\ PageOf(p).noted \in 0..commits
    BY DEF ControlInv, TypeOK, PageOf
  <2>2. PageOf(p) \in Page /\ Read(0) \in Content
    BY <2>1, Contents
  <2>3. QED
    BY <2>1, <2>2
<1>2. TypeOK'
  BY <1>1 DEF Crash, TypeOK
<1>3. TipInv'
  BY <1>1 DEF Crash, TipInv
<1>4. ASSUME NEW t \in Thread
      PROVE  (CallInv(t) /\ HeldInv(t) /\ LockInv(t) /\ OpenInv(t))'
  <2>1. CallInv(t) /\ HeldInv(t) /\ LockInv(t) /\ OpenInv(t)
    BY DEF ControlInv
  <2>2. CASE t \in Of(p)
    <3>1. pc'[t] = "idle" /\ call'[t] = "none" /\ cur'[t] = None /\ lock' # t
      BY <1>1, <2>2 DEF Crash
    <3>2. QED
      BY <3>1 DEF CallInv, HeldInv, LockInv, OpenInv, Opens
  <2>3. CASE t \notin Of(p)
    <3>1. /\ pc'[t] = pc[t] /\ call'[t] = call[t] /\ cur'[t] = cur[t]
          /\ lock' = t <=> lock = t
      BY <2>3 DEF Crash
    <3>2. CallInv(t)' /\ HeldInv(t)' /\ LockInv(t)'
      BY <2>1, <3>1 DEF CallInv, HeldInv, LockInv
    <3>3. ProcOf[t] # p /\ open' = open \ {p} /\ \A s \in Of(ProcOf[t]) : pc'[s] = pc[s]
      BY <2>3 DEF Crash, Of
    <3>4. OpenInv(t)'
      BY <2>1, <3>1, <3>3 DEF OpenInv, Opens, Of
    <3>5. QED
      BY <3>2, <3>4
  <2>4. QED
    BY <2>2, <2>3
<1>5. QED
  BY <1>2, <1>3, <1>4

\* What a process caches after a step, and what its other threads may have.
LEMMA CachedStep ==
  ASSUME ControlInv, NEW t \in Thread, Acts(t)
  PROVE  /\ cached' \in [Proc -> Inst \cup {None}]
         /\ \A q \in Proc : q # ProcOf[t] => cached'[q] = cached[q]
         /\ CachedInv'
<1>1. /\ TypeOK /\ CallInv(t) /\ HeldInv(t) /\ CachedInv /\ ProcOf[t] \in Proc /\ cur[t] \in Inst \cup {None}
      /\ cached \in [Proc -> Inst \cup {None}]
  BY DEF ControlInv, TypeOK
<1>2. cur[t] = None /\ (t \notin Watcher \/ Opens(t)) =>
        Fresh(ProcOf[t]) \in Inst /\ ProcOf[Fresh(ProcOf[t])] = ProcOf[t]
  BY FreshCaller
<1>3. call[t] = "merge" => t \notin Watcher
  BY <1>1 DEF HeldInv, TypeOK
<1>4. CASE BuildRead(t)
  BY <1>1, <1>2, <1>3, <1>4 DEF BuildRead, Goto, Enter, Leave, StartBuild, Caller, CallInv, HeldInv, CachedInv, Opens
<1>5. CASE BuildFails(t)
  BY <1>1, <1>5 DEF BuildFails, Goto, Enter, Leave, StartBuild, Caller, CallInv, HeldInv, CachedInv, Opens
<1>6. CASE RefreshList(t)
  BY <1>1, <1>6 DEF RefreshList, Goto, Enter, Leave, StartBuild, Caller, CallInv, HeldInv, CachedInv, Opens
<1>7. CASE RefreshNothing(t)
  BY <1>1, <1>7 DEF RefreshNothing, Goto, Enter, Leave, StartBuild, Caller, CallInv, HeldInv, CachedInv, Opens
<1>8. CASE RefreshRead(t)
  BY <1>1, <1>8 DEF RefreshRead, Goto, Enter, Leave, StartBuild, Caller, CallInv, HeldInv, CachedInv, Opens
<1>9. CASE RefreshReadFails(t)
  BY <1>1, <1>9 DEF RefreshReadFails, Goto, Enter, Leave, StartBuild, Caller, CallInv, HeldInv, CachedInv, Opens
<1>10. CASE RefreshForget(t)
  BY <1>1, <1>10 DEF RefreshForget, Goto, Enter, Leave, StartBuild, Caller, CallInv, HeldInv, CachedInv, Opens
<1>11. CASE ResolveHit(t)
  BY <1>1, <1>11 DEF ResolveHit, Goto, Enter, Leave, StartBuild, Caller, CallInv, HeldInv, CachedInv, Opens
<1>12. CASE ResolveMiss(t)
  BY <1>1, <1>12 DEF ResolveMiss, Goto, Enter, Leave, StartBuild, Caller, CallInv, HeldInv, CachedInv, Opens
<1>13. CASE PutCached(t)
  BY <1>1, <1>13 DEF PutCached, Goto, Enter, Leave, StartBuild, Caller, CallInv, HeldInv, CachedInv, Opens
<1>14. CASE Release(t)
  BY <1>1, <1>14 DEF Release, Goto, Enter, Leave, StartBuild, Caller, CallInv, HeldInv, CachedInv, Opens
<1>15. CASE Stage(t)
  BY <1>1, <1>15 DEF Stage, Goto, Enter, Leave, StartBuild, Caller, CallInv, HeldInv, CachedInv, Opens
<1>16. CASE TakeLock(t)
  BY <1>1, <1>16 DEF TakeLock, Goto, Enter, Leave, StartBuild, Caller, CallInv, HeldInv, CachedInv, Opens
<1>17. CASE LockTimeout(t)
  BY <1>1, <1>17 DEF LockTimeout, Goto, Enter, Leave, StartBuild, Caller, CallInv, HeldInv, CachedInv, Opens
<1>18. CASE Commit(t)
  BY <1>1, <1>18 DEF Commit, Goto, Enter, Leave, StartBuild, Caller, CallInv, HeldInv, CachedInv, Opens
<1>19. CASE CommitNot(t)
  BY <1>1, <1>19 DEF CommitNot, Goto, Enter, Leave, StartBuild, Caller, CallInv, HeldInv, CachedInv, Opens
<1>20. CASE CommitNew(t)
  BY <1>1, <1>20 DEF CommitNew, Goto, Enter, Leave, StartBuild, Caller, CallInv, HeldInv, CachedInv, Opens
<1>21. CASE Add(t)
  BY <1>1, <1>21 DEF Add, Goto, Enter, Leave, StartBuild, Caller, CallInv, HeldInv, CachedInv, Opens
<1>22. CASE RemoveRef(t)
  BY <1>1, <1>22 DEF RemoveRef, Goto, Enter, Leave, StartBuild, Caller, CallInv, HeldInv, CachedInv, Opens
<1>23. CASE MergeRef(t)
  BY <1>1, <1>23 DEF MergeRef, Goto, Enter, Leave, StartBuild, Caller, CallInv, HeldInv, CachedInv, Opens
<1>24. CASE MergeNothing(t)
  BY <1>1, <1>24 DEF MergeNothing, Goto, Enter, Leave, StartBuild, Caller, CallInv, HeldInv, CachedInv, Opens
<1>25. CASE MergeReadBack(t)
  BY <1>1, <1>2, <1>3, <1>25 DEF MergeReadBack, Goto, Enter, Leave, StartBuild, Caller, CallInv, HeldInv, CachedInv, Opens
<1>26. CASE UpdateExcerpt(t)
  BY <1>1, <1>26 DEF UpdateExcerpt, Goto, Enter, Leave, StartBuild, Caller, CallInv, HeldInv, CachedInv, Opens
<1>27. CASE UpdateExcerptFails(t)
  BY <1>1, <1>27 DEF UpdateExcerptFails, Goto, Enter, Leave, StartBuild, Caller, CallInv, HeldInv, CachedInv, Opens
<1>28. CASE Write(t)
  BY <1>1, <1>28 DEF Write, Goto, Enter, Leave, StartBuild, Caller, CallInv, HeldInv, CachedInv, Opens
<1>29. CASE WriteFails(t)
  BY <1>1, <1>29 DEF WriteFails, Goto, Enter, Leave, StartBuild, Caller, CallInv, HeldInv, CachedInv, Opens
<1>30. CASE Load(t)
  BY <1>1, <1>30 DEF Load, Goto, Enter, Leave, StartBuild, Caller, CallInv, HeldInv, CachedInv, Opens
<1>31. CASE \E kind \in Kinds : Ask(t, kind)
  BY <1>1, <1>31 DEF Ask, CachedInv
<1>32. QED
  BY <1>4, <1>5, <1>6, <1>7, <1>8, <1>9, <1>10, <1>11, <1>12, <1>13, <1>14, <1>15, <1>16, <1>17, <1>18, <1>19, <1>20, <1>21, <1>22, <1>23, <1>24, <1>25, <1>26, <1>27, <1>28, <1>29, <1>30, <1>31 DEF Acts, Step

\* The control of the calls, after any step.
LEMMA ControlStep ==
  ASSUME ControlInv, [Next]_vars
  PROVE  ControlInv'
<1>1. ASSUME NEW t \in Thread, Acts(t)
      PROVE  ControlInv'
  <2>1. TypeOK'
    BY <1>1, TypeOfStep
  <2>2. ASSUME NEW s \in Thread, s # t
        PROVE  (CallInv(s) /\ HeldInv(s) /\ LockInv(s))'
    <3>1. /\ pc'[s] = pc[s] /\ call'[s] = call[s] /\ cur'[s] = cur[s]
          /\ lock' = s <=> lock = s
      BY <1>1, <2>2, OthersKept
    <3>2. CallInv(s) /\ HeldInv(s) /\ LockInv(s)
      BY DEF ControlInv
    <3>3. QED
      BY <3>1, <3>2 DEF CallInv, HeldInv, LockInv
  <2>3. QED
    BY <1>1, <2>1, <2>2, OwnControl, OpenStep, TipStep, CachedStep DEF ControlInv
<1>2. ASSUME NEW p \in Proc, Crash(p)
      PROVE  ControlInv'
  <2>1. CachedInv'
    BY <1>2 DEF Crash, ControlInv, TypeOK, CachedInv
  <2>2. QED
    BY <1>2, <2>1, CrashControl DEF ControlInv
<1>3. CASE UNCHANGED vars
  BY <1>3 DEF vars, ControlInv, TypeOK, TipInv, CachedInv, CallInv, HeldInv, LockInv, OpenInv, Opens, Of
<1>4. QED
  BY <1>1, <1>2, <1>3 DEF Next, Acts

-----------------------------------------------------------------------------
(* What a process has is not older than what it was told.                  *)

\* Beside a thread that has an instance there are only watchers.
LEMMA Single ==
  ASSUME OneCaller, ControlInv, NEW s \in Thread, NEW t \in Thread, s # t,
         ProcOf[s] = ProcOf[t], cur[s] # None \/ call[s] \in Kinds
  PROVE  t \in Watcher /\ cur[t] = None /\ call[t] \notin Kinds /\ s \notin Watcher
<1>1. HeldInv(s) /\ HeldInv(t) /\ ProcOf[s] \in Proc
  BY DEF ControlInv
<1>2. s \in Callers(ProcOf[s])
  BY <1>1 DEF HeldInv, Callers
<1>3. t \notin Callers(ProcOf[s])
  BY <1>1, <1>2 DEF OneCaller
<1>4. QED
  BY <1>1, <1>2, <1>3 DEF HeldInv, Callers

\* A step of one process leaves what the others have.
LEMMA OtherProcess ==
  ASSUME ControlInv, NEW t \in Thread, Acts(t), NEW q \in Proc, q # ProcOf[t]
  PROVE  /\ excerpt'[q] = excerpt[q] /\ noted'[q] = noted[q] /\ cached'[q] = cached[q]
         /\ told'[q] = told[q] /\ (q \in open' <=> q \in open)
         /\ \A x \in Inst : ProcOf[x] = q => inst'[x] = inst[x]
<1>1. /\ excerpt \in [Proc -> Excerpt \cup {None}] /\ noted \in [Proc -> 0..commits]
      /\ cached \in [Proc -> Inst \cup {None}] /\ inst \in [Inst -> Content]
      /\ told \in [Proc -> 0..commits] /\ open \subseteq Proc
      /\ CallInv(t) /\ HeldInv(t) /\ ProcOf[t] \in Proc
      /\ call[t] = "merge" => t \notin Watcher
  BY DEF ControlInv, TypeOK, HeldInv
<1>2. cur[t] = None /\ (t \notin Watcher \/ Opens(t)) =>
        Fresh(ProcOf[t]) \in Inst /\ ProcOf[Fresh(ProcOf[t])] = ProcOf[t]
  BY FreshCaller
<1>3. CASE BuildRead(t)
  BY <1>1, <1>2, <1>3 DEF BuildRead, Goto, Enter, Leave, StartBuild, Caller, Opens, CallInv, HeldInv
<1>4. CASE BuildFails(t)
  BY <1>1, <1>4 DEF BuildFails, Goto, Enter, Leave, StartBuild, Caller
<1>5. CASE RefreshList(t)
  BY <1>1, <1>5 DEF RefreshList, Goto, Enter, Leave, StartBuild, Caller
<1>6. CASE RefreshNothing(t)
  BY <1>1, <1>6 DEF RefreshNothing, Goto, Enter, Leave, StartBuild, Caller
<1>7. CASE RefreshRead(t)
  BY <1>1, <1>7 DEF RefreshRead, Goto, Enter, Leave, StartBuild, Caller, Swept
<1>8. CASE RefreshReadFails(t)
  BY <1>1, <1>8 DEF RefreshReadFails, Goto, Enter, Leave, StartBuild, Caller
<1>9. CASE RefreshForget(t)
  BY <1>1, <1>9 DEF RefreshForget, Goto, Enter, Leave, StartBuild, Caller, Swept
<1>10. CASE ResolveHit(t)
  BY <1>1, <1>10 DEF ResolveHit, Goto, Enter, Leave, StartBuild, Caller
<1>11. CASE ResolveMiss(t)
  BY <1>1, <1>2, <1>11 DEF ResolveMiss, Goto, Enter, Leave, StartBuild, Caller, Opens, CallInv, HeldInv
<1>12. CASE PutCached(t)
  BY <1>1, <1>12 DEF PutCached, Goto, Enter, Leave, StartBuild, Caller
<1>13. CASE Release(t)
  BY <1>1, <1>13 DEF Release, Goto, Enter, Leave, StartBuild, Caller, Swept
<1>14. CASE Stage(t)
  BY <1>1, <1>14 DEF Stage, Goto, Enter, Leave, StartBuild, Caller, CallInv, HeldInv
<1>15. CASE TakeLock(t)
  BY <1>1, <1>15 DEF TakeLock, Goto, Enter, Leave, StartBuild, Caller
<1>16. CASE LockTimeout(t)
  BY <1>1, <1>16 DEF LockTimeout, Goto, Enter, Leave, StartBuild, Caller
<1>17. CASE Commit(t)
  BY <1>1, <1>17 DEF Commit, Goto, Enter, Leave, StartBuild, Caller, CallInv, HeldInv
<1>18. CASE CommitNot(t)
  BY <1>1, <1>18 DEF CommitNot, Goto, Enter, Leave, StartBuild, Caller, CallInv, HeldInv
<1>19. CASE CommitNew(t)
  BY <1>1, <1>2, <1>19 DEF CommitNew, Goto, Enter, Leave, StartBuild, Caller, Opens, CallInv, HeldInv
<1>20. CASE Add(t)
  BY <1>1, <1>20 DEF Add, Goto, Enter, Leave, StartBuild, Caller, Swept
<1>21. CASE RemoveRef(t)
  BY <1>1, <1>21 DEF RemoveRef, Goto, Enter, Leave, StartBuild, Caller, Swept
<1>22. CASE MergeRef(t)
  BY <1>1, <1>22 DEF MergeRef, Goto, Enter, Leave, StartBuild, Caller
<1>23. CASE MergeNothing(t)
  BY <1>1, <1>23 DEF MergeNothing, Goto, Enter, Leave, StartBuild, Caller
<1>24. CASE MergeReadBack(t)
  BY <1>1, <1>2, <1>24 DEF MergeReadBack, Goto, Enter, Leave, StartBuild, Caller, Opens, CallInv, HeldInv, Swept
<1>25. CASE UpdateExcerpt(t)
  BY <1>1, <1>25 DEF UpdateExcerpt, Goto, Enter, Leave, StartBuild, Caller
<1>26. CASE UpdateExcerptFails(t)
  BY <1>1, <1>26 DEF UpdateExcerptFails, Goto, Enter, Leave, StartBuild, Caller
<1>27. CASE Write(t)
  BY <1>1, <1>27 DEF Write, Goto, Enter, Leave, StartBuild, Caller
<1>28. CASE WriteFails(t)
  BY <1>1, <1>28 DEF WriteFails, Goto, Enter, Leave, StartBuild, Caller
<1>29. CASE Load(t)
  BY <1>1, <1>29 DEF Load, Goto, Enter, Leave, StartBuild, Caller
<1>30. CASE \E kind \in Kinds : Ask(t, kind)
  BY <1>1, <1>30 DEF Ask
<1>31. QED
  BY <1>3, <1>4, <1>5, <1>6, <1>7, <1>8, <1>9, <1>10, <1>11, <1>12, <1>13, <1>14, <1>15, <1>16, <1>17, <1>18, <1>19, <1>20, <1>21, <1>22, <1>23, <1>24, <1>25, <1>26, <1>27, <1>28, <1>29, <1>30 DEF Acts, Step

\* Nobody writes into an instance that another has.
LEMMA InstKept ==
  ASSUME OneCaller, ControlInv, NEW t \in Thread, Acts(t),
         NEW s \in Thread, s # t, cur[s] # None
  PROVE  cur'[s] = cur[s] /\ inst'[cur[s]] = inst[cur[s]]
<1>1. /\ CallInv(t) /\ HeldInv(t) /\ HeldInv(s) /\ ProcOf[t] \in Proc /\ cur[s] \in Inst
      /\ inst \in [Inst -> Content] /\ ProcOf[cur[s]] = ProcOf[s]
      /\ call[t] = "merge" => t \notin Watcher
  BY DEF ControlInv, TypeOK, HeldInv
<1>2. cur[t] = None /\ (t \notin Watcher \/ Opens(t)) => cur[s] # Fresh(ProcOf[t])
  BY FreshCaller
<1>3. cur[t] # None => cur[t] # cur[s]
  BY <1>1, Single DEF HeldInv
<1>4. cur[s] \in Held(Of(ProcOf[t]) \ {t}) \/ ProcOf[cur[s]] # ProcOf[t]
  BY <1>1 DEF Held, Of
<1>5. cur[s] \in Held(Of(ProcOf[t])) \/ ProcOf[cur[s]] # ProcOf[t]
  BY <1>1 DEF Held, Of
<1>6. cur'[s] = cur[s]
  BY OthersKept
<1>7. inst'[cur[s]] = inst[cur[s]]
  <2>1. CASE BuildRead(t)
    BY <1>1, <1>2, <2>1 DEF BuildRead, Goto, Enter, Leave, StartBuild, Caller, Opens, CallInv, HeldInv
  <2>2. CASE BuildFails(t)
    BY <1>1, <2>2 DEF BuildFails, Goto, Enter, Leave, StartBuild, Caller
  <2>3. CASE RefreshList(t)
    BY <1>1, <2>3 DEF RefreshList, Goto, Enter, Leave, StartBuild, Caller
  <2>4. CASE RefreshNothing(t)
    BY <1>1, <2>4 DEF RefreshNothing, Goto, Enter, Leave, StartBuild, Caller
  <2>5. CASE RefreshRead(t)
    BY <1>1, <1>5, <2>5 DEF RefreshRead, Goto, Enter, Leave, StartBuild, Caller, Swept
  <2>6. CASE RefreshReadFails(t)
    BY <1>1, <2>6 DEF RefreshReadFails, Goto, Enter, Leave, StartBuild, Caller
  <2>7. CASE RefreshForget(t)
    BY <1>1, <1>5, <2>7 DEF RefreshForget, Goto, Enter, Leave, StartBuild, Caller, Swept
  <2>8. CASE ResolveHit(t)
    BY <1>1, <2>8 DEF ResolveHit, Goto, Enter, Leave, StartBuild, Caller
  <2>9. CASE ResolveMiss(t)
    BY <1>1, <1>2, <2>9 DEF ResolveMiss, Goto, Enter, Leave, StartBuild, Caller, Opens, CallInv, HeldInv
  <2>10. CASE PutCached(t)
    BY <1>1, <2>10 DEF PutCached, Goto, Enter, Leave, StartBuild, Caller
  <2>11. CASE Release(t)
    BY <1>1, <1>4, <2>11 DEF Release, Goto, Enter, Leave, StartBuild, Caller, Swept
  <2>12. CASE Stage(t)
    BY <1>1, <1>3, <2>12 DEF Stage, Goto, Enter, Leave, StartBuild, Caller, CallInv
  <2>13. CASE TakeLock(t)
    BY <1>1, <2>13 DEF TakeLock, Goto, Enter, Leave, StartBuild, Caller
  <2>14. CASE LockTimeout(t)
    BY <1>1, <2>14 DEF LockTimeout, Goto, Enter, Leave, StartBuild, Caller
  <2>15. CASE Commit(t)
    BY <1>1, <1>3, <2>15 DEF Commit, Goto, Enter, Leave, StartBuild, Caller, CallInv
  <2>16. CASE CommitNot(t)
    BY <1>1, <1>3, <2>16 DEF CommitNot, Goto, Enter, Leave, StartBuild, Caller, CallInv
  <2>17. CASE CommitNew(t)
    BY <1>1, <1>2, <2>17 DEF CommitNew, Goto, Enter, Leave, StartBuild, Caller, Opens, CallInv, HeldInv
  <2>18. CASE Add(t)
    BY <1>1, <1>4, <2>18 DEF Add, Goto, Enter, Leave, StartBuild, Caller, Swept
  <2>19. CASE RemoveRef(t)
    BY <1>1, <1>5, <2>19 DEF RemoveRef, Goto, Enter, Leave, StartBuild, Caller, Swept
  <2>20. CASE MergeRef(t)
    BY <1>1, <2>20 DEF MergeRef, Goto, Enter, Leave, StartBuild, Caller
  <2>21. CASE MergeNothing(t)
    BY <1>1, <2>21 DEF MergeNothing, Goto, Enter, Leave, StartBuild, Caller
  <2>22. CASE MergeReadBack(t)
    BY <1>1, <1>2, <1>5, <2>22 DEF MergeReadBack, Goto, Enter, Leave, StartBuild, Caller, Opens, CallInv, HeldInv, Swept
  <2>23. CASE UpdateExcerpt(t)
    BY <1>1, <2>23 DEF UpdateExcerpt, Goto, Enter, Leave, StartBuild, Caller
  <2>24. CASE UpdateExcerptFails(t)
    BY <1>1, <2>24 DEF UpdateExcerptFails, Goto, Enter, Leave, StartBuild, Caller
  <2>25. CASE Write(t)
    BY <1>1, <2>25 DEF Write, Goto, Enter, Leave, StartBuild, Caller
  <2>26. CASE WriteFails(t)
    BY <1>1, <2>26 DEF WriteFails, Goto, Enter, Leave, StartBuild, Caller
  <2>27. CASE Load(t)
    BY <1>1, <2>27 DEF Load, Goto, Enter, Leave, StartBuild, Caller
  <2>28. CASE \E kind \in Kinds : Ask(t, kind)
    BY <2>28 DEF Ask
  <2>29. QED
    BY <2>1, <2>2, <2>3, <2>4, <2>5, <2>6, <2>7, <2>8, <2>9, <2>10, <2>11, <2>12, <2>13, <2>14, <2>15, <2>16, <2>17, <2>18, <2>19, <2>20, <2>21, <2>22, <2>23, <2>24, <2>25, <2>26, <2>27, <2>28 DEF Acts, Step
<1>8. QED
  BY <1>6, <1>7

\* One caller does not get a second instance.
LEMMA OneInstanceStep ==
  ASSUME OneCaller, CacheInv, NEW t \in Thread, Acts(t)
  PROVE  OneInstance'
<1>1. /\ TypeOK /\ CallInv(t) /\ HeldInv(t) /\ OpenInv(t) /\ OneInstance /\ ProcOf[t] \in Proc /\ TipInv
      /\ cached \in [Proc -> Inst \cup {None}] /\ cur \in [Thread -> Inst \cup {None}]
      /\ ControlInv /\ (call[t] = "merge" => t \notin Watcher) /\ commits \in Nat /\ tip \in 0..commits
      /\ pc[t] = "merged" => tip # 0
  BY DEF CacheInv, ControlInv, TypeOK, HeldInv, ToldInv
<1>2. \A s \in Thread : s # t /\ ProcOf[s] = ProcOf[t] /\ cur[s] # None =>
        /\ t \in Watcher /\ cur[t] = None /\ call[t] \notin Kinds
        /\ ProcOf[t] \in open
  <2>1. \A s \in Thread : s # t /\ ProcOf[s] = ProcOf[t] /\ cur[s] # None => t \in Watcher /\ cur[t] = None /\ call[t] \notin Kinds
    BY <1>1, Single
  <2>2. \A s \in Thread : cur[s] # None => ProcOf[s] \in open
    BY <1>1 DEF ControlInv, OpenInv, CallInv, Opens
  <2>3. QED
    BY <2>1, <2>2
<1>3. \A s \in Thread : s # t => cur'[s] = cur[s]
  BY <1>1, OthersKept
<1>4. \A q \in Proc : q # ProcOf[t] => cached'[q] = cached[q]
  BY <1>1, CachedStep
<1>5. /\ cur' \in [Thread -> Inst \cup {None}] /\ cached' \in [Proc -> Inst \cup {None}]
      /\ commits <= commits' /\ commits' \in Nat
  BY <1>1, TypeOfStep, TipStep DEF TypeOK
<1>6. CASE BuildRead(t)
  <2>1. UNCHANGED <<tip, commits, cur, open>> /\ (cached' = cached \/ (ProcOf[t] \notin open /\ tip # 0))
    <3>1. call[t] = "build" /\ ProcOf[t] \notin open
      BY <1>1, <1>6 DEF BuildRead, OpenInv, Opens
    <3>2. tip' = tip /\ commits' = commits /\ cur' = cur /\ open' = open
      BY <1>6 DEF BuildRead, Goto
    <3>3. cached' = cached \/ tip # 0
      BY <1>6 DEF BuildRead
    <3>4. QED
      BY <3>1, <3>2, <3>3
  <2>4. tip # 0 => commits # 0
    BY <1>1
  <2>2. \A s \in Thread : cur[s] # None /\ ProcOf[s] = ProcOf[t] => ProcOf[t] \in open
    BY <1>1 DEF ControlInv, OpenInv, CallInv, Opens
  <2>3. QED
    BY <1>1, <1>3, <1>4, <1>5, <2>1, <2>2, <2>4 DEF OneInstance
<1>7. CASE BuildFails(t)
  BY <1>1, <1>2, <1>3, <1>4, <1>5, <1>7 DEF BuildFails, Goto, Enter, Leave, StartBuild, Caller, CallInv, HeldInv, OpenInv, Opens, OneInstance
<1>8. CASE RefreshList(t)
  BY <1>1, <1>2, <1>3, <1>4, <1>5, <1>8 DEF RefreshList, Goto, Enter, Leave, StartBuild, Caller, CallInv, HeldInv, OpenInv, Opens, OneInstance
<1>9. CASE RefreshNothing(t)
  BY <1>1, <1>2, <1>3, <1>4, <1>5, <1>9 DEF RefreshNothing, Goto, Enter, Leave, StartBuild, Caller, CallInv, HeldInv, OpenInv, Opens, OneInstance
<1>10. CASE RefreshRead(t)
  BY <1>1, <1>2, <1>3, <1>4, <1>5, <1>10 DEF RefreshRead, Goto, Enter, Leave, StartBuild, Caller, CallInv, HeldInv, OpenInv, Opens, OneInstance
<1>11. CASE RefreshReadFails(t)
  BY <1>1, <1>2, <1>3, <1>4, <1>5, <1>11 DEF RefreshReadFails, Goto, Enter, Leave, StartBuild, Caller, CallInv, HeldInv, OpenInv, Opens, OneInstance
<1>12. CASE RefreshForget(t)
  BY <1>1, <1>2, <1>3, <1>4, <1>5, <1>12 DEF RefreshForget, Goto, Enter, Leave, StartBuild, Caller, CallInv, HeldInv, OpenInv, Opens, OneInstance
<1>13. CASE ResolveHit(t)
  BY <1>1, <1>2, <1>3, <1>4, <1>5, <1>13 DEF ResolveHit, Goto, Enter, Leave, StartBuild, Caller, CallInv, HeldInv, OpenInv, Opens, OneInstance
<1>14. CASE ResolveMiss(t)
  BY <1>1, <1>2, <1>3, <1>4, <1>5, <1>14 DEF ResolveMiss, Goto, Enter, Leave, StartBuild, Caller, CallInv, HeldInv, OpenInv, Opens, OneInstance
<1>15. CASE PutCached(t)
  BY <1>1, <1>2, <1>3, <1>4, <1>5, <1>15 DEF PutCached, Goto, Enter, Leave, StartBuild, Caller, CallInv, HeldInv, OpenInv, Opens, OneInstance
<1>16. CASE Release(t)
  BY <1>1, <1>2, <1>3, <1>4, <1>5, <1>16 DEF Release, Goto, Enter, Leave, StartBuild, Caller, CallInv, HeldInv, OpenInv, Opens, OneInstance
<1>17. CASE Stage(t)
  BY <1>1, <1>2, <1>3, <1>4, <1>5, <1>17 DEF Stage, Goto, Enter, Leave, StartBuild, Caller, CallInv, HeldInv, OpenInv, Opens, OneInstance
<1>18. CASE TakeLock(t)
  BY <1>1, <1>2, <1>3, <1>4, <1>5, <1>18 DEF TakeLock, Goto, Enter, Leave, StartBuild, Caller, CallInv, HeldInv, OpenInv, Opens, OneInstance
<1>19. CASE LockTimeout(t)
  BY <1>1, <1>2, <1>3, <1>4, <1>5, <1>19 DEF LockTimeout, Goto, Enter, Leave, StartBuild, Caller, CallInv, HeldInv, OpenInv, Opens, OneInstance
<1>20. CASE Commit(t)
  BY <1>1, <1>2, <1>3, <1>4, <1>5, <1>20 DEF Commit, Goto, Enter, Leave, StartBuild, Caller, CallInv, HeldInv, OpenInv, Opens, OneInstance
<1>21. CASE CommitNot(t)
  BY <1>1, <1>2, <1>3, <1>4, <1>5, <1>21 DEF CommitNot, Goto, Enter, Leave, StartBuild, Caller, CallInv, HeldInv, OpenInv, Opens, OneInstance
<1>22. CASE CommitNew(t)
  BY <1>1, <1>2, <1>3, <1>4, <1>5, <1>22 DEF CommitNew, Goto, Enter, Leave, StartBuild, Caller, CallInv, HeldInv, OpenInv, Opens, OneInstance
<1>23. CASE Add(t)
  BY <1>1, <1>2, <1>3, <1>4, <1>5, <1>23 DEF Add, Goto, Enter, Leave, StartBuild, Caller, CallInv, HeldInv, OpenInv, Opens, OneInstance
<1>24. CASE RemoveRef(t)
  BY <1>1, <1>2, <1>3, <1>4, <1>5, <1>24 DEF RemoveRef, Goto, Enter, Leave, StartBuild, Caller, CallInv, HeldInv, OpenInv, Opens, OneInstance
<1>25. CASE MergeRef(t)
  BY <1>1, <1>2, <1>3, <1>4, <1>5, <1>25 DEF MergeRef, Goto, Enter, Leave, StartBuild, Caller, CallInv, HeldInv, OpenInv, Opens, OneInstance
<1>26. CASE MergeNothing(t)
  BY <1>1, <1>2, <1>3, <1>4, <1>5, <1>26 DEF MergeNothing, Goto, Enter, Leave, StartBuild, Caller, CallInv, HeldInv, OpenInv, Opens, OneInstance
<1>27. CASE MergeReadBack(t)
  BY <1>1, <1>2, <1>3, <1>4, <1>5, <1>27 DEF MergeReadBack, Goto, Enter, Leave, StartBuild, Caller, CallInv, HeldInv, OpenInv, Opens, OneInstance
<1>28. CASE UpdateExcerpt(t)
  BY <1>1, <1>2, <1>3, <1>4, <1>5, <1>28 DEF UpdateExcerpt, Goto, Enter, Leave, StartBuild, Caller, CallInv, HeldInv, OpenInv, Opens, OneInstance
<1>29. CASE UpdateExcerptFails(t)
  BY <1>1, <1>2, <1>3, <1>4, <1>5, <1>29 DEF UpdateExcerptFails, Goto, Enter, Leave, StartBuild, Caller, CallInv, HeldInv, OpenInv, Opens, OneInstance
<1>30. CASE Write(t)
  BY <1>1, <1>2, <1>3, <1>4, <1>5, <1>30 DEF Write, Goto, Enter, Leave, StartBuild, Caller, CallInv, HeldInv, OpenInv, Opens, OneInstance
<1>31. CASE WriteFails(t)
  BY <1>1, <1>2, <1>3, <1>4, <1>5, <1>31 DEF WriteFails, Goto, Enter, Leave, StartBuild, Caller, CallInv, HeldInv, OpenInv, Opens, OneInstance
<1>32. CASE Load(t)
  BY <1>1, <1>2, <1>3, <1>4, <1>5, <1>32 DEF Load, Goto, Enter, Leave, StartBuild, Caller, CallInv, HeldInv, OpenInv, Opens, OneInstance
<1>33. CASE \E kind \in Kinds : Ask(t, kind)
  BY <1>1, <1>33 DEF Ask, Enter, OneInstance
<1>34. QED
  BY <1>6, <1>7, <1>8, <1>9, <1>10, <1>11, <1>12, <1>13, <1>14, <1>15, <1>16, <1>17, <1>18, <1>19, <1>20, <1>21, <1>22, <1>23, <1>24, <1>25, <1>26, <1>27, <1>28, <1>29, <1>30, <1>31, <1>32, <1>33 DEF Acts, Step

\* A thread that has committed, and has to notify, has what it committed; a
\* merge has moved the ref.
LEMMA CommittedStep ==
  ASSUME OneCaller, CacheInv, NEW t \in Thread, Acts(t), NEW s \in Thread
  PROVE  /\ lock' = s /\ pc'[s] = "notify" => tip' # 0 /\ inst'[cur'[s]] = Read(tip')
         /\ pc'[s] = "merged" => tip' # 0
<1>1. /\ TypeOK /\ CallInv(t) /\ HeldInv(t) /\ LockInv(t) /\ ControlInv
      /\ cur[t] \in Inst \cup {None} /\ inst \in [Inst -> Content] /\ DOMAIN pc = Thread
      /\ commits \in Nat /\ None \notin Thread
      /\ lock = t /\ pc[t] = "notify" => tip # 0 /\ inst[cur[t]] = Read(tip)
      /\ pc[t] = "merged" => tip # 0
  BY DEF CacheInv, ControlInv, TypeOK, ToldInv
<1>2. CASE s # t
  <2>1. pc'[s] = pc[s] /\ cur'[s] = cur[s] /\ (lock' = s <=> lock = s)
    BY <1>1, <1>2, OthersKept
  <2>2. CallInv(s) /\ LockInv(s) /\ (lock = s /\ pc[s] = "notify" => tip # 0 /\ inst[cur[s]] = Read(tip))
        /\ (pc[s] = "merged" => tip # 0) /\ Kinds \subseteq {"update", "stage", "new", "remove", "merge"}
    BY <1>1 DEF CacheInv, ControlInv, ToldInv
  <2>3. lock = s => UNCHANGED refVars
    BY <1>1, <1>2, TipStep, TypeOfStep
  <2>4. pc[s] = "notify" => cur[s] # None
    BY <2>2 DEF CallInv
  <2>5. cur[s] # None => inst'[cur[s]] = inst[cur[s]]
    BY <1>1, <1>2, InstKept
  <2>6. QED
    BY <2>1, <2>2, <2>3, <2>4, <2>5 DEF LockInv
<1>3. CASE s = t
  <2>1. CASE BuildRead(t)
    BY <1>1, <1>3, <2>1 DEF BuildRead, Goto, Enter, Leave, StartBuild, Caller, CallInv, LockInv, Read
  <2>2. CASE BuildFails(t)
    BY <1>1, <1>3, <2>2 DEF BuildFails, Goto, Enter, Leave, StartBuild, Caller, CallInv, LockInv, Read
  <2>3. CASE RefreshList(t)
    BY <1>1, <1>3, <2>3 DEF RefreshList, Goto, Enter, Leave, StartBuild, Caller, CallInv, LockInv, Read
  <2>4. CASE RefreshNothing(t)
    BY <1>1, <1>3, <2>4 DEF RefreshNothing, Goto, Enter, Leave, StartBuild, Caller, CallInv, LockInv, Read
  <2>5. CASE RefreshRead(t)
    BY <1>1, <1>3, <2>5 DEF RefreshRead, Goto, Enter, Leave, StartBuild, Caller, CallInv, LockInv, Read
  <2>6. CASE RefreshReadFails(t)
    BY <1>1, <1>3, <2>6 DEF RefreshReadFails, Goto, Enter, Leave, StartBuild, Caller, CallInv, LockInv, Read
  <2>7. CASE RefreshForget(t)
    BY <1>1, <1>3, <2>7 DEF RefreshForget, Goto, Enter, Leave, StartBuild, Caller, CallInv, LockInv, Read
  <2>8. CASE ResolveHit(t)
    BY <1>1, <1>3, <2>8 DEF ResolveHit, Goto, Enter, Leave, StartBuild, Caller, CallInv, LockInv, Read
  <2>9. CASE ResolveMiss(t)
    BY <1>1, <1>3, <2>9 DEF ResolveMiss, Goto, Enter, Leave, StartBuild, Caller, CallInv, LockInv, Read
  <2>10. CASE PutCached(t)
    BY <1>1, <1>3, <2>10 DEF PutCached, Goto, Enter, Leave, StartBuild, Caller, CallInv, LockInv, Read
  <2>11. CASE Release(t)
    BY <1>1, <1>3, <2>11 DEF Release, Goto, Enter, Leave, StartBuild, Caller, CallInv, LockInv, Read
  <2>12. CASE Stage(t)
    BY <1>1, <1>3, <2>12 DEF Stage, Goto, Enter, Leave, StartBuild, Caller, CallInv, LockInv, Read
  <2>13. CASE TakeLock(t)
    BY <1>1, <1>3, <2>13 DEF TakeLock, Goto, Enter, Leave, StartBuild, Caller, CallInv, LockInv, Read
  <2>14. CASE LockTimeout(t)
    BY <1>1, <1>3, <2>14 DEF LockTimeout, Goto, Enter, Leave, StartBuild, Caller, CallInv, LockInv, Read
  <2>15. CASE Commit(t)
    BY <1>1, <1>3, <2>15 DEF Commit, Goto, Enter, Leave, StartBuild, Caller, CallInv, LockInv, Read
  <2>16. CASE CommitNot(t)
    BY <1>1, <1>3, <2>16 DEF CommitNot, Goto, Enter, Leave, StartBuild, Caller, CallInv, LockInv, Read
  <2>17. CASE CommitNew(t)
    BY <1>1, <1>3, <2>17 DEF CommitNew, Goto, Enter, Leave, StartBuild, Caller, CallInv, LockInv, Read
  <2>18. CASE Add(t)
    BY <1>1, <1>3, <2>18 DEF Add, Goto, Enter, Leave, StartBuild, Caller, CallInv, LockInv, Read
  <2>19. CASE RemoveRef(t)
    BY <1>1, <1>3, <2>19 DEF RemoveRef, Goto, Enter, Leave, StartBuild, Caller, CallInv, LockInv, Read
  <2>20. CASE MergeRef(t)
    BY <1>1, <1>3, <2>20 DEF MergeRef, Goto, Enter, Leave, StartBuild, Caller, CallInv, LockInv, Read
  <2>21. CASE MergeNothing(t)
    BY <1>1, <1>3, <2>21 DEF MergeNothing, Goto, Enter, Leave, StartBuild, Caller, CallInv, LockInv, Read
  <2>22. CASE MergeReadBack(t)
    BY <1>1, <1>3, <2>22 DEF MergeReadBack, Goto, Enter, Leave, StartBuild, Caller, CallInv, LockInv, Read
  <2>23. CASE UpdateExcerpt(t)
    BY <1>1, <1>3, <2>23 DEF UpdateExcerpt, Goto, Enter, Leave, StartBuild, Caller, CallInv, LockInv, Read
  <2>24. CASE UpdateExcerptFails(t)
    BY <1>1, <1>3, <2>24 DEF UpdateExcerptFails, Goto, Enter, Leave, StartBuild, Caller, CallInv, LockInv, Read
  <2>25. CASE Write(t)
    BY <1>1, <1>3, <2>25 DEF Write, Goto, Enter, Leave, StartBuild, Caller, CallInv, LockInv, Read
  <2>26. CASE WriteFails(t)
    BY <1>1, <1>3, <2>26 DEF WriteFails, Goto, Enter, Leave, StartBuild, Caller, CallInv, LockInv, Read
  <2>27. CASE Load(t)
    BY <1>1, <1>3, <2>27 DEF Load, Goto, Enter, Leave, StartBuild, Caller, CallInv, LockInv, Read
  <2>28. CASE \E kind \in Kinds : Ask(t, kind)
    BY <1>1, <1>3, <2>28 DEF Ask, Enter, CallInv, LockInv
  <2>29. QED
    BY <2>1, <2>2, <2>3, <2>4, <2>5, <2>6, <2>7, <2>8, <2>9, <2>10, <2>11, <2>12, <2>13, <2>14, <2>15, <2>16, <2>17, <2>18, <2>19, <2>20, <2>21, <2>22, <2>23, <2>24, <2>25, <2>26, <2>27, <2>28 DEF Acts, Step
<1>4. QED
  BY <1>2, <1>3

\* What a process has by its thread t is not older than a commit that it was
\* not older than before.
LEMMA SinceStep ==
  ASSUME OneCaller, CacheInv, NEW t \in Thread, Acts(t), NEW h \in 0..commits,
         IF ProcOf[t] \in open THEN AllSince(ProcOf[t], h) ELSE h = 0
  PROVE  AllSince(ProcOf[t], h)'
<1> DEFINE p == ProcOf[t]
<1>1. /\ ControlInv /\ TypeOK /\ TypeOK' /\ p \in Proc /\ h \in Nat /\ commits \in Nat /\ tip \in {0, commits}
      /\ \A e \in Content \cup Excerpt : e.at \in Nat
      /\ Content = [at : 0..MaxCommits, staged : BOOLEAN] /\ MaxCommits \in Nat
  BY TypeOfStep, Shapes DEF CacheInv, ControlInv, TipInv, TypeOK, Content
<1>2. CASE p \notin open
  <2>1. h = 0 /\ \A c \in Content \cup Excerpt : c.at >= 0
    BY <1>1, <1>2
  <2>2. QED
    BY <1>1, <2>1 DEF AllSince, TypeOK, Of
<1>3. CASE p \in open
  <2>1. /\ CallInv(t) /\ HeldInv(t) /\ OpenInv(t) /\ AllSince(p, h) /\ ProcOf[t] \in Proc
        /\ excerpt \in [Proc -> Excerpt \cup {None}] /\ inst \in [Inst -> Content]
        /\ cached \in [Proc -> Inst \cup {None}] /\ cur \in [Thread -> Inst \cup {None}]
        /\ cur[t] # None => inst[cur[t]].at >= h
        /\ call[t] = "merge" => t \notin Watcher
        /\ pc[t] = "merged" => tip # 0
        /\ None \notin Inst \cup Excerpt
        /\ cur[t] # None => cached[p] \in {None, cur[t]}
    <3>1. CallInv(t) /\ HeldInv(t) /\ OpenInv(t) /\ AllSince(p, h) /\ ProcOf[t] \in Proc
      BY <1>1, <1>3 DEF ControlInv
    <3>2. /\ excerpt \in [Proc -> Excerpt \cup {None}] /\ inst \in [Inst -> Content]
          /\ cached \in [Proc -> Inst \cup {None}] /\ cur \in [Thread -> Inst \cup {None}]
      BY <1>1 DEF TypeOK
    <3>3. cur[t] # None => inst[cur[t]].at >= h
      BY <3>1 DEF AllSince, Of
    <3>4. call[t] = "merge" => t \notin Watcher
      BY <1>1, <3>1 DEF HeldInv, CallInv, TypeOK
    <3>5. None \notin Inst \cup Excerpt
      BY Shapes
    <3>6. /\ pc[t] = "merged" => tip # 0
          /\ cur[t] # None => cached[p] \in {None, cur[t]}
      BY DEF CacheInv, ToldInv, OneInstance
    <3>7. QED
      BY <3>1, <3>2, <3>3, <3>4, <3>5, <3>6
  <2>2. /\ cur[t] = None /\ (t \notin Watcher \/ Opens(t)) =>
             Fresh(p) \in Inst /\ Fresh(p) # cached[p]
        /\ \A c \in Content : c.at \in Nat
        /\ Read(tip).at = tip /\ Read(tip) \in Content
        /\ FromRef(tip) \in Excerpt /\ FromRef(tip).at = tip
    BY <1>1, FreshCaller, Contents DEF Read
  <2>3. /\ excerpt'[p] # None => excerpt'[p].at >= h
        /\ cached'[p] # None => inst'[cached'[p]].at >= h
        /\ cur'[t] # None => inst'[cur'[t]].at >= h
    <3>1. CASE BuildRead(t)
      BY <1>1, <1>3, <2>1, <2>2, <3>1 DEF BuildRead, Goto, Enter, Leave, StartBuild, Caller, AllSince, CallInv, HeldInv, OpenInv, Opens
    <3>2. CASE BuildFails(t)
      BY <1>1, <1>3, <2>1, <3>2 DEF BuildFails, Goto, Enter, Leave, StartBuild, Caller, AllSince, CallInv, HeldInv, OpenInv, Opens
    <3>3. CASE RefreshList(t)
      BY <1>1, <1>3, <2>1, <3>3 DEF RefreshList, Goto, Enter, Leave, StartBuild, Caller, AllSince, CallInv, HeldInv, OpenInv, Opens
    <3>4. CASE RefreshNothing(t)
      BY <1>1, <1>3, <2>1, <3>4 DEF RefreshNothing, Goto, Enter, Leave, StartBuild, Caller, AllSince, CallInv, HeldInv, OpenInv, Opens
    <3>5. CASE RefreshRead(t)
      <4>1. /\ tip # 0 /\ excerpt'[p] = FromRef(tip) /\ cached'[p] = None /\ cur' = cur
            /\ inst' = Swept(p, Held(Of(p)))
        BY <1>1, <2>1, <3>5 DEF RefreshRead, Goto
      <4>2. cur[t] # None => inst'[cur[t]] = inst[cur[t]]
        BY <1>1, <2>1, <4>1 DEF Swept, Held, Of
      <4>3. QED
        BY <1>1, <2>1, <2>2, <4>1, <4>2 DEF AllSince
    <3>6. CASE RefreshReadFails(t)
      BY <1>1, <1>3, <2>1, <3>6 DEF RefreshReadFails, Goto, Enter, Leave, StartBuild, Caller, AllSince, CallInv, HeldInv, OpenInv, Opens
    <3>7. CASE RefreshForget(t)
      BY <1>1, <1>3, <2>1, <3>7 DEF RefreshForget, Goto, Enter, Leave, StartBuild, Caller, AllSince, CallInv, HeldInv, OpenInv, Opens, Swept, Held, Of
    <3>8. CASE ResolveHit(t)
      BY <1>1, <1>3, <2>1, <3>8 DEF ResolveHit, Goto, Enter, Leave, StartBuild, Caller, AllSince, CallInv, HeldInv, OpenInv, Opens
    <3>9. CASE ResolveMiss(t)
      BY <1>1, <1>3, <2>1, <2>2, <3>9 DEF ResolveMiss, Goto, Enter, Leave, StartBuild, Caller, AllSince, CallInv, HeldInv, OpenInv, Opens
    <3>10. CASE PutCached(t)
      BY <1>1, <1>3, <2>1, <3>10 DEF PutCached, Goto, Enter, Leave, StartBuild, Caller, AllSince, CallInv, HeldInv, OpenInv, Opens
    <3>11. CASE Release(t)
      BY <1>1, <1>3, <2>1, <3>11 DEF Release, Goto, Enter, Leave, StartBuild, Caller, AllSince, CallInv, HeldInv, OpenInv, Opens, Swept, Held, Of
    <3>12. CASE Stage(t)
      BY <1>1, <1>3, <2>1, <2>2, <3>12 DEF Stage, Goto, Enter, Leave, StartBuild, Caller, AllSince, CallInv, HeldInv, OpenInv, Opens
    <3>13. CASE TakeLock(t)
      BY <1>1, <1>3, <2>1, <3>13 DEF TakeLock, Goto, Enter, Leave, StartBuild, Caller, AllSince, CallInv, HeldInv, OpenInv, Opens
    <3>14. CASE LockTimeout(t)
      BY <1>1, <1>3, <2>1, <3>14 DEF LockTimeout, Goto, Enter, Leave, StartBuild, Caller, AllSince, CallInv, HeldInv, OpenInv, Opens
    <3>15. CASE Commit(t)
      BY <1>1, <1>3, <2>1, <2>2, <3>15 DEF Commit, Goto, Enter, Leave, StartBuild, Caller, AllSince, CallInv, HeldInv, OpenInv, Opens, Read
    <3>16. CASE CommitNot(t)
      BY <1>1, <1>3, <2>1, <2>2, <3>16 DEF CommitNot, Goto, Enter, Leave, StartBuild, Caller, AllSince, CallInv, HeldInv, OpenInv, Opens
    <3>17. CASE CommitNew(t)
      BY <1>1, <1>3, <2>1, <2>2, <3>17 DEF CommitNew, Goto, Enter, Leave, StartBuild, Caller, AllSince, CallInv, HeldInv, OpenInv, Opens, Read
    <3>18. CASE Add(t)
      BY <1>1, <1>3, <2>1, <3>18 DEF Add, Goto, Enter, Leave, StartBuild, Caller, AllSince, CallInv, HeldInv, OpenInv, Opens, Swept, Held, Of
    <3>19. CASE RemoveRef(t)
      BY <1>1, <1>3, <2>1, <3>19 DEF RemoveRef, Goto, Enter, Leave, StartBuild, Caller, AllSince, CallInv, HeldInv, OpenInv, Opens, Swept, Held, Of
    <3>20. CASE MergeRef(t)
      BY <1>1, <1>3, <2>1, <3>20 DEF MergeRef, Goto, Enter, Leave, StartBuild, Caller, AllSince, CallInv, HeldInv, OpenInv, Opens
    <3>21. CASE MergeNothing(t)
      BY <1>1, <1>3, <2>1, <3>21 DEF MergeNothing, Goto, Enter, Leave, StartBuild, Caller, AllSince, CallInv, HeldInv, OpenInv, Opens
    <3>22. CASE MergeReadBack(t)
      <4>1. cur[t] = None /\ t \notin Watcher
        BY <2>1, <3>22 DEF MergeReadBack, CallInv, HeldInv
      <4>2. Fresh(p) \in Inst /\ Fresh(p) # None
        BY <2>1, <2>2, <4>1
      <4>3. Swept(p, Held(Of(p))) \in [Inst -> Content]
        BY <1>1, Contents DEF CacheInv, ControlInv
      <4>4. /\ excerpt'[p] = FromRef(tip) /\ cached'[p] = Fresh(p) /\ cur' = cur
            /\ inst'[Fresh(p)] = Read(tip) /\ tip # 0
        BY <1>1, <2>1, <3>22, <4>2, <4>3 DEF MergeReadBack, Goto
      <4>5. QED
        BY <1>1, <2>1, <2>2, <4>1, <4>4 DEF AllSince
    <3>23. CASE UpdateExcerpt(t)
      <4>1. /\ cached[p] \in Inst /\ excerpt'[p] = Shown(inst[cached[p]], lock # t)
            /\ UNCHANGED <<cached, inst, cur>>
        BY <2>1, <3>23 DEF UpdateExcerpt, Goto
      <4>2. Shown(inst[cached[p]], lock # t).at = inst[cached[p]].at
        BY <2>1, <4>1, Shapes
      <4>3. QED
        BY <2>1, <4>1, <4>2 DEF AllSince
    <3>24. CASE UpdateExcerptFails(t)
      BY <1>1, <1>3, <2>1, <3>24 DEF UpdateExcerptFails, Goto, Enter, Leave, StartBuild, Caller, AllSince, CallInv, HeldInv, OpenInv, Opens
    <3>25. CASE Write(t)
      BY <1>1, <1>3, <2>1, <3>25 DEF Write, Goto, Enter, Leave, StartBuild, Caller, AllSince, CallInv, HeldInv, OpenInv, Opens
    <3>26. CASE WriteFails(t)
      BY <1>1, <1>3, <2>1, <3>26 DEF WriteFails, Goto, Enter, Leave, StartBuild, Caller, AllSince, CallInv, HeldInv, OpenInv, Opens
    <3>27. CASE Load(t)
      BY <1>1, <1>3, <2>1, <3>27 DEF Load, Goto, Enter, Leave, StartBuild, Caller, AllSince, CallInv, HeldInv, OpenInv, Opens
    <3>28. CASE \E kind \in Kinds : Ask(t, kind)
      BY <2>1, <3>28 DEF Ask, Enter, AllSince
    <3>29. QED
      BY <3>1, <3>2, <3>3, <3>4, <3>5, <3>6, <3>7, <3>8, <3>9, <3>10, <3>11, <3>12, <3>13, <3>14, <3>15, <3>16, <3>17, <3>18, <3>19, <3>20, <3>21, <3>22, <3>23, <3>24, <3>25, <3>26, <3>27, <3>28 DEF Acts, Step
  <2>4. ASSUME NEW s \in Of(p), s # t, cur'[s] # None
        PROVE  inst'[cur'[s]].at >= h
    <3>1. cur'[s] = cur[s] /\ s \in Thread
      BY <1>1, <2>4, OthersKept DEF Of
    <3>2. inst'[cur[s]] = inst[cur[s]] /\ inst[cur[s]].at >= h
      BY <1>1, <2>1, <2>4, <3>1, InstKept DEF AllSince
    <3>3. QED
      BY <3>1, <3>2
  <2>5. QED
    BY <2>3, <2>4 DEF AllSince, Of
<1>4. QED
  BY <1>2, <1>3

\* A process is told of a commit by the end of a call that holds the lock.
LEMMA ToldMoves ==
  ASSUME ControlInv, NEW t \in Thread, Acts(t)
  PROVE  \/ told'[ProcOf[t]] = told[ProcOf[t]] /\ (ProcOf[t] \in open => ProcOf[t] \in open')
         \/ /\ pc[t] = "write" /\ lock = t /\ ProcOf[t] \in open'
            /\ told'[ProcOf[t]] = tip
<1>1. told \in [Proc -> 0..commits] /\ ProcOf[t] \in Proc
  BY DEF ControlInv, TypeOK
<1>2. CASE BuildRead(t)
  BY <1>1, <1>2 DEF BuildRead
<1>3. CASE BuildFails(t)
  BY <1>1, <1>3 DEF BuildFails
<1>4. CASE RefreshList(t)
  BY <1>1, <1>4 DEF RefreshList
<1>5. CASE RefreshNothing(t)
  BY <1>1, <1>5 DEF RefreshNothing
<1>6. CASE RefreshRead(t)
  BY <1>1, <1>6 DEF RefreshRead
<1>7. CASE RefreshReadFails(t)
  BY <1>1, <1>7 DEF RefreshReadFails
<1>8. CASE RefreshForget(t)
  BY <1>1, <1>8 DEF RefreshForget
<1>9. CASE ResolveHit(t)
  BY <1>1, <1>9 DEF ResolveHit
<1>10. CASE ResolveMiss(t)
  BY <1>1, <1>10 DEF ResolveMiss
<1>11. CASE PutCached(t)
  BY <1>1, <1>11 DEF PutCached
<1>12. CASE Release(t)
  BY <1>1, <1>12 DEF Release
<1>13. CASE Stage(t)
  BY <1>1, <1>13 DEF Stage
<1>14. CASE TakeLock(t)
  BY <1>1, <1>14 DEF TakeLock
<1>15. CASE LockTimeout(t)
  BY <1>1, <1>15 DEF LockTimeout
<1>16. CASE Commit(t)
  BY <1>1, <1>16 DEF Commit
<1>17. CASE CommitNot(t)
  BY <1>1, <1>17 DEF CommitNot
<1>18. CASE CommitNew(t)
  BY <1>1, <1>18 DEF CommitNew
<1>19. CASE Add(t)
  BY <1>1, <1>19 DEF Add
<1>20. CASE RemoveRef(t)
  BY <1>1, <1>20 DEF RemoveRef
<1>21. CASE MergeRef(t)
  BY <1>1, <1>21 DEF MergeRef
<1>22. CASE MergeNothing(t)
  BY <1>1, <1>22 DEF MergeNothing
<1>23. CASE MergeReadBack(t)
  BY <1>1, <1>23 DEF MergeReadBack
<1>24. CASE UpdateExcerpt(t)
  BY <1>1, <1>24 DEF UpdateExcerpt
<1>25. CASE UpdateExcerptFails(t)
  BY <1>1, <1>25 DEF UpdateExcerptFails
<1>26. CASE Write(t)
  BY <1>1, <1>26 DEF Write
<1>27. CASE WriteFails(t)
  BY <1>1, <1>27 DEF WriteFails
<1>28. CASE Load(t)
  BY <1>1, <1>28 DEF Load
<1>29. CASE \E kind \in Kinds : Ask(t, kind)
  BY <1>29 DEF Ask
<1>30. QED
  BY <1>2, <1>3, <1>4, <1>5, <1>6, <1>7, <1>8, <1>9, <1>10, <1>11, <1>12, <1>13, <1>14, <1>15, <1>16, <1>17, <1>18, <1>19, <1>20, <1>21, <1>22, <1>23, <1>24, <1>25, <1>26, <1>27, <1>28, <1>29 DEF Acts, Step

\* What a call that holds the lock is about to write shows its commit.
LEMMA WroteStep ==
  ASSUME OneCaller, CacheInv, NEW t \in Thread, Acts(t), lock' = t, pc'[t] = "write",
         NEW h, h = tip'
  PROVE  AllSince(ProcOf[t], h)'
<1> DEFINE p == ProcOf[t]
<1>1. /\ ControlInv /\ TypeOK' /\ p \in Proc /\ commits \in Nat /\ None \notin Thread
      /\ CallInv(t) /\ LockInv(t) /\ OpenInv(t) /\ HeldInv(t) /\ DOMAIN pc = Thread /\ DOMAIN call = Thread
      /\ Kinds \subseteq {"update", "stage", "new", "remove", "merge"} /\ call[t] \in Kinds \cup {"none", "load", "build", "refresh"}
      /\ \A c \in Content : c.at \in Nat
  BY TypeOfStep DEF CacheInv, ControlInv, TypeOK, Content
<1>2. \/ UpdateExcerpt(t) \/ RemoveRef(t) \/ MergeReadBack(t)
  <2>1. CASE BuildRead(t)
    BY <1>1, <2>1 DEF BuildRead, Goto, Enter, Leave, StartBuild, Caller, CallInv, LockInv
  <2>2. CASE BuildFails(t)
    BY <1>1, <2>2 DEF BuildFails, Goto, Enter, Leave, StartBuild, Caller, CallInv, LockInv
  <2>3. CASE RefreshList(t)
    BY <1>1, <2>3 DEF RefreshList, Goto, Enter, Leave, StartBuild, Caller, CallInv, LockInv
  <2>4. CASE RefreshNothing(t)
    BY <1>1, <2>4 DEF RefreshNothing, Goto, Enter, Leave, StartBuild, Caller, CallInv, LockInv
  <2>5. CASE RefreshRead(t)
    BY <1>1, <2>5 DEF RefreshRead, Goto, Enter, Leave, StartBuild, Caller, CallInv, LockInv
  <2>6. CASE RefreshReadFails(t)
    BY <1>1, <2>6 DEF RefreshReadFails, Goto, Enter, Leave, StartBuild, Caller, CallInv, LockInv
  <2>7. CASE RefreshForget(t)
    BY <1>1, <2>7 DEF RefreshForget, Goto, Enter, Leave, StartBuild, Caller, CallInv, LockInv
  <2>8. CASE ResolveHit(t)
    BY <1>1, <2>8 DEF ResolveHit, Goto, Enter, Leave, StartBuild, Caller, CallInv, LockInv
  <2>9. CASE ResolveMiss(t)
    BY <1>1, <2>9 DEF ResolveMiss, Goto, Enter, Leave, StartBuild, Caller, CallInv, LockInv
  <2>10. CASE PutCached(t)
    BY <1>1, <2>10 DEF PutCached, Goto, Enter, Leave, StartBuild, Caller, CallInv, LockInv
  <2>11. CASE Release(t)
    BY <1>1, <2>11 DEF Release, Goto, Enter, Leave, StartBuild, Caller, CallInv, LockInv
  <2>12. CASE Stage(t)
    BY <1>1, <2>12 DEF Stage, Goto, Enter, Leave, StartBuild, Caller, CallInv, LockInv
  <2>13. CASE TakeLock(t)
    BY <1>1, <2>13 DEF TakeLock, Goto, Enter, Leave, StartBuild, Caller, CallInv, LockInv
  <2>14. CASE LockTimeout(t)
    BY <1>1, <2>14 DEF LockTimeout, Goto, Enter, Leave, StartBuild, Caller, CallInv, LockInv
  <2>15. CASE Commit(t)
    BY <1>1, <2>15 DEF Commit, Goto, Enter, Leave, StartBuild, Caller, CallInv, LockInv
  <2>16. CASE CommitNot(t)
    BY <1>1, <2>16 DEF CommitNot, Goto, Enter, Leave, StartBuild, Caller, CallInv, LockInv
  <2>17. CASE CommitNew(t)
    BY <1>1, <2>17 DEF CommitNew, Goto, Enter, Leave, StartBuild, Caller, CallInv, LockInv
  <2>18. CASE Add(t)
    BY <1>1, <2>18 DEF Add, Goto, Enter, Leave, StartBuild, Caller, CallInv, LockInv
  <2>19. CASE RemoveRef(t)
    BY <1>1, <2>19 DEF RemoveRef, Goto, Enter, Leave, StartBuild, Caller, CallInv, LockInv
  <2>20. CASE MergeRef(t)
    BY <1>1, <2>20 DEF MergeRef, Goto, Enter, Leave, StartBuild, Caller, CallInv, LockInv
  <2>21. CASE MergeNothing(t)
    BY <1>1, <2>21 DEF MergeNothing, Goto, Enter, Leave, StartBuild, Caller, CallInv, LockInv
  <2>22. CASE MergeReadBack(t)
    BY <1>1, <2>22 DEF MergeReadBack, Goto, Enter, Leave, StartBuild, Caller, CallInv, LockInv
  <2>23. CASE UpdateExcerpt(t)
    BY <1>1, <2>23 DEF UpdateExcerpt, Goto, Enter, Leave, StartBuild, Caller, CallInv, LockInv
  <2>24. CASE UpdateExcerptFails(t)
    BY <1>1, <2>24 DEF UpdateExcerptFails, Goto, Enter, Leave, StartBuild, Caller, CallInv, LockInv
  <2>25. CASE Write(t)
    BY <1>1, <2>25 DEF Write, Goto, Enter, Leave, StartBuild, Caller, CallInv, LockInv
  <2>26. CASE WriteFails(t)
    BY <1>1, <2>26 DEF WriteFails, Goto, Enter, Leave, StartBuild, Caller, CallInv, LockInv
  <2>27. CASE Load(t)
    BY <1>1, <2>27 DEF Load, Goto, Enter, Leave, StartBuild, Caller, CallInv, LockInv
  <2>28. CASE \E kind \in Kinds : Ask(t, kind)
    BY <1>1, <2>28 DEF Ask, Enter
  <2>29. QED
    BY <2>1, <2>2, <2>3, <2>4, <2>5, <2>6, <2>7, <2>8, <2>9, <2>10, <2>11, <2>12, <2>13, <2>14, <2>15, <2>16, <2>17, <2>18, <2>19, <2>20, <2>21, <2>22, <2>23, <2>24, <2>25, <2>26, <2>27, <2>28 DEF Acts, Step
<1>3. call[t] \in Kinds /\ lock = t
  BY <1>1, <1>2 DEF UpdateExcerpt, RemoveRef, MergeReadBack, LockInv, CallInv, Goto
<1>4. \A s \in Of(p) : s # t => cur[s] = None /\ cur'[s] = None
  BY <1>1, <1>3, Single, OthersKept DEF Of
<1>5. /\ excerpt \in [Proc -> Excerpt \cup {None}] /\ inst \in [Inst -> Content]
      /\ cached \in [Proc -> Inst \cup {None}] /\ cur \in [Thread -> Inst \cup {None}]
      /\ Read(tip).at = tip /\ tip \in Nat /\ None \notin Excerpt \cup Inst /\ Read(tip) \in Content
      /\ FromRef(tip) \in Excerpt /\ FromRef(tip).at = tip
      /\ \A e \in Excerpt : e.at \in Nat
  BY <1>1, Shapes, Contents DEF ControlInv, TypeOK, Read
<1>6. CASE UpdateExcerpt(t)
  <2>1. cur[t] # None /\ inst[cur[t]] = Read(tip) /\ cached[p] \in {None, cur[t]}
    BY <1>1, <1>3, <1>6 DEF UpdateExcerpt, CallInv, CacheInv, ToldInv, OneInstance
  <2>2. /\ cached[p] = cur[t] /\ UNCHANGED <<tip, cached, inst, cur>>
        /\ excerpt'[p] = Shown(Read(tip), lock # t)
    BY <1>1, <1>5, <1>6, <2>1 DEF UpdateExcerpt, Goto
  <2>3. Shown(Read(tip), lock # t).at = tip
    BY <1>5, Shapes
  <2>4. QED
    BY <1>1, <1>4, <1>5, <2>1, <2>2, <2>3 DEF AllSince, Of
<1>7. CASE RemoveRef(t)
  <2>1. tip' = 0
    BY <1>7 DEF RemoveRef
  <2>2. QED
    BY <1>1, <2>1, Shapes DEF AllSince, TypeOK, Of
<1>8. CASE MergeReadBack(t)
  <2>1. cur[t] = None /\ Fresh(p) \in Inst
    BY <1>1, <1>3, <1>8, FreshCaller DEF MergeReadBack, CallInv, HeldInv
  <2>2. /\ excerpt'[p] = FromRef(tip) /\ cached'[p] = Fresh(p) /\ inst'[Fresh(p)] = Read(tip)
        /\ cur' = cur /\ tip' = tip
    <3>1. Swept(p, Held(Of(p))) \in [Inst -> Content]
      BY <1>1, Contents DEF ControlInv
    <3>2. QED
      BY <1>1, <1>5, <1>8, <2>1, <3>1 DEF MergeReadBack, Goto
  <2>3. QED
    BY <1>4, <1>5, <2>1, <2>2 DEF AllSince, Of
<1>9. QED
  BY <1>2, <1>6, <1>7, <1>8

\* What a process was told, it goes on having.
LEMMA ToldStep ==
  ASSUME OneCaller, CacheInv, NEW t \in Thread, Acts(t)
  PROVE  ToldInv'
<1> DEFINE p == ProcOf[t]
<1>1. /\ ControlInv /\ ToldInv /\ TypeOK' /\ p \in Proc /\ told \in [Proc -> 0..commits]
      /\ tip \in 0..commits /\ commits \in Nat
  BY TypeOfStep DEF CacheInv, ControlInv, TypeOK
<1>2. ASSUME NEW q \in Proc, q # p, NEW h, AllSince(q, h)
      PROVE  AllSince(q, h)'
  <2>1. /\ excerpt'[q] = excerpt[q] /\ cached'[q] = cached[q]
        /\ \A x \in Inst : ProcOf[x] = q => inst'[x] = inst[x]
    BY <1>1, <1>2, OtherProcess
  <2>2. cached[q] # None => cached[q] \in Inst /\ ProcOf[cached[q]] = q
    BY <1>1 DEF ControlInv, CachedInv, TypeOK
  <2>3. \A s \in Of(q) : cur'[s] = cur[s] /\ (cur[s] # None => cur[s] \in Inst /\ ProcOf[cur[s]] = q)
    BY <1>1, <1>2, OthersKept DEF Of, ControlInv, HeldInv, TypeOK
  <2>4. QED
    BY <1>2, <2>1, <2>2, <2>3 DEF AllSince
<1>3. ASSUME NEW s \in Thread, s # t, lock = s, pc[s] = "write"
      PROVE  tip' = tip /\ AllSince(ProcOf[s], tip)'
  <2>1. /\ LockInv(s) /\ OpenInv(s) /\ AllSince(ProcOf[s], tip) /\ ProcOf[s] \in Proc
        /\ Kinds \subseteq {"update", "stage", "new", "remove", "merge"}
    BY <1>1, <1>3 DEF ControlInv, ToldInv
  <2>2. UNCHANGED refVars
    BY <1>1, <1>3, TipStep
  <2>3. PICK h \in 0..commits : h = tip
    BY <1>1
  <2>4. AllSince(ProcOf[s], h)'
    <3>1. CASE ProcOf[s] # p
      BY <1>2, <2>1, <2>3, <3>1
    <3>2. CASE ProcOf[s] = p
      <4>1. p \in open
        BY <1>3, <2>1, <3>2 DEF LockInv, OpenInv, Opens
      <4>2. QED
        BY <2>1, <2>3, <3>2, <4>1, SinceStep
    <3>3. QED
      BY <3>1, <3>2
  <2>5. QED
    BY <2>2, <2>3, <2>4 DEF AllSince
<1>4. ASSUME NEW q \in Proc
      PROVE  (IF q \in open THEN AllSince(q, told[q]) ELSE told[q] = 0)'
  <2>1. IF q \in open THEN AllSince(q, told[q]) ELSE told[q] = 0
    BY <1>1 DEF ToldInv
  <2>2. PICK h \in 0..commits : h = told[q]
    BY <1>1
  <2>3. CASE q # p
    <3>1. told'[q] = told[q] /\ (q \in open' <=> q \in open)
      BY <1>1, <2>3, OtherProcess
    <3>2. q \in open => AllSince(q, h)'
      BY <1>2, <2>1, <2>2, <2>3
    <3>3. QED
      BY <2>1, <2>2, <3>1, <3>2 DEF AllSince
  <2>4. CASE q = p /\ told'[p] = told[p] /\ (p \in open => p \in open')
    <3>1. AllSince(p, h)'
      BY <2>1, <2>2, <2>4, SinceStep
    <3>2. p \notin open' => told'[p] = 0
      BY <2>1, <2>4
    <3>3. QED
      BY <2>2, <2>4, <3>1, <3>2 DEF AllSince
  <2>5. CASE q = p /\ pc[t] = "write" /\ lock = t /\ p \in open' /\ told'[p] = tip
    <3>1. AllSince(p, tip) /\ LockInv(t) /\ OpenInv(t) /\ Kinds \subseteq {"update", "stage", "new", "remove", "merge"}
      BY <1>1, <2>5 DEF ToldInv, ControlInv
    <3>2. p \in open
      BY <2>5, <3>1 DEF LockInv, OpenInv, Opens
    <3>3. PICK k \in 0..commits : k = tip
      BY <1>1
    <3>4. AllSince(p, k)'
      BY <3>1, <3>2, <3>3, SinceStep
    <3>5. QED
      BY <2>5, <3>3, <3>4 DEF AllSince
  <2>6. QED
    BY <1>1, <2>3, <2>4, <2>5, ToldMoves
<1>5. ASSUME NEW s \in Thread
      PROVE  (lock = s /\ pc[s] = "write" => AllSince(ProcOf[s], tip))'
  <2>1. CASE s = t
    <3>1. PICK h : h = tip'
      OBVIOUS
    <3>2. lock' = t /\ pc'[t] = "write" => AllSince(p, h)'
      BY <3>1, WroteStep
    <3>3. QED
      BY <2>1, <3>1, <3>2 DEF AllSince
  <2>2. CASE s # t
    <3>1. (lock' = s <=> lock = s) /\ pc'[s] = pc[s]
      BY <1>1, <2>2, OthersKept
    <3>2. lock = s /\ pc[s] = "write" => tip' = tip /\ AllSince(ProcOf[s], tip)'
      BY <1>3, <2>2
    <3>3. QED
      BY <3>1, <3>2 DEF AllSince
  <2>3. QED
    BY <2>1, <2>2
<1>6. QED
  BY <1>4, <1>5, CommittedStep DEF ToldInv

\* What a crash leaves to the other processes.
LEMMA CrashLeaves ==
  ASSUME ControlInv, NEW p \in Proc, Crash(p)
  PROVE  /\ refVars' = refVars /\ open' = open \ {p} /\ told'[p] = 0 /\ cached'[p] = None
         /\ \A q \in Proc : q # p =>
              /\ excerpt'[q] = excerpt[q] /\ noted'[q] = noted[q]
              /\ cached'[q] = cached[q] /\ told'[q] = told[q]
         /\ \A x \in Inst : ProcOf[x] # p => inst'[x] = inst[x]
         /\ \A s \in Thread :
              IF ProcOf[s] = p THEN pc'[s] = "idle" /\ cur'[s] = None /\ call'[s] = "none" /\ lock' # s
              ELSE /\ pc'[s] = pc[s] /\ cur'[s] = cur[s] /\ call'[s] = call[s]
                   /\ (lock' = s <=> lock = s)
  BY DEF ControlInv, TypeOK, Crash, Of

\* A process that ends has been told nothing, and the others lose nothing.
LEMMA CrashTold ==
  ASSUME CacheInv, NEW p \in Proc, Crash(p)
  PROVE  OneInstance' /\ ToldInv'
<1>1. /\ ControlInv /\ OneInstance /\ ToldInv /\ told \in [Proc -> 0..commits]
      /\ \A s \in Thread : cur[s] # None => cur[s] \in Inst /\ ProcOf[cur[s]] = ProcOf[s]
      /\ \A q \in Proc : cached[q] # None => cached[q] \in Inst /\ ProcOf[cached[q]] = q
      /\ \A s \in Thread : ProcOf[s] \in Proc
      /\ \A s \in Thread : pc[s] = "notify" => cur[s] # None
  BY DEF CacheInv, ControlInv, TypeOK, HeldInv, CachedInv, CallInv
<1>2. /\ refVars' = refVars /\ open' = open \ {p} /\ told'[p] = 0 /\ cached'[p] = None
      /\ \A q \in Proc : q # p =>
           /\ excerpt'[q] = excerpt[q] /\ noted'[q] = noted[q]
           /\ cached'[q] = cached[q] /\ told'[q] = told[q]
      /\ \A x \in Inst : ProcOf[x] # p => inst'[x] = inst[x]
      /\ \A s \in Thread :
           IF ProcOf[s] = p THEN pc'[s] = "idle" /\ cur'[s] = None /\ call'[s] = "none" /\ lock' # s
           ELSE /\ pc'[s] = pc[s] /\ cur'[s] = cur[s] /\ call'[s] = call[s]
                /\ (lock' = s <=> lock = s)
  BY <1>1, CrashLeaves
<1>3. OneInstance'
  BY <1>1, <1>2 DEF OneInstance
<1>4. ASSUME NEW q \in Proc, q # p, NEW h, AllSince(q, h)
      PROVE  AllSince(q, h)'
  BY <1>1, <1>2, <1>4 DEF AllSince, Of
<1>5. ASSUME NEW q \in Proc
      PROVE  (IF q \in open THEN AllSince(q, told[q]) ELSE told[q] = 0)'
  <2>1. IF q \in open THEN AllSince(q, told[q]) ELSE told[q] = 0
    BY <1>1 DEF ToldInv
  <2>2. PICK h : h = told[q]
    OBVIOUS
  <2>3. q # p /\ q \in open => AllSince(q, h)'
    BY <1>4, <2>1, <2>2
  <2>4. QED
    BY <1>2, <2>1, <2>2, <2>3 DEF AllSince
<1>6. ASSUME NEW s \in Thread
      PROVE  (lock = s /\ pc[s] = "write" => AllSince(ProcOf[s], tip))'
  <2>1. lock = s /\ pc[s] = "write" => AllSince(ProcOf[s], tip)
    BY <1>1 DEF ToldInv
  <2>2. PICK h : h = tip
    OBVIOUS
  <2>3. ProcOf[s] # p /\ lock = s /\ pc[s] = "write" => AllSince(ProcOf[s], h)'
    BY <1>1, <1>4, <2>1, <2>2
  <2>4. QED
    BY <1>2, <2>2, <2>3 DEF AllSince
<1>7. ASSUME NEW s \in Thread
      PROVE  /\ (lock = s /\ pc[s] = "notify" => tip # 0 /\ inst[cur[s]] = Read(tip))'
             /\ (pc[s] = "merged" => tip # 0)'
  <2>1. /\ lock = s /\ pc[s] = "notify" => tip # 0 /\ inst[cur[s]] = Read(tip)
        /\ pc[s] = "merged" => tip # 0
    BY <1>1 DEF ToldInv
  <2>2. QED
    BY <1>1, <1>2, <2>1
<1>8. QED
  BY <1>3, <1>5, <1>6, <1>7 DEF ToldInv

\* The whole of CacheInv, after any step.
LEMMA CacheStep ==
  ASSUME OneCaller, CacheInv, [Next]_vars
  PROVE  CacheInv'
<1>1. ControlInv'
  BY ControlStep DEF CacheInv
<1>2. CASE UNCHANGED vars
  BY <1>1, <1>2 DEF vars, CacheInv, OneInstance, ToldInv, AllSince, Of
<1>3. QED
  BY <1>1, <1>2, OneInstanceStep, ToldStep, CrashTold DEF CacheInv, Next, Acts

-----------------------------------------------------------------------------
(* The theorems.                                                           *)

\* Nobody is anywhere at first.
LEMMA CacheStart ==
  ASSUME Init
  PROVE  CacheInv
<1>1. TypeOK
  BY DEF Init, TypeOK, Content, Read
<1>2. ControlInv
  BY <1>1 DEF Init, ControlInv, TipInv, CachedInv, CallInv, HeldInv, LockInv, OpenInv, Opens
<1>3. QED
  BY <1>2 DEF Init, CacheInv, OneInstance, ToldInv

\* However many callers there are, whoever is inside the write lock holds it,
\* whoever opens a cache is alone in its process, and the hash that a page of the
\* file records is of a commit that was made.
THEOREM CallsOrdered == Spec => []ControlInv
<1>1. Init => ControlInv
  BY CacheStart DEF CacheInv
<1>2. ControlInv /\ [Next]_vars => ControlInv'
  BY ControlStep
<1>3. QED
  BY <1>1, <1>2, PTL DEF Spec

\* Every variable of the caches keeps its type.
THEOREM CacheTyped == Spec => []TypeOK
<1>1. ControlInv => TypeOK
  BY DEF ControlInv
<1>2. QED
  BY <1>1, CallsOrdered, PTL

\* With one caller in a process, the instance it has is the one in the cache,
\* and neither is older than the commit it was told of.
THEOREM CacheInvariance == OneCaller => (Spec => []CacheInv)
<1> SUFFICES ASSUME OneCaller
             PROVE  Spec => []CacheInv
  OBVIOUS
<1>1. Init => CacheInv
  BY CacheStart
<1>2. CacheInv /\ [Next]_vars => CacheInv'
  BY CacheStep
<1>3. QED
  BY <1>1, <1>2, PTL DEF Spec

\* A process reads its own writes: nothing that it shows is older than the
\* commit of its last successful call (SubCache.entityUpdated, MergeAll and
\* Remove tell the cache before they let the write lock go).
THEOREM OwnWritesRead == OneCaller => (Spec => []ReadYourWrites)
<1> SUFFICES ASSUME OneCaller
             PROVE  Spec => []ReadYourWrites
  OBVIOUS
<1>1. CacheInv => ReadYourWrites
  BY DEF CacheInv, ControlInv, TypeOK, ToldInv, AllSince, ReadYourWrites
<1>2. QED
  BY <1>1, CacheInvariance, PTL

-----------------------------------------------------------------------------
(* What is recorded with the ref's hash shows the ref.                     *)

\* A ref moves to a commit that nobody has recorded, or goes.
LEMMA TipMoves ==
  ASSUME ControlInv, NEW t \in Thread, Acts(t)
  PROVE  tip' = tip \/ tip' = 0 \/ (tip' = commits' /\ commits' = commits + 1)
<1>1. commits \in Nat
  BY DEF ControlInv, TypeOK
<1>2. CASE BuildRead(t)
  BY <1>1, <1>2 DEF BuildRead
<1>3. CASE BuildFails(t)
  BY <1>1, <1>3 DEF BuildFails
<1>4. CASE RefreshList(t)
  BY <1>1, <1>4 DEF RefreshList
<1>5. CASE RefreshNothing(t)
  BY <1>1, <1>5 DEF RefreshNothing
<1>6. CASE RefreshRead(t)
  BY <1>1, <1>6 DEF RefreshRead
<1>7. CASE RefreshReadFails(t)
  BY <1>1, <1>7 DEF RefreshReadFails
<1>8. CASE RefreshForget(t)
  BY <1>1, <1>8 DEF RefreshForget
<1>9. CASE ResolveHit(t)
  BY <1>1, <1>9 DEF ResolveHit
<1>10. CASE ResolveMiss(t)
  BY <1>1, <1>10 DEF ResolveMiss
<1>11. CASE PutCached(t)
  BY <1>1, <1>11 DEF PutCached
<1>12. CASE Release(t)
  BY <1>1, <1>12 DEF Release
<1>13. CASE Stage(t)
  BY <1>1, <1>13 DEF Stage
<1>14. CASE TakeLock(t)
  BY <1>1, <1>14 DEF TakeLock
<1>15. CASE LockTimeout(t)
  BY <1>1, <1>15 DEF LockTimeout
<1>16. CASE Commit(t)
  BY <1>1, <1>16 DEF Commit
<1>17. CASE CommitNot(t)
  BY <1>1, <1>17 DEF CommitNot
<1>18. CASE CommitNew(t)
  BY <1>1, <1>18 DEF CommitNew
<1>19. CASE Add(t)
  BY <1>1, <1>19 DEF Add
<1>20. CASE RemoveRef(t)
  BY <1>1, <1>20 DEF RemoveRef
<1>21. CASE MergeRef(t)
  BY <1>1, <1>21 DEF MergeRef
<1>22. CASE MergeNothing(t)
  BY <1>1, <1>22 DEF MergeNothing
<1>23. CASE MergeReadBack(t)
  BY <1>1, <1>23 DEF MergeReadBack
<1>24. CASE UpdateExcerpt(t)
  BY <1>1, <1>24 DEF UpdateExcerpt
<1>25. CASE UpdateExcerptFails(t)
  BY <1>1, <1>25 DEF UpdateExcerptFails
<1>26. CASE Write(t)
  BY <1>1, <1>26 DEF Write
<1>27. CASE WriteFails(t)
  BY <1>1, <1>27 DEF WriteFails
<1>28. CASE Load(t)
  BY <1>1, <1>28 DEF Load
<1>29. CASE \E kind \in Kinds : Ask(t, kind)
  BY <1>29 DEF Ask
<1>30. QED
  BY <1>2, <1>3, <1>4, <1>5, <1>6, <1>7, <1>8, <1>9, <1>10, <1>11, <1>12, <1>13, <1>14, <1>15, <1>16, <1>17, <1>18, <1>19, <1>20, <1>21, <1>22, <1>23, <1>24, <1>25, <1>26, <1>27, <1>28, <1>29 DEF Acts, Step

\* So no move makes a recorded hash the ref's.
LEMMA CurrentKept ==
  ASSUME ControlInv, NEW t \in Thread, Acts(t), NEW e, NEW h \in 0..commits, Trusted(e, h)
  PROVE  Trusted(e, h)'
<1>1. commits \in Nat
  BY DEF ControlInv, TypeOK
<1>2. QED
  BY <1>1, TipMoves DEF Trusted, Loose, Current, Shows, Shown, Read

\* What the moving thread's process may write to its file can be trusted.
LEMMA PresentStep ==
  ASSUME OneCaller, CacheInv, CurrentInv, NEW t \in Thread, Acts(t), Presentable(ProcOf[t])'
  PROVE  Trusted(excerpt[ProcOf[t]], noted[ProcOf[t]])'
<1> DEFINE p == ProcOf[t]
<1>1. /\ ControlInv /\ p \in Proc /\ CallInv(t) /\ OpenInv(t) /\ LockInv(t)
      /\ excerpt \in [Proc -> Excerpt \cup {None}] /\ noted \in [Proc -> 0..commits]
      /\ pc \in [Thread -> {"idle", "listed", "resolving", "holding", "notify", "waiting",
                        "locked", "adding", "merged", "write"}]
      /\ call \in [Thread -> Kinds \cup {"none", "load", "build", "refresh"}]
      /\ open \subseteq Proc
  BY DEF CacheInv, ControlInv, TypeOK
<1>2. Presentable(p) => Trusted(excerpt[p], noted[p])
  BY <1>1 DEF CurrentInv
<1>3. excerpt'[p] = excerpt[p] /\ noted'[p] = noted[p] /\ Presentable(p) => Trusted(excerpt[p], noted[p])'
  <2>1. PICK e, h : e = excerpt[p] /\ h = noted[p]
    OBVIOUS
  <2>2. Presentable(p) => Trusted(e, h)'
    BY <1>1, <1>2, <2>1, CurrentKept
  <2>3. QED
    BY <2>1, <2>2 DEF Trusted, Loose, Current, Shows, Shown
<1>4. ASSUME NEW s \in Of(p), s # t
      PROVE  pc'[s] = pc[s] /\ call'[s] = call[s]
  BY <1>1, <1>4, OthersKept DEF Of
<1>5. t \in Of(p) /\ \A s \in Of(p) : s \in Thread
  BY DEF Of
<1>shown. /\ FromRef(tip) # None /\ FromRef(tip).at = tip
          /\ ~FromRef(tip).staged
  BY <1>1, Contents, Shapes DEF ControlInv, Read, FromRef
<1>6. \/ Presentable(p) /\ excerpt'[p] = excerpt[p] /\ noted'[p] = noted[p]
      \/ Trusted(excerpt[p], noted[p])'
  <2>1. CASE BuildRead(t)
    BY <1>1, <1>4, <1>5, <1>shown, <2>1 DEF BuildRead, Goto, Enter, Leave, StartBuild, Caller, CallInv, OpenInv, Opens, Presentable, Trusted, Loose, Current, Shows, Of
  <2>2. CASE BuildFails(t)
    BY <1>1, <1>4, <1>5, <2>2 DEF BuildFails, Goto, Enter, Leave, StartBuild, Caller, CallInv, OpenInv, Opens, Presentable, Trusted, Loose, Current, Shows, Shown, Read, Of
  <2>3. CASE RefreshList(t)
    BY <1>1, <1>4, <1>5, <2>3 DEF RefreshList, Goto, Enter, Leave, StartBuild, Caller, CallInv, OpenInv, Opens, Presentable, Trusted, Loose, Current, Shows, Shown, Read, Of
  <2>4. CASE RefreshNothing(t)
    BY <1>1, <1>4, <1>5, <2>4 DEF RefreshNothing, Goto, Enter, Leave, StartBuild, Caller, CallInv, OpenInv, Opens, Presentable, Trusted, Loose, Current, Shows, Shown, Read, Of
  <2>5. CASE RefreshRead(t)
    <3>1. excerpt'[p] = FromRef(tip) /\ tip' = tip
      BY <1>1, <2>5 DEF RefreshRead
    <3>2. QED
      BY <1>shown, <3>1 DEF Trusted, Current, Shows
  <2>6. CASE RefreshReadFails(t)
    BY <1>1, <1>4, <1>5, <2>6 DEF RefreshReadFails, Goto, Enter, Leave, StartBuild, Caller, CallInv, OpenInv, Opens, Presentable, Trusted, Loose, Current, Shows, Shown, Read, Of
  <2>7. CASE RefreshForget(t)
    BY <1>1, <1>4, <1>5, <2>7 DEF RefreshForget, Goto, Enter, Leave, StartBuild, Caller, CallInv, OpenInv, Opens, Presentable, Trusted, Loose, Current, Shows, Shown, Read, Of
  <2>8. CASE ResolveHit(t)
    BY <1>1, <1>4, <1>5, <2>8 DEF ResolveHit, Goto, Enter, Leave, StartBuild, Caller, CallInv, OpenInv, Opens, Presentable, Trusted, Loose, Current, Shows, Shown, Read, Of
  <2>9. CASE ResolveMiss(t)
    BY <1>1, <1>4, <1>5, <2>9 DEF ResolveMiss, Goto, Enter, Leave, StartBuild, Caller, CallInv, OpenInv, Opens, Presentable, Trusted, Loose, Current, Shows, Shown, Read, Of
  <2>10. CASE PutCached(t)
    BY <1>1, <1>4, <1>5, <2>10 DEF PutCached, Goto, Enter, Leave, StartBuild, Caller, CallInv, OpenInv, Opens, Presentable, Trusted, Loose, Current, Shows, Shown, Read, Of
  <2>11. CASE Release(t)
    BY <1>1, <1>4, <1>5, <2>11 DEF Release, Goto, Enter, Leave, StartBuild, Caller, CallInv, OpenInv, Opens, Presentable, Trusted, Loose, Current, Shows, Shown, Read, Of
  <2>12. CASE Stage(t)
    BY <1>1, <1>4, <1>5, <2>12 DEF Stage, Goto, Enter, Leave, StartBuild, Caller, CallInv, OpenInv, Opens, Presentable, Trusted, Loose, Current, Shows, Shown, Read, Of
  <2>13. CASE TakeLock(t)
    BY <1>1, <1>4, <1>5, <2>13 DEF TakeLock, Goto, Enter, Leave, StartBuild, Caller, CallInv, OpenInv, Opens, Presentable, Trusted, Loose, Current, Shows, Shown, Read, Of
  <2>14. CASE LockTimeout(t)
    BY <1>1, <1>4, <1>5, <2>14 DEF LockTimeout, Goto, Enter, Leave, StartBuild, Caller, CallInv, OpenInv, Opens, Presentable, Trusted, Loose, Current, Shows, Shown, Read, Of
  <2>15. CASE Commit(t)
    BY <1>1, <1>4, <1>5, <2>15 DEF Commit, Goto, Enter, Leave, StartBuild, Caller, CallInv, OpenInv, Opens, Presentable, Trusted, Loose, Current, Shows, Shown, Read, Of
  <2>16. CASE CommitNot(t)
    BY <1>1, <1>4, <1>5, <2>16 DEF CommitNot, Goto, Enter, Leave, StartBuild, Caller, CallInv, OpenInv, Opens, Presentable, Trusted, Loose, Current, Shows, Shown, Read, Of
  <2>17. CASE CommitNew(t)
    BY <1>1, <1>4, <1>5, <2>17 DEF CommitNew, Goto, Enter, Leave, StartBuild, Caller, CallInv, OpenInv, Opens, Presentable, Trusted, Loose, Current, Shows, Shown, Read, Of
  <2>18. CASE Add(t)
    BY <1>1, <1>4, <1>5, <2>18 DEF Add, Goto, Enter, Leave, StartBuild, Caller, CallInv, OpenInv, Opens, Presentable, Trusted, Loose, Current, Shows, Shown, Read, Of
  <2>19. CASE RemoveRef(t)
    BY <1>1, <1>4, <1>5, <2>19 DEF RemoveRef, Goto, Enter, Leave, StartBuild, Caller, CallInv, OpenInv, Opens, Presentable, Trusted, Loose, Current, Shows, Shown, Read, Of
  <2>20. CASE MergeRef(t)
    BY <1>1, <1>4, <1>5, <2>20 DEF MergeRef, Goto, Enter, Leave, StartBuild, Caller, CallInv, OpenInv, Opens, Presentable, Trusted, Loose, Current, Shows, Shown, Read, Of
  <2>21. CASE MergeNothing(t)
    BY <1>1, <1>4, <1>5, <2>21 DEF MergeNothing, Goto, Enter, Leave, StartBuild, Caller, CallInv, OpenInv, Opens, Presentable, Trusted, Loose, Current, Shows, Shown, Read, Of
  <2>22. CASE MergeReadBack(t)
    <3>1. excerpt'[p] = FromRef(tip) /\ tip' = tip
      BY <1>1, <2>22 DEF MergeReadBack
    <3>2. QED
      BY <1>shown, <3>1 DEF Trusted, Current, Shows
  <2>23. CASE UpdateExcerpt(t)
    <3>1. excerpt'[p] = Shown(inst[cached[p]], lock # t) /\ noted'[p] = tip /\ tip' = tip
      BY <1>1, <2>23 DEF UpdateExcerpt
    <3>2. inst[cached[p]] \in Content /\ (lock # t) \in BOOLEAN
      BY <1>1, <2>23 DEF UpdateExcerpt, ControlInv, TypeOK
    <3>9. Shown(inst[cached[p]], lock # t) \in Excerpt
      BY <3>2, Shapes
    <3>10. None \notin Excerpt
      BY Shapes
    <3>7. excerpt'[p] # None
      BY <3>1, <3>9, <3>10
    <3>11. /\ Shown(inst[cached[p]], lock # t).at = inst[cached[p]].at
           /\ Shown(inst[cached[p]], lock # t).staged = inst[cached[p]].staged
      BY DEF Shown
    <3>12. lock # t => Shown(inst[cached[p]], lock # t).loose
      BY DEF Shown
    <3>8. /\ excerpt'[p].at = inst[cached[p]].at /\ excerpt'[p].staged = inst[cached[p]].staged
          /\ lock # t => excerpt'[p].loose
      BY <3>1, <3>11, <3>12
    <3>5. CASE lock # t
      BY <3>7, <3>8, <3>5 DEF Trusted, Loose
    <3>4. CASE lock = t
      <4>1. cur[t] # None
        BY <1>1, <2>23 DEF UpdateExcerpt, CallInv
      <4>2. inst[cur[t]] = Read(tip) /\ cached[p] = cur[t]
        BY <1>1, <2>23, <3>4, <4>1 DEF UpdateExcerpt, CacheInv, ToldInv, OneInstance
      <4>3. QED
        BY <3>1, <3>7, <3>8, <4>2 DEF Trusted, Current, Shows, Read
    <3>6. QED
      BY <3>4, <3>5
  <2>24. CASE UpdateExcerptFails(t)
    BY <1>1, <1>4, <1>5, <2>24 DEF UpdateExcerptFails, Goto, Enter, Leave, StartBuild, Caller, CallInv, OpenInv, Opens, Presentable, Trusted, Loose, Current, Shows, Shown, Read, Of
  <2>25. CASE Write(t)
    BY <1>1, <1>4, <1>5, <2>25 DEF Write, Goto, Enter, Leave, StartBuild, Caller, CallInv, OpenInv, Opens, Presentable, Trusted, Loose, Current, Shows, Shown, Read, Of
  <2>26. CASE WriteFails(t)
    BY <1>1, <1>4, <1>5, <2>26 DEF WriteFails, Goto, Enter, Leave, StartBuild, Caller, CallInv, OpenInv, Opens, Presentable, Trusted, Loose, Current, Shows, Shown, Read, Of
  <2>27. CASE Load(t)
    <3>1. CASE StartBuild(t) /\ tip' = tip /\ open' = open
      <4>1. ~Presentable(p)'
        BY <1>1, <1>4, <1>5, <2>27, <3>1 DEF Load, StartBuild, Enter, Presentable, Of
      <4>2. QED
        BY <4>1
    <3>2. ASSUME NEW page \in pages, excerpt' = [excerpt EXCEPT ![p] = page.excerpt],
                 noted' = [noted EXCEPT ![p] = page.noted], tip' = tip
          PROVE  Trusted(excerpt[p], noted[p])'
      BY <1>1, <3>2 DEF CurrentInv, Trusted, Loose, Current, Shows, Shown, Read
    <3>3. QED
      BY <2>27, <3>1, <3>2 DEF Load
  <2>28. CASE \E kind \in Kinds : Ask(t, kind)
    BY <1>1, <1>4, <1>5, <2>28 DEF Ask, Caller, Presentable
  <2>29. QED
    BY <2>1, <2>2, <2>3, <2>4, <2>5, <2>6, <2>7, <2>8, <2>9, <2>10, <2>11, <2>12, <2>13, <2>14, <2>15, <2>16, <2>17, <2>18, <2>19, <2>20, <2>21, <2>22, <2>23, <2>24, <2>25, <2>26, <2>27, <2>28 DEF Acts, Step
<1>7. QED
  BY <1>3, <1>6

\* What is shown is of commits that were made.
LEMMA MadeStep ==
  ASSUME ControlInv, MadeInv, NEW t \in Thread, Acts(t)
  PROVE  MadeInv'
<1> DEFINE p == ProcOf[t]
<1>1. /\ p \in Proc /\ commits \in Nat /\ commits' \in Nat /\ commits <= commits' /\ tip \in Nat
      /\ tip' <= commits' /\ tip <= commits /\ CallInv(t) /\ HeldInv(t)
      /\ excerpt \in [Proc -> Excerpt \cup {None}] /\ inst \in [Inst -> Content]
      /\ cached \in [Proc -> Inst \cup {None}] /\ cur \in [Thread -> Inst \cup {None}]
      /\ \A page \in pages : page.excerpt \in Excerpt \cup {None}
      /\ call[t] = "merge" => t \notin Watcher
  BY TypeOfStep, TipStep DEF ControlInv, TypeOK, Page, HeldInv
<1>2. /\ cur[t] = None /\ (t \notin Watcher \/ Opens(t)) => Fresh(p) \in Inst
      /\ \A c \in Content \cup Excerpt : c.at \in Nat
      /\ FromRef(tip).at = tip /\ FromRef(tip) # None
      /\ \A h : Read(h).at = h
      /\ PageOf(p).excerpt = excerpt[p]
      /\ \A used : Swept(p, used) \in [Inst -> Content]
      /\ \A used : \A x \in Inst : Swept(p, used)[x].at <= commits
  <2>1. \A used : \A x \in Inst : Swept(p, used)[x] \in {Read(0), inst[x]}
    BY DEF Swept
  <2>2. \A used : \A x \in Inst : Swept(p, used)[x].at <= commits
    BY <1>1, <2>1 DEF MadeInv, Read
  <2>3. QED
    BY <2>2, FreshCaller, Contents, Shapes DEF Read, PageOf, ControlInv
<1>3. /\ \A q \in Proc : excerpt[q] # None => excerpt[q].at <= commits'
      /\ \A x \in Inst : inst[x].at <= commits'
      /\ \A page \in pages : page.excerpt # None => page.excerpt.at <= commits'
      /\ \A used : \A x \in Inst : Swept(p, used)[x].at <= commits'
  <2>1. /\ \A q \in Proc : excerpt[q] # None => excerpt[q].at \in Nat
        /\ \A x \in Inst : inst[x].at \in Nat
        /\ \A page \in pages : page.excerpt # None => page.excerpt.at \in Nat
        /\ \A used : \A x \in Inst : Swept(p, used)[x].at \in Nat
    BY <1>1, <1>2
  <2>2. QED
    BY <1>1, <1>2, <2>1 DEF MadeInv
<1>4. CASE BuildRead(t)
  <2>1. \A q \in Proc : excerpt'[q] = excerpt[q] \/ excerpt'[q] = FromRef(tip)
    BY <1>1, <1>4 DEF BuildRead
  <2>2. \A x \in Inst : inst'[x] = inst[x] \/ inst'[x] = Read(tip)
    BY <1>1, <1>4 DEF BuildRead
  <2>3. pages' = pages
    BY <1>4 DEF BuildRead
  <2>4. QED
    BY <1>1, <1>2, <1>3, <2>1, <2>2, <2>3 DEF MadeInv
<1>5. CASE BuildFails(t)
  BY <1>1, <1>2, <1>3, <1>5 DEF BuildFails, Goto, Enter, Leave, StartBuild, Caller, MadeInv, CallInv, HeldInv, Opens
<1>6. CASE RefreshList(t)
  BY <1>1, <1>2, <1>3, <1>6 DEF RefreshList, Goto, Enter, Leave, StartBuild, Caller, MadeInv, CallInv, HeldInv, Opens
<1>7. CASE RefreshNothing(t)
  BY <1>1, <1>2, <1>3, <1>7 DEF RefreshNothing, Goto, Enter, Leave, StartBuild, Caller, MadeInv, CallInv, HeldInv, Opens
<1>8. CASE RefreshRead(t)
  BY <1>1, <1>2, <1>3, <1>8 DEF RefreshRead, Goto, Enter, Leave, StartBuild, Caller, MadeInv, CallInv, HeldInv, Opens
<1>9. CASE RefreshReadFails(t)
  BY <1>1, <1>2, <1>3, <1>9 DEF RefreshReadFails, Goto, Enter, Leave, StartBuild, Caller, MadeInv, CallInv, HeldInv, Opens
<1>10. CASE RefreshForget(t)
  BY <1>1, <1>2, <1>3, <1>10 DEF RefreshForget, Goto, Enter, Leave, StartBuild, Caller, MadeInv, CallInv, HeldInv, Opens
<1>11. CASE ResolveHit(t)
  BY <1>1, <1>2, <1>3, <1>11 DEF ResolveHit, Goto, Enter, Leave, StartBuild, Caller, MadeInv, CallInv, HeldInv, Opens
<1>12. CASE ResolveMiss(t)
  BY <1>1, <1>2, <1>3, <1>12 DEF ResolveMiss, Goto, Enter, Leave, StartBuild, Caller, MadeInv, CallInv, HeldInv, Opens
<1>13. CASE PutCached(t)
  BY <1>1, <1>2, <1>3, <1>13 DEF PutCached, Goto, Enter, Leave, StartBuild, Caller, MadeInv, CallInv, HeldInv, Opens
<1>14. CASE Release(t)
  BY <1>1, <1>2, <1>3, <1>14 DEF Release, Goto, Enter, Leave, StartBuild, Caller, MadeInv, CallInv, HeldInv, Opens
<1>15. CASE Stage(t)
  BY <1>1, <1>2, <1>3, <1>15 DEF Stage, Goto, Enter, Leave, StartBuild, Caller, MadeInv, CallInv, HeldInv, Opens
<1>16. CASE TakeLock(t)
  BY <1>1, <1>2, <1>3, <1>16 DEF TakeLock, Goto, Enter, Leave, StartBuild, Caller, MadeInv, CallInv, HeldInv, Opens
<1>17. CASE LockTimeout(t)
  BY <1>1, <1>2, <1>3, <1>17 DEF LockTimeout, Goto, Enter, Leave, StartBuild, Caller, MadeInv, CallInv, HeldInv, Opens
<1>18. CASE Commit(t)
  BY <1>1, <1>2, <1>3, <1>18 DEF Commit, Goto, Enter, Leave, StartBuild, Caller, MadeInv, CallInv, HeldInv, Opens
<1>19. CASE CommitNot(t)
  <2>1. CASE inst' = inst
    BY <1>1, <1>2, <1>3, <1>19, <2>1 DEF CommitNot, Leave, MadeInv
  <2>2. CASE cur[t] \in Inst /\ inst' = [inst EXCEPT ![cur[t]].at = tip]
    <3>1. \A x \in Inst : inst'[x].at \in {tip, inst[x].at}
      BY <1>1, <2>2 DEF Content
    <3>2. QED
      BY <1>1, <1>3, <1>19, <3>1 DEF CommitNot, Leave, MadeInv
  <2>3. QED
    BY <1>1, <1>19, <2>1, <2>2 DEF CommitNot, CallInv
<1>20. CASE CommitNew(t)
  BY <1>1, <1>2, <1>3, <1>20 DEF CommitNew, Goto, Enter, Leave, StartBuild, Caller, MadeInv, CallInv, HeldInv, Opens
<1>21. CASE Add(t)
  BY <1>1, <1>2, <1>3, <1>21 DEF Add, Goto, Enter, Leave, StartBuild, Caller, MadeInv, CallInv, HeldInv, Opens
<1>22. CASE RemoveRef(t)
  BY <1>1, <1>2, <1>3, <1>22 DEF RemoveRef, Goto, Enter, Leave, StartBuild, Caller, MadeInv, CallInv, HeldInv, Opens
<1>23. CASE MergeRef(t)
  BY <1>1, <1>2, <1>3, <1>23 DEF MergeRef, Goto, Enter, Leave, StartBuild, Caller, MadeInv, CallInv, HeldInv, Opens
<1>24. CASE MergeNothing(t)
  BY <1>1, <1>2, <1>3, <1>24 DEF MergeNothing, Goto, Enter, Leave, StartBuild, Caller, MadeInv, CallInv, HeldInv, Opens
<1>25. CASE MergeReadBack(t)
  BY <1>1, <1>2, <1>3, <1>25 DEF MergeReadBack, Goto, Enter, Leave, StartBuild, Caller, MadeInv, CallInv, HeldInv, Opens
<1>26. CASE UpdateExcerpt(t)
  <2>1. /\ cached[p] \in Inst /\ excerpt' = [excerpt EXCEPT ![p] = Shown(inst[cached[p]], lock # t)]
        /\ UNCHANGED <<inst, pages>>
    BY <1>1, <1>26 DEF UpdateExcerpt
  <2>2. Shown(inst[cached[p]], lock # t).at = inst[cached[p]].at
    BY DEF Shown
  <2>3. QED
    BY <1>1, <1>3, <2>1, <2>2 DEF MadeInv
<1>27. CASE UpdateExcerptFails(t)
  BY <1>1, <1>2, <1>3, <1>27 DEF UpdateExcerptFails, Goto, Enter, Leave, StartBuild, Caller, MadeInv, CallInv, HeldInv, Opens
<1>28. CASE Write(t)
  BY <1>1, <1>2, <1>3, <1>28 DEF Write, Goto, Enter, Leave, StartBuild, Caller, MadeInv, CallInv, HeldInv, Opens
<1>29. CASE WriteFails(t)
  BY <1>1, <1>2, <1>3, <1>29 DEF WriteFails, Goto, Enter, Leave, StartBuild, Caller, MadeInv, CallInv, HeldInv, Opens
<1>30. CASE Load(t)
  BY <1>1, <1>2, <1>3, <1>30 DEF Load, Goto, Enter, Leave, StartBuild, Caller, MadeInv, CallInv, HeldInv, Opens
<1>31. CASE \E kind \in Kinds : Ask(t, kind)
  BY <1>3, <1>31 DEF Ask, MadeInv
<1>32. QED
  BY <1>4, <1>5, <1>6, <1>7, <1>8, <1>9, <1>10, <1>11, <1>12, <1>13, <1>14, <1>15, <1>16, <1>17, <1>18, <1>19, <1>20, <1>21, <1>22, <1>23, <1>24, <1>25, <1>26, <1>27, <1>28, <1>29, <1>30, <1>31 DEF Acts, Step

\* Only what can be trusted is written to the file.
LEMMA PagesStep ==
  ASSUME CacheInv, CurrentInv, NEW t \in Thread, Acts(t)
  PROVE  \A page \in pages' : Trusted(page.excerpt, page.noted)'
<1> DEFINE p == ProcOf[t]
<1>1. /\ ControlInv /\ p \in Proc /\ CallInv(t) /\ OpenInv(t) /\ noted \in [Proc -> 0..commits]
      /\ \A page \in pages : page.noted \in 0..commits /\ Trusted(page.excerpt, page.noted)
      /\ Presentable(p) => Trusted(excerpt[p], noted[p])
      /\ PageOf(p) = [excerpt |-> excerpt[p], noted |-> noted[p]]
  BY DEF CacheInv, ControlInv, TypeOK, Page, TipInv, CurrentInv, PageOf
<1>2. pages' = pages \/ (pages' = pages \cup {PageOf(p)} /\ Presentable(p))
  <2>1. CASE BuildRead(t)
    BY <1>1, <2>1 DEF BuildRead, CallInv, OpenInv, Opens, Presentable, Of
  <2>2. CASE BuildFails(t)
    BY <1>1, <2>2 DEF BuildFails, CallInv, OpenInv, Opens, Presentable, Of
  <2>3. CASE RefreshList(t)
    BY <1>1, <2>3 DEF RefreshList, CallInv, OpenInv, Opens, Presentable, Of
  <2>4. CASE RefreshNothing(t)
    BY <1>1, <2>4 DEF RefreshNothing, CallInv, OpenInv, Opens, Presentable, Of
  <2>5. CASE RefreshRead(t)
    BY <1>1, <2>5 DEF RefreshRead, CallInv, OpenInv, Opens, Presentable, Of
  <2>6. CASE RefreshReadFails(t)
    BY <1>1, <2>6 DEF RefreshReadFails, CallInv, OpenInv, Opens, Presentable, Of
  <2>7. CASE RefreshForget(t)
    BY <1>1, <2>7 DEF RefreshForget, CallInv, OpenInv, Opens, Presentable, Of
  <2>8. CASE ResolveHit(t)
    BY <1>1, <2>8 DEF ResolveHit, CallInv, OpenInv, Opens, Presentable, Of
  <2>9. CASE ResolveMiss(t)
    BY <1>1, <2>9 DEF ResolveMiss, CallInv, OpenInv, Opens, Presentable, Of
  <2>10. CASE PutCached(t)
    BY <1>1, <2>10 DEF PutCached, CallInv, OpenInv, Opens, Presentable, Of
  <2>11. CASE Release(t)
    BY <1>1, <2>11 DEF Release, CallInv, OpenInv, Opens, Presentable, Of
  <2>12. CASE Stage(t)
    BY <1>1, <2>12 DEF Stage, CallInv, OpenInv, Opens, Presentable, Of
  <2>13. CASE TakeLock(t)
    BY <1>1, <2>13 DEF TakeLock, CallInv, OpenInv, Opens, Presentable, Of
  <2>14. CASE LockTimeout(t)
    BY <1>1, <2>14 DEF LockTimeout, CallInv, OpenInv, Opens, Presentable, Of
  <2>15. CASE Commit(t)
    BY <1>1, <2>15 DEF Commit, CallInv, OpenInv, Opens, Presentable, Of
  <2>16. CASE CommitNot(t)
    BY <1>1, <2>16 DEF CommitNot, CallInv, OpenInv, Opens, Presentable, Of
  <2>17. CASE CommitNew(t)
    BY <1>1, <2>17 DEF CommitNew, CallInv, OpenInv, Opens, Presentable, Of
  <2>18. CASE Add(t)
    BY <1>1, <2>18 DEF Add, CallInv, OpenInv, Opens, Presentable, Of
  <2>19. CASE RemoveRef(t)
    BY <1>1, <2>19 DEF RemoveRef, CallInv, OpenInv, Opens, Presentable, Of
  <2>20. CASE MergeRef(t)
    BY <1>1, <2>20 DEF MergeRef, CallInv, OpenInv, Opens, Presentable, Of
  <2>21. CASE MergeNothing(t)
    BY <1>1, <2>21 DEF MergeNothing, CallInv, OpenInv, Opens, Presentable, Of
  <2>22. CASE MergeReadBack(t)
    BY <1>1, <2>22 DEF MergeReadBack, CallInv, OpenInv, Opens, Presentable, Of
  <2>23. CASE UpdateExcerpt(t)
    BY <1>1, <2>23 DEF UpdateExcerpt, CallInv, OpenInv, Opens, Presentable, Of
  <2>24. CASE UpdateExcerptFails(t)
    BY <1>1, <2>24 DEF UpdateExcerptFails, CallInv, OpenInv, Opens, Presentable, Of
  <2>25. CASE Write(t)
    BY <1>1, <2>25 DEF Write, CallInv, OpenInv, Opens, Presentable, Of
  <2>26. CASE WriteFails(t)
    BY <1>1, <2>26 DEF WriteFails, CallInv, OpenInv, Opens, Presentable, Of
  <2>27. CASE Load(t)
    BY <1>1, <2>27 DEF Load, CallInv, OpenInv, Opens, Presentable, Of
  <2>28. CASE \E kind \in Kinds : Ask(t, kind)
    BY <2>28 DEF Ask
  <2>29. QED
    BY <2>1, <2>2, <2>3, <2>4, <2>5, <2>6, <2>7, <2>8, <2>9, <2>10, <2>11, <2>12, <2>13, <2>14, <2>15, <2>16, <2>17, <2>18, <2>19, <2>20, <2>21, <2>22, <2>23, <2>24, <2>25, <2>26, <2>27, <2>28 DEF Acts, Step
<1>3. SUFFICES ASSUME NEW page \in pages'
               PROVE  Trusted(page.excerpt, page.noted)'
  OBVIOUS
<1>4. page.noted \in 0..commits /\ Trusted(page.excerpt, page.noted)
  BY <1>1, <1>2
<1>5. PICK e, h : e = page.excerpt /\ h = page.noted
  OBVIOUS
<1>6. Trusted(e, h)'
  BY <1>1, <1>4, <1>5, CurrentKept
<1>7. QED
  BY <1>5, <1>6

\* Whoever opens a cache, and whoever has it open, can trust what it records.
LEMMA CurrentStep ==
  ASSUME OneCaller, CacheInv, CurrentInv, [Next]_vars
  PROVE  CurrentInv'
<1>1. ASSUME NEW t \in Thread, Acts(t)
      PROVE  CurrentInv'
  <2>1. ControlInv /\ ProcOf[t] \in Proc
    BY DEF CacheInv
  <2>2. ASSUME NEW q \in Proc, Presentable(q)'
        PROVE  Trusted(excerpt[q], noted[q])'
    <3>1. CASE q = ProcOf[t]
      BY <1>1, <2>2, <3>1, PresentStep
    <3>2. CASE q # ProcOf[t]
      <4>1. excerpt'[q] = excerpt[q] /\ noted'[q] = noted[q] /\ (q \in open' <=> q \in open)
        BY <1>1, <2>1, <3>2, OtherProcess
      <4>2. \A s \in Of(q) : pc'[s] = pc[s] /\ call'[s] = call[s]
        BY <1>1, <2>1, <3>2, OthersKept DEF Of
      <4>3. Presentable(q)
        BY <2>2, <4>1, <4>2 DEF Presentable, Of
      <4>4. Trusted(excerpt[q], noted[q]) /\ noted[q] \in 0..commits
        BY <2>1, <4>3 DEF CurrentInv, ControlInv, TypeOK
      <4>5. PICK e, h : e = excerpt[q] /\ h = noted[q]
        OBVIOUS
      <4>6. Trusted(e, h)'
        BY <1>1, <2>1, <4>4, <4>5, CurrentKept
      <4>7. QED
        BY <4>1, <4>5, <4>6 DEF Trusted, Loose, Current, Shows, Shown
    <3>3. QED
      BY <3>1, <3>2
  <2>3. MadeInv'
    BY <1>1, <2>1, MadeStep DEF CurrentInv
  <2>4. \A page \in pages' : Trusted(page.excerpt, page.noted)'
    BY <1>1, PagesStep
  <2>5. QED
    BY <2>2, <2>3, <2>4 DEF CurrentInv
<1>2. ASSUME NEW p \in Proc, Crash(p)
      PROVE  CurrentInv'
  <2>1. /\ ControlInv /\ MadeInv /\ commits \in Nat
        /\ \A q \in Proc : Presentable(q) => Trusted(excerpt[q], noted[q])
        /\ \A page \in pages : Trusted(page.excerpt, page.noted)
        /\ PageOf(p) = [excerpt |-> excerpt[p], noted |-> noted[p]]
    BY DEF CacheInv, ControlInv, TypeOK, CurrentInv, PageOf
  <2>2. /\ refVars' = refVars /\ open' = open \ {p}
        /\ \A q \in Proc : q # p => excerpt'[q] = excerpt[q] /\ noted'[q] = noted[q]
        /\ \A s \in Thread :
             IF ProcOf[s] = p THEN pc'[s] = "idle"
             ELSE pc'[s] = pc[s] /\ call'[s] = call[s]
    BY <1>2, <2>1, CrashLeaves
  <2>3. ASSUME NEW q \in Proc, Presentable(q)'
        PROVE  Trusted(excerpt[q], noted[q])'
    BY <2>1, <2>2, <2>3 DEF Presentable, Of, Trusted, Loose, Current, Shows, Shown
  <2>4. pages' = pages \/ (pages' = pages \cup {PageOf(p)} /\ Presentable(p))
    BY <1>2 DEF Crash, Presentable
  <2>5. \A page \in pages' : Trusted(page.excerpt, page.noted)'
    BY <2>1, <2>2, <2>4 DEF Trusted, Loose, Current, Shows, Shown
  <2>6. MadeInv'
    BY <1>2, <2>1, <2>2, <2>4 DEF MadeInv, Crash, Read, ControlInv, TypeOK
  <2>7. QED
    BY <2>3, <2>5, <2>6 DEF CurrentInv
<1>3. CASE UNCHANGED vars
  BY <1>3 DEF vars, CurrentInv, MadeInv, Presentable, Of, Trusted, Loose, Current, Shows, Shown
<1>4. QED
  BY <1>1, <1>2, <1>3 DEF Next, Acts

\* The hash recorded beside an excerpt says which commit the excerpt shows, in
\* every process and in whatever file the next one opens.
THEOREM HashTrusted == OneCaller => (Spec => []Verified)
<1> SUFFICES ASSUME OneCaller
             PROVE  Spec => []Verified
  OBVIOUS
<1>1. Init => CurrentInv
  BY DEF Init, CurrentInv, MadeInv, Presentable, Read, Trusted, Loose, Current, Shows, Shown
<1>2. CacheInv /\ CurrentInv /\ [Next]_vars => CurrentInv'
  BY CurrentStep
<1>3. CacheInv /\ CurrentInv => Verified
  BY DEF CurrentInv, Presentable, Verified, CacheInv, ControlInv, TypeOK
<1>4. QED
  BY <1>1, <1>2, <1>3, CacheInvariance, PTL DEF Spec

-----------------------------------------------------------------------------
\* What a process shows of an issue never goes back to an earlier state of it:
\* it reads no commit but the latest, whatever it listed before.
THEOREM NeverOlder == OneCaller => (Spec => NeverBack)
<1> SUFFICES ASSUME OneCaller
             PROVE  Spec => NeverBack
  OBVIOUS
<1>1. ASSUME CacheInv, MadeInv, [Next]_vars
      PROVE  [\A p \in open \cap open' :
                excerpt[p] # None /\ excerpt'[p] # None =>
                  excerpt[p].at <= excerpt'[p].at \/ excerpt'[p].loose]_vars
  <2> SUFFICES ASSUME NEW p \in open \cap open', excerpt[p] # None, excerpt'[p] # None
               PROVE  excerpt[p].at <= excerpt'[p].at \/ excerpt'[p].loose
    OBVIOUS
  <2>1. /\ ControlInv /\ p \in Proc /\ commits \in Nat /\ tip \in {0, commits}
        /\ excerpt \in [Proc -> Excerpt \cup {None}] /\ excerpt[p].at \in Nat
        /\ excerpt[p].at <= commits
    BY <1>1, Shapes DEF CacheInv, ControlInv, TypeOK, TipInv, MadeInv
  <2>2. ASSUME NEW t \in Thread, Acts(t)
        PROVE  excerpt'[p] \in {excerpt[p], None} \/ (tip # 0 /\ excerpt'[p].at = tip) \/ excerpt'[p].loose
    <3>1. CallInv(t) /\ OpenInv(t) /\ LockInv(t) /\ ProcOf[t] \in Proc
      BY <2>1 DEF ControlInv
    <3>2. CASE BuildRead(t)
      BY <1>1, <2>1, <3>1, <3>2 DEF BuildRead, Shown, Read, StartBuild, CallInv, OpenInv, Opens
    <3>3. CASE BuildFails(t)
      BY <1>1, <2>1, <3>1, <3>3 DEF BuildFails, StartBuild, CallInv, OpenInv, Opens
    <3>4. CASE RefreshList(t)
      BY <1>1, <2>1, <3>1, <3>4 DEF RefreshList, StartBuild, CallInv, OpenInv, Opens
    <3>5. CASE RefreshNothing(t)
      BY <2>1, <3>5 DEF RefreshNothing
    <3>6. CASE RefreshRead(t)
      BY <2>1, <3>6 DEF RefreshRead, Shown, Read, FromRef
    <3>7. CASE RefreshReadFails(t)
      BY <1>1, <2>1, <3>1, <3>7 DEF RefreshReadFails, StartBuild, CallInv, OpenInv, Opens
    <3>8. CASE RefreshForget(t)
      BY <2>1, <3>8 DEF RefreshForget
    <3>9. CASE ResolveHit(t)
      BY <2>1, <3>9 DEF ResolveHit
    <3>10. CASE ResolveMiss(t)
      BY <2>1, <3>10 DEF ResolveMiss
    <3>11. CASE PutCached(t)
      BY <2>1, <3>11 DEF PutCached
    <3>12. CASE Release(t)
      BY <2>1, <3>12 DEF Release
    <3>13. CASE Stage(t)
      BY <2>1, <3>13 DEF Stage
    <3>14. CASE TakeLock(t)
      BY <2>1, <3>14 DEF TakeLock
    <3>15. CASE LockTimeout(t)
      BY <2>1, <3>15 DEF LockTimeout
    <3>16. CASE Commit(t)
      BY <2>1, <3>16 DEF Commit
    <3>17. CASE CommitNot(t)
      BY <2>1, <3>17 DEF CommitNot
    <3>18. CASE CommitNew(t)
      BY <2>1, <3>18 DEF CommitNew
    <3>19. CASE Add(t)
      BY <2>1, <3>19 DEF Add
    <3>20. CASE RemoveRef(t)
      BY <2>1, <3>20 DEF RemoveRef
    <3>21. CASE MergeRef(t)
      BY <2>1, <3>21 DEF MergeRef
    <3>22. CASE MergeNothing(t)
      BY <2>1, <3>22 DEF MergeNothing
    <3>23. CASE MergeReadBack(t)
      BY <1>1, <2>1, <3>1, <3>23 DEF MergeReadBack, Shown, Read, StartBuild, CallInv, OpenInv, Opens, ToldInv, CacheInv, FromRef
    <3>24. CASE UpdateExcerpt(t)
      <4>1. cur[t] # None
        BY <2>1, <3>1, <3>24 DEF UpdateExcerpt, CallInv
      <4>2. CASE lock # t
        BY <2>1, <3>1, <3>24, <4>2 DEF UpdateExcerpt, Shown
      <4>3. CASE lock = t
        <5>1. tip # 0 /\ inst[cur[t]] = Read(tip) /\ cached[ProcOf[t]] = cur[t]
          BY <1>1, <3>1, <3>24, <4>1, <4>3 DEF UpdateExcerpt, CacheInv, ToldInv, OneInstance
        <5>2. QED
          BY <2>1, <3>1, <3>24, <4>3, <5>1 DEF UpdateExcerpt, Shown, Read
      <4>4. QED
        BY <4>2, <4>3
    <3>25. CASE UpdateExcerptFails(t)
      BY <2>1, <3>25 DEF UpdateExcerptFails
    <3>26. CASE Write(t)
      BY <2>1, <3>26 DEF Write
    <3>27. CASE WriteFails(t)
      BY <2>1, <3>1, <3>27 DEF WriteFails, StartBuild, OpenInv, Opens
    <3>28. CASE Load(t)
      BY <2>1, <3>28 DEF Load, StartBuild
    <3>29. CASE \E kind \in Kinds : Ask(t, kind)
      BY <3>29 DEF Ask
    <3>30. QED
      BY <2>2, <3>2, <3>3, <3>4, <3>5, <3>6, <3>7, <3>8, <3>9, <3>10, <3>11, <3>12, <3>13, <3>14, <3>15, <3>16, <3>17, <3>18, <3>19, <3>20, <3>21, <3>22, <3>23, <3>24, <3>25, <3>26, <3>27, <3>28, <3>29 DEF Acts, Step
  <2>3. ASSUME NEW q \in Proc, Crash(q)
        PROVE  excerpt'[p] = excerpt[p]
    BY <2>1, <2>3, CrashLeaves DEF Crash
  <2>4. CASE UNCHANGED vars
    BY <2>1, <2>4 DEF vars
  <2>5. excerpt'[p] = excerpt[p] \/ (tip # 0 /\ excerpt'[p].at = tip) \/ excerpt'[p].loose
    BY <1>1, <2>2, <2>3, <2>4 DEF Next, Acts, vars
  <2>6. QED
    BY <2>1, <2>5 DEF Read
<1>2. Init => CurrentInv
  BY DEF Init, CurrentInv, MadeInv, Presentable, Read, Trusted, Loose, Current, Shows, Shown
<1>3. CacheInv /\ CurrentInv /\ [Next]_vars => CurrentInv'
  BY CurrentStep
<1>4. CurrentInv => MadeInv
  BY DEF CurrentInv
<1>5. QED
  BY <1>1, <1>2, <1>3, <1>4, CacheInvariance, PTL DEF Spec, NeverBack

=============================================================================
