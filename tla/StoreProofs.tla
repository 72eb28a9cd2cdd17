---------------------------- MODULE StoreProofs ----------------------------
(***************************************************************************)
(* Proofs about Store, for any number of processes, threads, instances and *)
(* issues.  First the control: IInv is inductive, so every variable keeps  *)
(* its type, refs only move forward, and a removed issue stays removed.    *)
(* Then the operations: DataInv and TimeInv are inductive together with    *)
(* IInv, so a call's operations are saved whole and once, no answer lies   *)
(* about them, none is lost in silence, Lamport times follow the history,  *)
(* and the store implements OpLog.                                         *)
(***************************************************************************)
EXTENDS StoreInv, SequenceTheorems, TLAPS

USE StoreAssumption DEF repoVars, clockVars, instVars, callVars, histVars

\* An issue being built stays its builder's as long as no ref moves, no
\* instance becomes live and no other entity starts being built.
LEMMA NewKept ==
  ASSUME IInv, UNCHANGED <<ref, removed>>, live' \subseteq live,
         \A b \in Batch : home[b] # None => home'[b] = home[b],
         \A v \in Worker : call'[v] = "new" => call[v] = "new" /\ cur'[v] = cur[v],
         \A v \in Worker : Building(v)' => Building(v)
  PROVE  \A v \in Worker : NewInv(v)'
<1> SUFFICES ASSUME NEW v \in Worker, Building(v)'
             PROVE  NewInv(v)'
  BY DEF NewInv
<1>1. Building(v) /\ NewInv(v) /\ CallInv(v) /\ cur'[v] = cur[v]
  BY DEF IInv, Building
<1>2. IssueAt(v) \in Issue /\ IssueAt(v)' = IssueAt(v)
  BY <1>1 DEF CallInv, Building, IssueAt
<1>3. \E b \in Batch : home'[b] = IssueAt(v)
  BY <1>1, <1>2 DEF NewInv
<1>4. ASSUME NEW u \in Worker, call'[u] = "new", IssueOf[cur'[u]] = IssueAt(v)
      PROVE  u = v
  BY <1>1, <1>4 DEF NewInv, IssueAt
<1>5. QED
  BY <1>1, <1>2, <1>3, <1>4 DEF NewInv, IssueAt

\* Whatever exists of an issue keeps the batch it was built for, when what
\* becomes visible (a ref, a removal, an instance) is of an issue that has one.
LEMMA HomeKept ==
  ASSUME IInv,
         \A b \in Batch : home[b] # None => home'[b] = home[b],
         \A i \in Issue : \/ ref'[i] # {} => ref[i] # {}
                           \/ \E b \in Batch : home[b] = i,
         \A i \in removed' : i \in removed \/ \E b \in Batch : home[b] = i,
         \A x \in live' : x \in live \/ \E b \in Batch : home[b] = IssueOf[x],
         live' \subseteq Inst,
         \A v \in Worker : call'[v] = "new" => call[v] = "new" /\ cur'[v] = cur[v]
  PROVE  HomeInv'
<1>1. \A i \in Issue : (\E b \in Batch : home[b] = i) => \E b \in Batch : home'[b] = i
  BY StoreAssumption
<1>2. \A x \in Inst : IssueOf[x] \in Issue
  BY StoreAssumption
<1>3. \A i \in Issue : ref'[i] # {} \/ i \in removed' => \E b \in Batch : home'[b] = i
  BY <1>1 DEF IInv, HomeInv
<1>4. \A x \in live' : \E b \in Batch : home'[b] = IssueOf[x]
  BY <1>1, <1>2 DEF IInv, HomeInv
<1>5. ASSUME NEW v \in Worker, call'[v] = "new"
      PROVE  \E b \in Batch : home'[b] = IssueOf[cur'[v]]
  <2>1. call[v] = "new" /\ cur'[v] = cur[v] /\ cur[v] \in Inst
    BY <1>5 DEF IInv, CallInv
  <2>2. QED
    BY <1>1, <1>2, <2>1 DEF IInv, HomeInv, IssueAt
<1>6. QED
  BY <1>3, <1>4, <1>5 DEF HomeInv, IssueAt

\* newRaw giving up (lock timeout, failed write) leaves no trace of the entity
\* it was building.
LEMMA DropNewPreserves ==
  ASSUME IInv, NEW w \in Worker, call[w] = "new", DropNew(w),
         UNCHANGED <<repoVars, live, staged>>,
         mem' \in [Proc -> Nat], file' \in Nat, faults' \in Nat,
         mu' \in [Inst -> Worker \cup {None}],
         lock' = lock \/ (lock = w /\ lock' = None)
  PROVE  IInv'
<1> USE DEF IInv
<1>1. cur[w] \in Inst /\ \A v \in Worker : cur[v] = cur[w] => v = w
  BY DEF CallInv
<1>2. /\ UNCHANGED <<ref, removed, live, staged, home>>
      /\ pc' = [pc EXCEPT ![w] = "idle"]
      /\ call' = [call EXCEPT ![w] = "none"]
      /\ cur' = [cur EXCEPT ![w] = None]
      /\ mine' = [mine EXCEPT ![w] = {}]
      /\ pending' = [pending EXCEPT ![cur[w]] = <<>>]
      /\ base' = [base EXCEPT ![cur[w]] = {}]
      /\ reply' \in [Batch -> Replies]
  BY DEF DropNew, Tell, TypeOK, Replies
<1>3. pc'[w] = "idle" /\ call'[w] = "none" /\ cur'[w] = None
  BY <1>2 DEF TypeOK
<1>4. ASSUME NEW v \in Worker, v # w
      PROVE  pc'[v] = pc[v] /\ call'[v] = call[v] /\ cur'[v] = cur[v]
  BY <1>2, <1>4 DEF TypeOK
<1>5. TypeOK'
  BY <1>1, <1>2 DEF TypeOK, PCs, Calls
<1>6. ASSUME NEW v \in Worker
      PROVE  (CallInv(v) /\ LockInv(v) /\ TipInv(v))'
  <2>1. CASE v = w
    BY <1>3, <2>1 DEF CallInv, LockInv, TipInv
  <2>2. CASE v # w
    <3>1. CallInv(v)'
      <4>1. CallInv(v) /\ cur[v] \in Inst \cup {None}
        BY DEF TypeOK
      <4>2. ASSUME NEW u \in Worker, cur'[u] = cur[v], cur[v] \in Inst
            PROVE  u # w /\ cur[u] = cur[v]
        BY <1>3, <1>4, <4>2
      <4>3. QED
        BY <1>2, <1>4, <2>2, <4>1, <4>2 DEF CallInv
    <3>2. LockInv(v)'
      BY <1>2, <1>4, <2>2 DEF LockInv
    <3>3. TipInv(v)'
      BY SMTT(30), <1>1, <1>2, <1>4, <2>2 DEF TipInv, IssueAt, CallInv, TypeOK
    <3>4. QED
      BY <3>1, <3>2, <3>3
  <2>3. QED
    BY <2>1, <2>2
<1>7. \A v \in Worker : call'[v] = "new" => call[v] = "new" /\ cur'[v] = cur[v]
  BY <1>3, <1>4
<1>8. (\A v \in Worker : NewInv(v)') /\ HomeInv'
  BY <1>2, <1>3, <1>4, <1>7, NewKept, HomeKept DEF Building, TypeOK
<1>9. RemovedForGood'
  BY <1>2 DEF RemovedForGood
<1>10. QED
  BY <1>5, <1>6, <1>8, <1>9

\* A call that fails inside the lock lets everything go and moves no ref.
LEMMA GiveUpPreserves ==
  ASSUME IInv, NEW w \in Worker, GiveUp(w),
         pc[w] \in {"locked", "planned", "writing"}, call[w] # "new",
         UNCHANGED <<repoVars, live, base, staged, home>>,
         mem' \in [Proc -> Nat], file' \in Nat, faults' \in Nat,
         mine' \in [Worker -> SUBSET Batch], reply' \in [Batch -> Replies],
         pending' \in [Inst -> Seq(Op)]
  PROVE  IInv'
<1> USE DEF IInv
<1>1. cur[w] \in Inst /\ cur[w] \in live
  BY DEF CallInv
<1>2. pc'[w] = "holding" /\ call'[w] = "none" /\ cur' = cur /\ lock' = None
  BY DEF GiveUp, TypeOK
<1>3. ASSUME NEW v \in Worker, v # w
      PROVE  pc'[v] = pc[v] /\ call'[v] = call[v]
  BY <1>3 DEF GiveUp, TypeOK
<1>4. TypeOK'
  BY DEF TypeOK, GiveUp, PCs, Calls
<1>5. ASSUME NEW v \in Worker
      PROVE  (CallInv(v) /\ LockInv(v) /\ TipInv(v))'
  <2>1. CASE v = w
    BY <1>1, <1>2, <2>1 DEF CallInv, LockInv, TipInv
  <2>2. CASE v # w
    <3>1. CallInv(v)'
      <4>1. CallInv(v) /\ CallInv(w)
        OBVIOUS
      <4>2. ASSUME NEW u \in Worker, call[v] = "new", cur'[u] = cur'[v]
            PROVE  u = v
        BY <1>2, <4>1, <4>2 DEF CallInv
      <4>3. QED
        BY <1>2, <1>3, <2>2, <4>1, <4>2 DEF CallInv
    <3>2. LockInv(v)'
      BY <1>2, <1>3, <2>2 DEF LockInv
    <3>3. TipInv(v)'
      BY <1>2, <1>3, <2>2 DEF TipInv, IssueAt
    <3>4. QED
      BY <3>1, <3>2, <3>3
  <2>3. QED
    BY <2>1, <2>2
<1>6. \A v \in Worker : call'[v] = "new" => call[v] = "new" /\ cur'[v] = cur[v]
  BY <1>2, <1>3
<1>7. (\A v \in Worker : NewInv(v)') /\ HomeInv'
  BY <1>2, <1>3, <1>6, NewKept, HomeKept DEF Building, TypeOK
<1>8. RemovedForGood'
  BY DEF RemovedForGood
<1>9. QED
  BY <1>4, <1>5, <1>7, <1>8

\* What dag.Entity.Commit leaves staged, and what it puts into a pack, are
\* operations.
LEMMA ChunkLeaves ==
  ASSUME NEW s \in Seq(Op), NEW n \in 1..Len(s)
  PROVE  /\ SubSeq(s, n + 1, Len(s)) \in Seq(Op)
         /\ {s[j] : j \in 1..n} \subseteq Op
  <1>1. SubSeq(s, n + 1, Len(s)) \in Seq(Op)
    BY SubSeqProperties
  <1>2. ASSUME NEW j \in 1..n
        PROVE  s[j] \in Op
    <2>1. j \in 1..Len(s)
      OBVIOUS
    <2>2. QED
      BY <2>1, ElementOfSeq
  <1>3. QED
    BY <1>1, <1>2

\* The clock a process counts from is a number.
LEMMA ClockType ==
  ASSUME TypeOK, NEW p \in Proc
  PROVE  Clock(p) \in Nat
BY DEF TypeOK, Clock

\* Witnessing the packs of a commit leaves the clocks numbers.
LEMMA WitnessType ==
  ASSUME TypeOK, NEW p \in Proc, NEW head \in SUBSET Pack, Witness(p, head)
  PROVE  mem' \in [Proc -> Nat] /\ file' \in Nat
<1>1. \A k \in head : k.edit \in Nat
  BY DEF Pack
<1>2. PICK t \in {Clock(p)} \cup {k.edit : k \in head} : SetClock(p, t)
  BY DEF Witness
<1>3. t \in Nat
  BY <1>1, ClockType
<1>4. QED
  BY <1>2, <1>3 DEF SetClock, TypeOK

\* Handing out a cached instance.
LEMMA ResolveHitPreserves ==
  ASSUME IInv, NEW w \in Worker, NEW x \in Inst, ResolveHit(w, x)
  PROVE  IInv'
<1> USE DEF IInv
<1>2. TypeOK'
  BY DEF TypeOK, ResolveHit, PCs, Inside, Calls, Replies
<1>3. \A v \in Worker : CallInv(v)'
  BY DEF TypeOK, ResolveHit, CallInv
<1>4. \A v \in Worker : LockInv(v)'
  BY DEF TypeOK, ResolveHit, CallInv, LockInv
<1>5. \A v \in Worker : TipInv(v)'
  BY DEF TypeOK, ResolveHit, CallInv, LockInv, TipInv, NewInv, Building, IssueAt
<1>6. /\ UNCHANGED <<ref, removed>> /\ live' = live /\ \A c \in Batch : home[c] # None => home'[c] = home[c]
      /\ \A v \in Worker : call'[v] = "new" => call[v] = "new" /\ cur'[v] = cur[v]
      /\ \A v \in Worker : Building(v)' => Building(v)
  BY DEF TypeOK, ResolveHit, CallInv, Building
<1>7. (\A v \in Worker : NewInv(v)') /\ HomeInv'
  BY <1>6, NewKept, HomeKept DEF TypeOK
<1>8. RemovedForGood'
  BY DEF ResolveHit, RemovedForGood
<1>9. QED
  BY <1>2, <1>3, <1>4, <1>5, <1>7, <1>8

\* Reading an instance from git without a lock.
LEMMA ResolveMissPreserves ==
  ASSUME IInv, NEW w \in Worker, NEW x \in Inst, ResolveMiss(w, x)
  PROVE  IInv'
<1> USE DEF IInv
<1>2. TypeOK'
  <2>1. mem' \in [Proc -> Nat] /\ file' \in Nat
    BY WitnessType DEF TypeOK, ResolveMiss
  <2>2. QED
    BY <2>1 DEF TypeOK, ResolveMiss, PCs
<1>3. \A v \in Worker : CallInv(v)'
  BY DEF TypeOK, ResolveMiss, CallInv
<1>4. \A v \in Worker : LockInv(v)'
  BY DEF TypeOK, ResolveMiss, CallInv, LockInv
<1>5. \A v \in Worker : TipInv(v)'
  BY DEF TypeOK, ResolveMiss, CallInv, LockInv, TipInv, NewInv, Building, IssueAt
<1>6. \A v \in Worker : NewInv(v)'
  BY DEF TypeOK, ResolveMiss, CallInv, LockInv, TipInv, NewInv, HomeInv, Building, IssueAt
<1>7. HomeInv'
  <2>1. \A v \in Worker : call'[v] = "new" => call[v] = "new" /\ cur'[v] = cur[v]
    BY DEF TypeOK, ResolveMiss, CallInv
  <2>2. \E b \in Batch : home[b] = IssueOf[x]
    BY DEF ResolveMiss, CallInv, HomeInv, TipInv, IssueAt
  <2>3. home' = home /\ live' \subseteq Inst
    BY DEF TypeOK, ResolveMiss
  <2>4. QED
    BY <2>1, <2>2, <2>3, HomeKept DEF TypeOK, ResolveMiss
<1>8. RemovedForGood'
  BY DEF TypeOK, ResolveMiss, TipInv, NewInv, Building, IssueAt, RemovedForGood
<1>9. QED
  BY <1>2, <1>3, <1>4, <1>5, <1>6, <1>7, <1>8

\* Dropping a pointer.
LEMMA ReleasePreserves ==
  ASSUME IInv, NEW w \in Worker, Release(w)
  PROVE  IInv'
<1> USE DEF IInv
<1>1. cur[w] \in Inst /\ ProcOf[w] \in Proc
  BY DEF Release, CallInv
<1>2. TypeOK'
  BY <1>1 DEF TypeOK, Release, PCs, Inside, Calls, Replies
<1>3. \A v \in Worker : CallInv(v)'
  BY <1>1 DEF TypeOK, Release, CallInv
<1>4. \A v \in Worker : LockInv(v)'
  BY <1>1 DEF TypeOK, Release, CallInv, LockInv
<1>5. \A v \in Worker : TipInv(v)'
  BY <1>1 DEF TypeOK, Release, CallInv, LockInv, TipInv, NewInv, Building, IssueAt
<1>6. /\ UNCHANGED <<ref, removed>> /\ live' = live /\ \A c \in Batch : home[c] # None => home'[c] = home[c]
      /\ \A v \in Worker : call'[v] = "new" => call[v] = "new" /\ cur'[v] = cur[v]
      /\ \A v \in Worker : Building(v)' => Building(v)
  BY <1>1 DEF TypeOK, Release, CallInv, Building
<1>7. (\A v \in Worker : NewInv(v)') /\ HomeInv'
  BY <1>6, NewKept, HomeKept DEF TypeOK
<1>8. RemovedForGood'
  BY DEF Release, RemovedForGood
<1>9. QED
  BY <1>2, <1>3, <1>4, <1>5, <1>7, <1>8

\* Appending operations in memory.
LEMMA StagePreserves ==
  ASSUME IInv, NEW w \in Worker, NEW b \in Batch, Stage(w, b)
  PROVE  IInv'
<1> USE DEF IInv
<1>1. cur[w] \in Inst /\ ProcOf[w] \in Proc
  BY DEF Stage, CallInv
<1>2. TypeOK'
  <2>1. /\ b \in Seq(Op)
        /\ pending[cur[w]] \o b \in Seq(Op)
        /\ staged[cur[w]] \o b \in Seq(Op)
    BY <1>1, ConcatProperties DEF TypeOK
  <2>2. pending' \in [Inst -> Seq(Op)] /\ staged' \in [Inst -> Seq(Op)]
    BY <1>1, <2>1 DEF TypeOK, Stage
  <2>3. QED
    BY <1>1, <2>2 DEF TypeOK, Stage, PCs, Inside, Replies
<1>3. \A v \in Worker : CallInv(v)'
  BY <1>1 DEF TypeOK, Stage, CallInv
<1>4. \A v \in Worker : LockInv(v)'
  BY <1>1 DEF TypeOK, Stage, CallInv, LockInv
<1>5. \A v \in Worker : TipInv(v)'
  BY <1>1 DEF TypeOK, Stage, CallInv, LockInv, TipInv, NewInv, Building, IssueAt
<1>6. /\ UNCHANGED <<ref, removed>> /\ live' = live /\ \A c \in Batch : home[c] # None => home'[c] = home[c]
      /\ \A v \in Worker : call'[v] = "new" => call[v] = "new" /\ cur'[v] = cur[v]
      /\ \A v \in Worker : Building(v)' => Building(v)
  BY <1>1 DEF TypeOK, Stage, CallInv, Building
<1>7. (\A v \in Worker : NewInv(v)') /\ HomeInv'
  BY <1>6, NewKept, HomeKept DEF TypeOK
<1>8. RemovedForGood'
  BY DEF Stage, RemovedForGood
<1>9. QED
  BY <1>2, <1>3, <1>4, <1>5, <1>7, <1>8

\* CommitAsNeeded that finds nothing to do.
LEMMA CommitNotNeededPreserves ==
  ASSUME IInv, NEW w \in Worker, CommitNotNeeded(w)
  PROVE  IInv'
<1> USE DEF IInv
<1>1. cur[w] \in Inst /\ ProcOf[w] \in Proc
  BY DEF CommitNotNeeded, CallInv
<1>2. TypeOK'
  BY <1>1 DEF TypeOK, CommitNotNeeded, Tell, PCs, Inside, Calls, Replies
<1>3. \A v \in Worker : CallInv(v)'
  BY <1>1 DEF TypeOK, CommitNotNeeded, CallInv
<1>4. \A v \in Worker : LockInv(v)'
  BY <1>1 DEF TypeOK, CommitNotNeeded, CallInv, LockInv
<1>5. \A v \in Worker : TipInv(v)'
  BY <1>1 DEF TypeOK, CommitNotNeeded, CallInv, LockInv, TipInv, NewInv, Building, IssueAt
<1>6. /\ UNCHANGED <<ref, removed>> /\ live' = live /\ \A c \in Batch : home[c] # None => home'[c] = home[c]
      /\ \A v \in Worker : call'[v] = "new" => call[v] = "new" /\ cur'[v] = cur[v]
      /\ \A v \in Worker : Building(v)' => Building(v)
  BY <1>1 DEF TypeOK, CommitNotNeeded, Tell, CallInv, Building
<1>7. (\A v \in Worker : NewInv(v)') /\ HomeInv'
  BY <1>6, NewKept, HomeKept DEF TypeOK
<1>8. RemovedForGood'
  BY DEF CommitNotNeeded, RemovedForGood
<1>9. QED
  BY <1>2, <1>3, <1>4, <1>5, <1>7, <1>8

\* Queueing for the write lock.
LEMMA CallPreserves ==
  ASSUME IInv, NEW w \in Worker, NEW kind \in Calls, Call(w, kind)
  PROVE  IInv'
<1> USE DEF IInv
<1>1. cur[w] \in Inst /\ ProcOf[w] \in Proc
  BY DEF Call, CallInv
<1>2. TypeOK'
  BY <1>1 DEF TypeOK, Call, PCs, Inside, Calls, Replies
<1>3. \A v \in Worker : CallInv(v)'
  BY <1>1 DEF TypeOK, Call, CallInv
<1>4. \A v \in Worker : LockInv(v)'
  BY <1>1 DEF TypeOK, Call, CallInv, LockInv
<1>5. \A v \in Worker : TipInv(v)'
  BY <1>1 DEF TypeOK, Call, CallInv, LockInv, TipInv, NewInv, Building, IssueAt
<1>6. /\ UNCHANGED <<ref, removed>> /\ live' = live /\ \A c \in Batch : home[c] # None => home'[c] = home[c]
      /\ \A v \in Worker : call'[v] = "new" => call[v] = "new" /\ cur'[v] = cur[v]
      /\ \A v \in Worker : Building(v)' => Building(v)
  BY <1>1 DEF TypeOK, Call, CallInv, Building
<1>7. (\A v \in Worker : NewInv(v)') /\ HomeInv'
  BY <1>6, NewKept, HomeKept DEF TypeOK
<1>8. RemovedForGood'
  BY DEF Call, RemovedForGood
<1>9. QED
  BY <1>2, <1>3, <1>4, <1>5, <1>7, <1>8

\* newRaw building an entity: its issue is nobody's yet.
LEMMA NewPreserves ==
  ASSUME IInv, NEW w \in Worker, NEW x \in Inst, NEW b \in Batch, New(w, x, b)
  PROVE  IInv'
<1> USE DEF IInv
<1>2. TypeOK'
  <2>1. b \in Seq(Op)
    OBVIOUS
  <2>2. QED
    BY <2>1 DEF TypeOK, New, PCs, Calls, Replies
<1>3. \A v \in Worker : CallInv(v)'
  BY DEF TypeOK, New, CallInv
<1>4. \A v \in Worker : LockInv(v)'
  BY DEF TypeOK, New, CallInv, LockInv
<1>5. \A v \in Worker : TipInv(v)'
  BY DEF TypeOK, New, CallInv, LockInv, TipInv, NewInv, Building, IssueAt
<1>6. \A v \in Worker : NewInv(v)'
  BY DEF TypeOK, New, CallInv, LockInv, TipInv, NewInv, HomeInv, Building, IssueAt
<1>7. HomeInv'
  BY DEF TypeOK, New, CallInv, HomeInv, IssueAt
<1>8. RemovedForGood'
  BY DEF TypeOK, New, TipInv, NewInv, Building, IssueAt, RemovedForGood
<1>9. QED
  BY <1>2, <1>3, <1>4, <1>5, <1>6, <1>7, <1>8

\* Taking the write lock: nobody was inside it.
LEMMA TakeLockPreserves ==
  ASSUME IInv, NEW w \in Worker, TakeLock(w)
  PROVE  IInv'
<1> USE DEF IInv
<1>1. cur[w] \in Inst /\ ProcOf[w] \in Proc
  BY DEF TakeLock, CallInv
<1>2. TypeOK'
  BY <1>1 DEF TypeOK, TakeLock, PCs, Inside, Calls, Replies
<1>3. \A v \in Worker : CallInv(v)'
  BY <1>1 DEF TypeOK, TakeLock, CallInv
<1>4. \A v \in Worker : LockInv(v)'
  BY <1>1 DEF TypeOK, TakeLock, CallInv, LockInv
<1>5. \A v \in Worker : TipInv(v)'
  BY <1>1 DEF TypeOK, TakeLock, CallInv, LockInv, TipInv, NewInv, Building, IssueAt
<1>6. /\ UNCHANGED <<ref, removed>> /\ live' = live /\ \A c \in Batch : home[c] # None => home'[c] = home[c]
      /\ \A v \in Worker : call'[v] = "new" => call[v] = "new" /\ cur'[v] = cur[v]
      /\ \A v \in Worker : Building(v)' => Building(v)
  BY <1>1 DEF TypeOK, TakeLock, CallInv, Building
<1>7. (\A v \in Worker : NewInv(v)') /\ HomeInv'
  BY <1>6, NewKept, HomeKept DEF TypeOK
<1>8. RemovedForGood'
  BY DEF TakeLock, RemovedForGood
<1>9. QED
  BY <1>2, <1>3, <1>4, <1>5, <1>7, <1>8

\* Timing out on the write lock.
LEMMA LockTimeoutPreserves ==
  ASSUME IInv, NEW w \in Worker, LockTimeout(w)
  PROVE  IInv'
<1> USE DEF IInv
<1>1. CASE call[w] = "new"
  <2>1. DropNew(w) /\ UNCHANGED <<repoVars, lock, clockVars, live, mu, staged, faults>>
    BY <1>1 DEF LockTimeout
  <2>2. QED
    BY <1>1, <2>1, DropNewPreserves DEF TypeOK
<1>2. CASE call[w] # "new"
  <2>1. /\ UNCHANGED <<repoVars, lock, clockVars, instVars, cur, mine, histVars, faults>>
        /\ pc' = [pc EXCEPT ![w] = "holding"]
        /\ call' = [call EXCEPT ![w] = "none"]
    BY <1>2 DEF LockTimeout
  <2>2. TypeOK'
    BY <2>1 DEF TypeOK, PCs, Calls
  <2>3. \A v \in Worker : CallInv(v)' /\ LockInv(v)' /\ TipInv(v)'
    <3>1. \A v \in Worker : CallInv(v)'
      BY <2>1, <1>2 DEF TypeOK, LockTimeout, CallInv
    <3>2. \A v \in Worker : LockInv(v)' /\ TipInv(v)'
      BY <2>1, <1>2 DEF TypeOK, LockInv, TipInv, IssueAt
    <3>3. QED
      BY <3>1, <3>2
  <2>4. (\A v \in Worker : NewInv(v)') /\ HomeInv'
    BY <2>1, NewKept, HomeKept DEF TypeOK, Building
  <2>5. RemovedForGood'
    BY <2>1 DEF RemovedForGood
  <2>6. QED
    BY <2>2, <2>3, <2>4, <2>5
<1>3. QED
  BY <1>1, <1>2

\* Commit reading the entity again: what is written will extend the tip.
LEMMA RebasePreserves ==
  ASSUME IInv, NEW w \in Worker, Rebase(w)
  PROVE  IInv'
<1> USE DEF IInv
<1>1. cur[w] \in Inst /\ ProcOf[w] \in Proc
  BY DEF Rebase, CallInv
<1>2. TypeOK'
  <2>1. mem' \in [Proc -> Nat] /\ file' \in Nat
    BY <1>1, WitnessType DEF TypeOK, Rebase, Reload
  <2>2. QED
    BY <1>1, <2>1 DEF TypeOK, Rebase, Reload, PCs, Inside
<1>3. \A v \in Worker : CallInv(v)'
  BY <1>1 DEF TypeOK, Rebase, Reload, CallInv
<1>4. \A v \in Worker : LockInv(v)'
  BY <1>1 DEF TypeOK, Rebase, Reload, CallInv, LockInv
<1>5. \A v \in Worker : TipInv(v)'
  BY <1>1 DEF TypeOK, Rebase, Reload, CallInv, LockInv, TipInv, NewInv, Building, IssueAt
<1>6. /\ UNCHANGED <<ref, removed>> /\ live' = live /\ \A c \in Batch : home[c] # None => home'[c] = home[c]
      /\ \A v \in Worker : call'[v] = "new" => call[v] = "new" /\ cur'[v] = cur[v]
      /\ \A v \in Worker : Building(v)' => Building(v)
  BY <1>1 DEF TypeOK, Rebase, Reload, CallInv, Building
<1>7. (\A v \in Worker : NewInv(v)') /\ HomeInv'
  BY <1>6, NewKept, HomeKept DEF TypeOK
<1>8. RemovedForGood'
  BY DEF Rebase, Reload, RemovedForGood
<1>9. QED
  BY <1>2, <1>3, <1>4, <1>5, <1>7, <1>8

\* Commit that finds nothing staged.
LEMMA NothingToCommitPreserves ==
  ASSUME IInv, NEW w \in Worker, NothingToCommit(w)
  PROVE  IInv'
<1>1. /\ GiveUp(w) /\ UNCHANGED <<repoVars, clockVars, live, base, pending, staged, home, faults>>
      /\ pc[w] \in {"locked", "planned"} /\ call[w] # "new"
  BY DEF NothingToCommit, IInv, CallInv, Tell
<1>2. mine' \in [Worker -> SUBSET Batch] /\ reply' \in [Batch -> Replies]
  BY DEF NothingToCommit, Tell, Replies, IInv, TypeOK
<1>3. QED
  BY <1>1, <1>2, GiveUpPreserves DEF IInv, TypeOK

\* Commit or Update on an issue that has no ref.
LEMMA ReloadFailsPreserves ==
  ASSUME IInv, NEW w \in Worker, ReloadFails(w)
  PROVE  IInv'
<1>1. /\ GiveUp(w) /\ UNCHANGED <<repoVars, clockVars, live, base, pending, staged, home, faults>>
      /\ pc[w] \in {"locked", "planned"} /\ call[w] # "new"
  BY DEF ReloadFails, IInv, CallInv
<1>2. mine' \in [Worker -> SUBSET Batch] /\ reply' \in [Batch -> Replies]
  BY DEF ReloadFails, IInv, TypeOK
<1>3. QED
  BY <1>1, <1>2, GiveUpPreserves DEF IInv, TypeOK

\* Update reading the entity again.
LEMMA ReadForUpdatePreserves ==
  ASSUME IInv, NEW w \in Worker, ReadForUpdate(w)
  PROVE  IInv'
<1> USE DEF IInv
<1>1. cur[w] \in Inst /\ ProcOf[w] \in Proc
  BY DEF ReadForUpdate, CallInv
<1>2. TypeOK'
  <2>1. mem' \in [Proc -> Nat] /\ file' \in Nat
    BY <1>1, WitnessType DEF TypeOK, ReadForUpdate, Reload
  <2>2. QED
    BY <1>1, <2>1 DEF TypeOK, ReadForUpdate, Reload, PCs, Inside
<1>3. \A v \in Worker : CallInv(v)'
  BY <1>1 DEF TypeOK, ReadForUpdate, Reload, CallInv
<1>4. \A v \in Worker : LockInv(v)'
  BY <1>1 DEF TypeOK, ReadForUpdate, Reload, CallInv, LockInv
<1>5. \A v \in Worker : TipInv(v)'
  BY <1>1 DEF TypeOK, ReadForUpdate, Reload, CallInv, LockInv, TipInv, NewInv, Building, IssueAt
<1>6. /\ UNCHANGED <<ref, removed>> /\ live' = live /\ \A c \in Batch : home[c] # None => home'[c] = home[c]
      /\ \A v \in Worker : call'[v] = "new" => call[v] = "new" /\ cur'[v] = cur[v]
      /\ \A v \in Worker : Building(v)' => Building(v)
  BY <1>1 DEF TypeOK, ReadForUpdate, Reload, CallInv, Building
<1>7. (\A v \in Worker : NewInv(v)') /\ HomeInv'
  BY <1>6, NewKept, HomeKept DEF TypeOK
<1>8. RemovedForGood'
  BY DEF ReadForUpdate, Reload, RemovedForGood
<1>9. QED
  BY <1>2, <1>3, <1>4, <1>5, <1>7, <1>8

\* Update that writes nothing after all.
LEMMA PlanDeclinedPreserves ==
  ASSUME IInv, NEW w \in Worker, PlanDeclined(w)
  PROVE  IInv'
<1>1. /\ GiveUp(w) /\ UNCHANGED <<repoVars, clockVars, live, base, pending, staged, home, faults>>
      /\ pc[w] \in {"locked", "planned"} /\ call[w] # "new"
  BY DEF PlanDeclined, IInv, CallInv
<1>2. mine' \in [Worker -> SUBSET Batch] /\ reply' \in [Batch -> Replies]
  BY DEF PlanDeclined, IInv, TypeOK
<1>3. QED
  BY <1>1, <1>2, GiveUpPreserves DEF IInv, TypeOK

\* Update appending what it decided.
LEMMA AppendPlanPreserves ==
  ASSUME IInv, NEW w \in Worker, NEW b \in Batch, AppendPlan(w, b)
  PROVE  IInv'
<1> USE DEF IInv
<1>1. cur[w] \in Inst /\ ProcOf[w] \in Proc
  BY DEF AppendPlan, CallInv
<1>2. TypeOK'
  <2>1. /\ b \in Seq(Op)
        /\ pending[cur[w]] \o b \in Seq(Op)
        /\ staged[cur[w]] \o b \in Seq(Op)
    BY <1>1, ConcatProperties DEF TypeOK
  <2>2. pending' \in [Inst -> Seq(Op)] /\ staged' \in [Inst -> Seq(Op)]
    BY <1>1, <2>1 DEF TypeOK, AppendPlan
  <2>3. QED
    BY <1>1, <2>2 DEF TypeOK, AppendPlan, PCs, Inside, Replies
<1>3. \A v \in Worker : CallInv(v)'
  BY <1>1 DEF TypeOK, AppendPlan, CallInv
<1>4. \A v \in Worker : LockInv(v)'
  BY <1>1 DEF TypeOK, AppendPlan, CallInv, LockInv
<1>5. \A v \in Worker : TipInv(v)'
  BY <1>1 DEF TypeOK, AppendPlan, CallInv, LockInv, TipInv, NewInv, Building, IssueAt
<1>6. /\ UNCHANGED <<ref, removed>> /\ live' = live /\ \A c \in Batch : home[c] # None => home'[c] = home[c]
      /\ \A v \in Worker : call'[v] = "new" => call[v] = "new" /\ cur'[v] = cur[v]
      /\ \A v \in Worker : Building(v)' => Building(v)
  BY <1>1 DEF TypeOK, AppendPlan, CallInv, Building
<1>7. (\A v \in Worker : NewInv(v)') /\ HomeInv'
  BY <1>6, NewKept, HomeKept DEF TypeOK
<1>8. RemovedForGood'
  BY DEF AppendPlan, RemovedForGood
<1>9. QED
  BY <1>2, <1>3, <1>4, <1>5, <1>7, <1>8

\* One pack: what the instance will publish only grows.
LEMMA WritePackPreserves ==
  ASSUME IInv, NEW w \in Worker, WritePack(w)
  PROVE  IInv'
<1> USE DEF IInv
<1>1. cur[w] \in Inst /\ ProcOf[w] \in Proc
  BY DEF WritePack, CallInv
<1>2. TypeOK'
  <2>1. PICK n \in 1..Len(pending[cur[w]]) :
          /\ base' = [base EXCEPT ![cur[w]] =
               @ \cup {[ops |-> {pending[cur[w]][j] : j \in 1..n}, edit |-> Clock(ProcOf[w]) + 1]}]
          /\ pending' = [pending EXCEPT ![cur[w]] = SubSeq(@, n + 1, Len(@))]
    BY DEF WritePack
  <2>2. Clock(ProcOf[w]) + 1 \in Nat
    BY <1>1, ClockType
  <2>3. /\ {pending[cur[w]][j] : j \in 1..n} \in SUBSET Op
        /\ SubSeq(pending[cur[w]], n + 1, Len(pending[cur[w]])) \in Seq(Op)
    BY <1>1, ChunkLeaves DEF TypeOK
  <2>4. [ops |-> {pending[cur[w]][j] : j \in 1..n}, edit |-> Clock(ProcOf[w]) + 1] \in Pack
    BY <2>2, <2>3 DEF Pack
  <2>5. base' \in [Inst -> SUBSET Pack] /\ pending' \in [Inst -> Seq(Op)]
    BY <1>1, <2>1, <2>3, <2>4 DEF TypeOK
  <2>6. mem' \in [Proc -> Nat] /\ file' \in Nat
    BY <1>1, <2>2 DEF TypeOK, WritePack, SetClock
  <2>7. QED
    BY <2>5, <2>6 DEF TypeOK, WritePack
<1>3. \A v \in Worker : CallInv(v)'
  BY <1>1 DEF TypeOK, WritePack, SetClock, CallInv
<1>4. \A v \in Worker : LockInv(v)'
  BY <1>1 DEF TypeOK, WritePack, SetClock, CallInv, LockInv
<1>5. \A v \in Worker : TipInv(v)'
  BY <1>1 DEF TypeOK, WritePack, SetClock, CallInv, LockInv, TipInv, NewInv, Building, IssueAt
<1>6. /\ UNCHANGED <<ref, removed>> /\ live' = live /\ \A c \in Batch : home[c] # None => home'[c] = home[c]
      /\ \A v \in Worker : call'[v] = "new" => call[v] = "new" /\ cur'[v] = cur[v]
      /\ \A v \in Worker : Building(v)' => Building(v)
  BY <1>1 DEF TypeOK, WritePack, SetClock, CallInv, Building
<1>7. (\A v \in Worker : NewInv(v)') /\ HomeInv'
  BY <1>6, NewKept, HomeKept DEF TypeOK
<1>8. RemovedForGood'
  BY DEF WritePack, SetClock, RemovedForGood
<1>9. QED
  BY <1>2, <1>3, <1>4, <1>5, <1>7, <1>8

\* A pack that cannot be written.
LEMMA WritePackFailsPreserves ==
  ASSUME IInv, NEW w \in Worker, WritePackFails(w)
  PROVE  IInv'
<1> USE DEF IInv
<1>1. cur[w] \in Inst /\ ProcOf[w] \in Proc
  BY DEF WritePackFails, CallInv
<1>2. mem' \in [Proc -> Nat] /\ file' \in Nat /\ faults' \in Nat
  <2>1. Clock(ProcOf[w]) \in Nat
    BY <1>1 DEF Clock, TypeOK
  <2>2. \/ UNCHANGED <<file, mem>>
        \/ /\ mem' = [mem EXCEPT ![ProcOf[w]] = Clock(ProcOf[w]) + 1]
           /\ file' \in {IF file = 0 THEN 1 ELSE file, Clock(ProcOf[w]) + 1}
    BY DEF WritePackFails
  <2>3. mem \in [Proc -> Nat] /\ file \in Nat /\ Clock(ProcOf[w]) + 1 \in Nat
    BY <2>1 DEF TypeOK
  <2>4. mem' \in [Proc -> Nat]
    BY <1>1, <2>2, <2>3
  <2>5. file' \in Nat
    BY <2>2, <2>3
  <2>6. QED
    BY <2>4, <2>5 DEF WritePackFails, TypeOK
<1>3. CASE call[w] = "new"
  <2>1. lock' = None /\ (lock = w \/ lock = None)
    BY <1>3 DEF WritePackFails, LockInv
  <2>2. DropNew(w) /\ mu' \in [Inst -> Worker \cup {None}] /\ UNCHANGED <<repoVars, live, staged>>
    BY <1>3 DEF WritePackFails, TypeOK
  <2>3. QED
    BY <1>2, <1>3, <2>1, <2>2, DropNewPreserves
<1>4. CASE call[w] # "new"
  <2>1. pending' \in [Inst -> Seq(Op)]
    <3>1. PICK n \in 1..Len(pending[cur[w]]) :
            pending' = [pending EXCEPT ![cur[w]] = SubSeq(@, n + 1, Len(@))]
      BY <1>4 DEF WritePackFails
    <3>2. SubSeq(pending[cur[w]], n + 1, Len(pending[cur[w]])) \in Seq(Op)
      BY <1>1, ChunkLeaves DEF TypeOK
    <3>3. QED
      BY <1>1, <3>1, <3>2 DEF TypeOK
  <2>2. /\ pc[w] = "writing"
        /\ GiveUp(w)
        /\ UNCHANGED <<repoVars, live, staged, base, mine, home, reply>>
    BY <1>4 DEF WritePackFails
  <2>3. QED
    BY <1>2, <1>4, <2>1, <2>2, GiveUpPreserves DEF TypeOK
<1>5. QED
  BY <1>3, <1>4

\* The ref moving: only the holder of the lock moves it, onto the tip it read.
LEMMA UpdateRefPreserves ==
  ASSUME IInv, NEW w \in Worker, UpdateRef(w)
  PROVE  IInv'
<1> USE DEF IInv
<1>1. cur[w] \in Inst /\ ProcOf[w] \in Proc
  BY DEF UpdateRef, CallInv
<1>2. TypeOK'
  BY <1>1 DEF TypeOK, UpdateRef, PCs, Inside, Calls, Replies
<1>3. \A v \in Worker : CallInv(v)'
  BY <1>1 DEF TypeOK, UpdateRef, CallInv
<1>4. \A v \in Worker : LockInv(v)'
  BY <1>1 DEF TypeOK, UpdateRef, CallInv, LockInv
<1>5. \A v \in Worker : TipInv(v)'
  BY <1>1 DEF TypeOK, UpdateRef, CallInv, LockInv, TipInv, NewInv, Building, IssueAt
<1>6. \A v \in Worker : NewInv(v)'
  BY <1>1 DEF TypeOK, UpdateRef, CallInv, LockInv, TipInv, NewInv, HomeInv, Building, IssueAt
<1>7. HomeInv'
  <2>1. \A v \in Worker : call'[v] = "new" => call[v] = "new" /\ cur'[v] = cur[v]
    BY <1>1 DEF TypeOK, UpdateRef, CallInv
  <2>2. \E b \in Batch : home[b] = IssueOf[cur[w]]
    BY <1>1 DEF UpdateRef, CallInv, HomeInv, TipInv, IssueAt
  <2>3. home' = home /\ live' \subseteq Inst
    BY <1>1 DEF TypeOK, UpdateRef
  <2>4. QED
    BY <1>1, <2>1, <2>2, <2>3, HomeKept DEF TypeOK, UpdateRef
<1>8. RemovedForGood'
  BY <1>1 DEF TypeOK, UpdateRef, TipInv, NewInv, Building, IssueAt, RemovedForGood
<1>9. QED
  BY <1>2, <1>3, <1>4, <1>5, <1>6, <1>7, <1>8

\* A ref that cannot be written.
LEMMA UpdateRefFailsPreserves ==
  ASSUME IInv, NEW w \in Worker, UpdateRefFails(w)
  PROVE  IInv'
<1> USE DEF IInv
<1>1. /\ cur[w] \in Inst /\ pc[w] = "writing"
      /\ UNCHANGED <<repoVars, clockVars, live, staged>> /\ faults' \in Nat
  BY DEF UpdateRefFails, CallInv, TypeOK
<1>2. CASE call[w] = "new"
  <2>1. DropNew(w) /\ lock' = None /\ mu' = [mu EXCEPT ![cur[w]] = None]
    BY <1>2 DEF UpdateRefFails
  <2>2. lock = w
    BY <1>1 DEF LockInv
  <2>3. mu' \in [Inst -> Worker \cup {None}]
    BY <2>1 DEF TypeOK
  <2>4. QED
    BY <1>1, <1>2, <2>1, <2>2, <2>3, DropNewPreserves DEF TypeOK
<1>3. CASE call[w] # "new"
  <2>1. GiveUp(w) /\ UNCHANGED <<base, pending, mine, home, reply>>
    BY <1>3 DEF UpdateRefFails
  <2>2. QED
    BY <1>1, <1>3, <2>1, GiveUpPreserves DEF TypeOK
<1>4. QED
  BY <1>2, <1>3

\* Commit and Update returning.
LEMMA ReturnPreserves ==
  ASSUME IInv, NEW w \in Worker, Return(w)
  PROVE  IInv'
<1> USE DEF IInv
<1>1. cur[w] \in Inst /\ ProcOf[w] \in Proc
  BY DEF Return, CallInv
<1>2. TypeOK'
  BY <1>1 DEF TypeOK, Return, Tell, PCs, Inside, Calls, Replies
<1>3. \A v \in Worker : CallInv(v)'
  BY <1>1 DEF TypeOK, Return, CallInv
<1>4. \A v \in Worker : LockInv(v)'
  BY <1>1 DEF TypeOK, Return, CallInv, LockInv
<1>5. \A v \in Worker : TipInv(v)'
  BY <1>1 DEF TypeOK, Return, CallInv, LockInv, TipInv, NewInv, Building, IssueAt
<1>6. /\ UNCHANGED <<ref, removed>> /\ live' = live /\ \A c \in Batch : home[c] # None => home'[c] = home[c]
      /\ \A v \in Worker : call'[v] = "new" => call[v] = "new" /\ cur'[v] = cur[v]
      /\ \A v \in Worker : Building(v)' => Building(v)
  BY <1>1 DEF TypeOK, Return, Tell, CallInv, Building
<1>7. (\A v \in Worker : NewInv(v)') /\ HomeInv'
  BY <1>6, NewKept, HomeKept DEF TypeOK
<1>8. RemovedForGood'
  BY DEF Return, RemovedForGood
<1>9. QED
  BY <1>2, <1>3, <1>4, <1>5, <1>7, <1>8

\* newRaw letting the lock go.
LEMMA UnlockNewPreserves ==
  ASSUME IInv, NEW w \in Worker, UnlockNew(w)
  PROVE  IInv'
<1> USE DEF IInv
<1>1. cur[w] \in Inst /\ ProcOf[w] \in Proc
  BY DEF UnlockNew, CallInv
<1>2. TypeOK'
  BY <1>1 DEF TypeOK, UnlockNew, PCs, Inside, Calls, Replies
<1>3. \A v \in Worker : CallInv(v)'
  BY <1>1 DEF TypeOK, UnlockNew, CallInv
<1>4. \A v \in Worker : LockInv(v)'
  BY <1>1 DEF TypeOK, UnlockNew, CallInv, LockInv
<1>5. \A v \in Worker : TipInv(v)'
  BY <1>1 DEF TypeOK, UnlockNew, CallInv, LockInv, TipInv, NewInv, Building, IssueAt
<1>6. /\ UNCHANGED <<ref, removed>> /\ live' = live /\ \A c \in Batch : home[c] # None => home'[c] = home[c]
      /\ \A v \in Worker : call'[v] = "new" => call[v] = "new" /\ cur'[v] = cur[v]
      /\ \A v \in Worker : Building(v)' => Building(v)
  BY <1>1 DEF TypeOK, UnlockNew, CallInv, Building
<1>7. (\A v \in Worker : NewInv(v)') /\ HomeInv'
  BY <1>6, NewKept, HomeKept DEF TypeOK
<1>8. RemovedForGood'
  BY DEF UnlockNew, RemovedForGood
<1>9. QED
  BY <1>2, <1>3, <1>4, <1>5, <1>7, <1>8

\* newRaw caching the entity it committed.
LEMMA AddPreserves ==
  ASSUME IInv, NEW w \in Worker, Add(w)
  PROVE  IInv'
<1> USE DEF IInv
<1>1. cur[w] \in Inst /\ ProcOf[w] \in Proc
  BY DEF Add, CallInv
<1>2. TypeOK'
  BY <1>1 DEF TypeOK, Add, Tell, PCs, Inside, Calls, Replies
<1>3. \A v \in Worker : CallInv(v)'
  BY <1>1 DEF TypeOK, Add, CallInv
<1>4. \A v \in Worker : LockInv(v)'
  BY <1>1 DEF TypeOK, Add, CallInv, LockInv
<1>5. \A v \in Worker : TipInv(v)'
  BY <1>1 DEF TypeOK, Add, CallInv, LockInv, TipInv, NewInv, Building, IssueAt
<1>6. \A v \in Worker : NewInv(v)'
  BY SMTT(30), <1>1 DEF TypeOK, Add, Tell, CallInv, LockInv, TipInv, NewInv, HomeInv, Building, IssueAt
<1>7. HomeInv'
  <2>1. \A v \in Worker : call'[v] = "new" => call[v] = "new" /\ cur'[v] = cur[v]
    BY <1>1 DEF TypeOK, Add, CallInv
  <2>2. \E b \in Batch : home[b] = IssueOf[cur[w]]
    BY <1>1 DEF Add, CallInv, HomeInv, TipInv, IssueAt
  <2>3. home' = home /\ live' \subseteq Inst
    BY <1>1 DEF TypeOK, Add, Tell
  <2>4. QED
    BY <1>1, <2>1, <2>2, <2>3, HomeKept DEF TypeOK, Add
<1>8. RemovedForGood'
  BY <1>1 DEF TypeOK, Add, TipInv, NewInv, Building, IssueAt, RemovedForGood
<1>9. QED
  BY <1>2, <1>3, <1>4, <1>5, <1>6, <1>7, <1>8

\* The removal of an issue: nobody inside the lock counts on its ref.
LEMMA RemoveIssuePreserves ==
  ASSUME IInv, NEW w \in Worker, RemoveIssue(w)
  PROVE  IInv'
<1> USE DEF IInv
<1>1. cur[w] \in Inst /\ ProcOf[w] \in Proc
  BY DEF RemoveIssue, CallInv
<1>2. TypeOK'
  BY <1>1 DEF TypeOK, RemoveIssue, GiveUp, PCs, Inside, Calls, Replies
<1>3. \A v \in Worker : CallInv(v)'
  BY <1>1 DEF TypeOK, RemoveIssue, GiveUp, CallInv
<1>4. \A v \in Worker : LockInv(v)'
  BY <1>1 DEF TypeOK, RemoveIssue, GiveUp, CallInv, LockInv
<1>5. \A v \in Worker : TipInv(v)'
  BY <1>1 DEF TypeOK, RemoveIssue, GiveUp, CallInv, LockInv, TipInv, NewInv, Building, IssueAt
<1>6. \A v \in Worker : NewInv(v)'
  BY <1>1 DEF TypeOK, RemoveIssue, GiveUp, CallInv, LockInv, TipInv, NewInv, HomeInv,
         Building, IssueAt
<1>7. HomeInv'
  <2>1. \A v \in Worker : call'[v] = "new" => call[v] = "new" /\ cur'[v] = cur[v]
    BY <1>1 DEF TypeOK, RemoveIssue, GiveUp, CallInv
  <2>2. \E b \in Batch : home[b] = IssueOf[cur[w]]
    BY <1>1 DEF RemoveIssue, CallInv, HomeInv, TipInv, IssueAt
  <2>3. home' = home /\ live' \subseteq Inst
    BY <1>1 DEF TypeOK, RemoveIssue, GiveUp
  <2>4. QED
    BY <1>1, <2>1, <2>2, <2>3, HomeKept DEF TypeOK, RemoveIssue, GiveUp
<1>8. RemovedForGood'
  BY <1>1 DEF TypeOK, RemoveIssue, GiveUp, TipInv, NewInv, Building, IssueAt, RemovedForGood
<1>9. QED
  BY <1>2, <1>3, <1>4, <1>5, <1>6, <1>7, <1>8

\* A process dying: its workers are gone, the others' state is untouched.
LEMMA CrashPreserves ==
  ASSUME IInv, NEW p \in Proc, Crash(p)
  PROVE  IInv'
<1> USE DEF IInv
<1>1. ASSUME NEW v \in Worker, ProcOf[v] = p
      PROVE  pc'[v] = "idle" /\ call'[v] = "none" /\ cur'[v] = None
  BY <1>1 DEF Crash
<1>2. ASSUME NEW v \in Worker, ProcOf[v] # p
      PROVE  pc'[v] = pc[v] /\ call'[v] = call[v] /\ cur'[v] = cur[v]
  BY <1>2 DEF Crash
<1>3. ASSUME NEW x \in Inst, ProcOf[x] # p
      PROVE  base'[x] = base[x] /\ (x \in live' <=> x \in live)
  BY <1>3 DEF Crash
<1>4. TypeOK'
  BY DEF TypeOK, Crash, PCs, Calls, Replies
<1>5. ASSUME NEW v \in Worker
      PROVE  (CallInv(v) /\ LockInv(v) /\ TipInv(v))'
  <2>1. CASE ProcOf[v] = p
    BY <1>1, <2>1 DEF CallInv, LockInv, TipInv
  <2>2. CASE ProcOf[v] # p
    <3>1. CallInv(v) /\ LockInv(v) /\ TipInv(v)
      OBVIOUS
    <3>2. CallInv(v)'
      <4>1. ASSUME NEW u \in Worker, call[v] = "new", cur'[u] = cur[v]
            PROVE  u = v
        <5>1. cur[v] \in Inst
          BY <3>1, <4>1 DEF CallInv
        <5>2. ProcOf[u] # p
          BY <1>1, <4>1, <5>1
        <5>3. QED
          BY <1>2, <3>1, <4>1, <5>2 DEF CallInv
      <4>2. QED
        BY <1>2, <1>3, <2>2, <3>1, <4>1 DEF CallInv
    <3>3. LockInv(v)'
      BY <1>2, <2>2, <3>1 DEF LockInv, Crash
    <3>4. TipInv(v)'
      <4>1. pc[v] # "idle" => cur[v] \in Inst /\ ProcOf[cur[v]] # p
        BY <2>2, <3>1 DEF CallInv
      <4>2. ref' = ref
        BY DEF Crash
      <4>3. QED
        BY <1>2, <1>3, <2>2, <3>1, <4>1, <4>2 DEF TipInv, IssueAt
    <3>5. QED
      BY <3>2, <3>3, <3>4
  <2>3. QED
    BY <2>1, <2>2
<1>6. /\ UNCHANGED <<ref, removed, home>> /\ live' \subseteq live
      /\ \A v \in Worker : call'[v] = "new" => call[v] = "new" /\ cur'[v] = cur[v]
      /\ \A v \in Worker : Building(v)' => Building(v)
  BY <1>1, <1>2 DEF Crash, Building
<1>7. (\A v \in Worker : NewInv(v)') /\ HomeInv'
  BY <1>6, NewKept, HomeKept DEF TypeOK
<1>8. RemovedForGood'
  BY <1>6 DEF RemovedForGood
<1>9. QED
  BY <1>4, <1>5, <1>7, <1>8

\* Nothing has happened yet: every part of the invariant holds.
LEMMA InitInv ==
  ASSUME Init
  PROVE  IInv
<1>1. TypeOK
  BY DEF Init, TypeOK, PCs, Calls, Replies
<1>2. \A w \in Worker : CallInv(w) /\ LockInv(w) /\ TipInv(w) /\ NewInv(w)
  BY DEF Init, CallInv, LockInv, TipInv, NewInv, Building
<1>3. HomeInv /\ RemovedForGood
  BY DEF Init, HomeInv, RemovedForGood
<1>4. QED
  BY <1>1, <1>2, <1>3 DEF IInv

\* Every step of every worker, every crash and every stutter keeps it.
LEMMA NextPreserves ==
  ASSUME IInv, [Next]_vars
  PROVE  IInv'
<1>1. ASSUME NEW w \in Worker, Ask(w)
      PROVE  IInv'
  BY <1>1, ResolveHitPreserves, ResolveMissPreserves, ReleasePreserves,
     StagePreserves, CommitNotNeededPreserves, CallPreserves, NewPreserves
     DEF Ask
<1>2. ASSUME NEW w \in Worker, Step(w)
      PROVE  IInv'
  BY <1>2, TakeLockPreserves, LockTimeoutPreserves, RebasePreserves,
     NothingToCommitPreserves, ReloadFailsPreserves, ReadForUpdatePreserves,
     PlanDeclinedPreserves, AppendPlanPreserves, WritePackPreserves,
     WritePackFailsPreserves, UpdateRefPreserves, UpdateRefFailsPreserves,
     ReturnPreserves, UnlockNewPreserves, AddPreserves, RemoveIssuePreserves
     DEF Step
<1>3. ASSUME NEW p \in Proc, Crash(p)
      PROVE  IInv'
  BY <1>3, CrashPreserves
<1>4. CASE UNCHANGED vars
  <2>1. TypeOK' /\ HomeInv' /\ RemovedForGood'
    BY <1>4 DEF vars, IInv, TypeOK, HomeInv, RemovedForGood, IssueAt
  <2>2. \A w \in Worker : CallInv(w)' /\ LockInv(w)'
    BY <1>4 DEF vars, IInv, CallInv, LockInv
  <2>3. \A w \in Worker : TipInv(w)'
    BY <1>4 DEF vars, IInv, TipInv, IssueAt
  <2>4. \A w \in Worker : NewInv(w)'
    BY <1>4 DEF vars, IInv, NewInv, IssueAt, Building
  <2>5. QED
    BY <2>1, <2>2, <2>3, <2>4 DEF IInv
<1>5. QED
  BY <1>1, <1>2, <1>3, <1>4 DEF Next

\* The invariant holds in every state of every behaviour.
THEOREM Invariance == Spec => []IInv
<1>1. Init => IInv
  BY InitInv
<1>2. IInv /\ [Next]_vars => IInv'
  BY NextPreserves
<1>3. QED
  BY <1>1, <1>2, PTL DEF Spec

\* Every variable keeps its type: a worker's instance, its call and its place
\* in it, the packs of a ref, the clocks.
THEOREM TypeCorrect == Spec => []TypeOK
<1>1. IInv => TypeOK
  BY DEF IInv
<1>2. QED
  BY <1>1, Invariance, PTL

\* An issue that SubCache.Remove removed is never written back, whatever stale
\* instances still hold operations for it.
THEOREM Removal == Spec => []RemovedForGood
<1>1. IInv => RemovedForGood
  BY DEF IInv
<1>2. QED
  BY <1>1, Invariance, PTL

\* A ref moves in two ways only: UpdateRef, which finds the tip it was read
\* at still in place, and the removal.
LEMMA RefStep ==
  ASSUME IInv, [Next]_vars
  PROVE  \A i \in Issue : \/ ref[i] \subseteq ref'[i]
                          \/ ref'[i] = {} /\ i \in removed'
<1> SUFFICES ASSUME NEW i \in Issue
             PROVE  \/ ref[i] \subseteq ref'[i]
                    \/ ref'[i] = {} /\ i \in removed'
  OBVIOUS
<1>1. ASSUME NEW w \in Worker, UpdateRef(w)
      PROVE  ref[i] \subseteq ref'[i]
  <2>1. cur[w] \in Inst /\ ref[IssueOf[cur[w]]] \subseteq base[cur[w]]
    <3>1. CallInv(w) /\ TipInv(w) /\ NewInv(w) /\ pc[w] = "writing"
      BY <1>1 DEF UpdateRef, IInv
    <3>2. QED
      BY <3>1 DEF CallInv, TipInv, NewInv, Building, IssueAt
  <2>2. ref' = [ref EXCEPT ![IssueOf[cur[w]]] = base[cur[w]]]
    BY <1>1 DEF UpdateRef
  <2>3. QED
    BY <2>1, <2>2 DEF IInv, TypeOK
<1>2. ASSUME NEW w \in Worker, RemoveIssue(w)
      PROVE  ref[i] \subseteq ref'[i] \/ (ref'[i] = {} /\ i \in removed')
  BY <1>2 DEF RemoveIssue, IInv, TypeOK
<1>3. ASSUME NEW w \in Worker, Ask(w)
      PROVE  ref' = ref
  BY <1>3 DEF Ask, ResolveHit, ResolveMiss, Release, Stage, CommitNotNeeded,
     Call, New
<1>4. ASSUME NEW w \in Worker, Step(w), ~UpdateRef(w), ~RemoveIssue(w)
      PROVE  ref' = ref
  BY <1>4 DEF Step, TakeLock, LockTimeout, Rebase, NothingToCommit,
     ReloadFails, ReadForUpdate, PlanDeclined, AppendPlan, WritePack,
     WritePackFails, UpdateRefFails, Return, UnlockNew, Add
<1>5. ASSUME NEW p \in Proc, Crash(p)
      PROVE  ref' = ref
  BY <1>5 DEF Crash
<1>6. CASE UNCHANGED vars
  BY <1>6 DEF vars
<1>7. QED
  BY <1>1, <1>2, <1>3, <1>4, <1>5, <1>6 DEF Next

\* UpdateRef compares nothing, and yet no commit is ever lost: every move of
\* every ref is a fast-forward or the removal of its issue.
THEOREM NoCommitLost == Spec => FastForward
<1>1. IInv /\ [Next]_vars =>
        [\A i \in Issue : \/ ref[i] \subseteq ref'[i]
                          \/ ref'[i] = {} /\ i \in removed']_vars
  BY RefStep
<1>2. QED
  BY <1>1, Invariance, PTL DEF Spec, FastForward

-----------------------------------------------------------------------------
(* Sequences of operations.                                                *)

\* What is staged after a batch is appended.
LEMMA ConcatRange ==
  ASSUME NEW s \in Seq(Op), NEW t \in Seq(Op)
  PROVE  Range(s \o t) = Range(s) \cup Range(t)
<1>1. /\ Len(s \o t) = Len(s) + Len(t)
      /\ \A k \in 1..Len(s) : (s \o t)[k] = s[k]
      /\ \A k \in 1..Len(t) : (s \o t)[Len(s) + k] = t[k]
  BY ConcatProperties
<1>2. Len(s) \in Nat /\ Len(t) \in Nat /\ s \o t \in Seq(Op)
  BY ConcatProperties
<1>3. DOMAIN s = 1..Len(s) /\ DOMAIN t = 1..Len(t) /\ DOMAIN (s \o t) = 1..(Len(s) + Len(t))
  BY <1>1, <1>2
<1>4. ASSUME NEW k \in 1..(Len(s) + Len(t))
      PROVE  (s \o t)[k] \in Range(s) \cup Range(t)
  <2>1. CASE k <= Len(s)
    BY <1>1, <1>2, <1>3, <2>1 DEF Range
  <2>2. CASE k > Len(s)
    <3>1. k - Len(s) \in 1..Len(t) /\ (s \o t)[Len(s) + (k - Len(s))] = t[k - Len(s)]
      BY <1>1, <1>2, <2>2
    <3>2. Len(s) + (k - Len(s)) = k
      BY <1>2
    <3>3. QED
      BY <1>3, <3>1, <3>2 DEF Range
  <2>3. QED
    BY <1>2, <2>1, <2>2
<1>5. ASSUME NEW k \in 1..Len(s)
      PROVE  s[k] \in Range(s \o t)
  BY <1>1, <1>2, <1>3 DEF Range
<1>6. ASSUME NEW k \in 1..Len(t)
      PROVE  t[k] \in Range(s \o t)
  <2>1. Len(s) + k \in DOMAIN (s \o t)
    BY <1>2, <1>3
  <2>2. QED
    BY <1>1, <2>1 DEF Range
<1>7. QED
  BY ZenonT(40), <1>3, <1>4, <1>5, <1>6 DEF Range

\* Two sequences with nothing in common and nothing twice make another one.
LEMMA ConcatInjective ==
  ASSUME NEW s \in Seq(Op), NEW t \in Seq(Op), IsInjective(s), IsInjective(t),
         Range(s) \cap Range(t) = {}
  PROVE  IsInjective(s \o t)
<1>1. /\ Len(s \o t) = Len(s) + Len(t)
      /\ \A k \in 1..Len(s) : (s \o t)[k] = s[k]
      /\ \A k \in 1..Len(t) : (s \o t)[Len(s) + k] = t[k]
  BY ConcatProperties
<1>2. Len(s) \in Nat /\ Len(t) \in Nat /\ s \o t \in Seq(Op)
  BY ConcatProperties
<1>3. DOMAIN s = 1..Len(s) /\ DOMAIN t = 1..Len(t) /\ DOMAIN (s \o t) = 1..(Len(s) + Len(t))
  BY <1>1, <1>2
<1>4. ASSUME NEW k \in 1..(Len(s) + Len(t))
      PROVE  \/ k \in DOMAIN s /\ (s \o t)[k] = s[k]
             \/ k - Len(s) \in DOMAIN t /\ (s \o t)[k] = t[k - Len(s)]
  <2>1. CASE k <= Len(s)
    BY <1>1, <1>2, <1>3, <2>1
  <2>2. CASE k > Len(s)
    <3>1. k - Len(s) \in 1..Len(t) /\ (s \o t)[Len(s) + (k - Len(s))] = t[k - Len(s)]
      BY <1>1, <1>2, <2>2
    <3>2. Len(s) + (k - Len(s)) = k
      BY <1>2
    <3>3. QED
      BY <1>3, <3>1, <3>2
  <2>3. QED
    BY <1>2, <2>1, <2>2
<1>5. ASSUME NEW j \in 1..(Len(s) + Len(t)), NEW k \in 1..(Len(s) + Len(t)),
             (s \o t)[j] = (s \o t)[k]
      PROVE  j = k
  <2>1. \A a \in DOMAIN s, b \in DOMAIN t : s[a] # t[b]
    BY DEF Range
  <2>2. CASE j \in DOMAIN s /\ (s \o t)[j] = s[j]
    BY <1>4, <1>5, <2>1, <2>2 DEF IsInjective
  <2>3. CASE j - Len(s) \in DOMAIN t /\ (s \o t)[j] = t[j - Len(s)]
    <3>1. k - Len(s) \in DOMAIN t /\ (s \o t)[k] = t[k - Len(s)]
      BY <1>4, <1>5, <2>1, <2>3
    <3>2. j - Len(s) = k - Len(s)
      BY <1>5, <2>3, <3>1 DEF IsInjective
    <3>3. QED
      BY <1>2, <3>2
  <2>4. QED
    BY <1>4, <2>2, <2>3
<1>6. QED
  BY <1>3, <1>5 DEF IsInjective

\* A sequence without elements is empty.
LEMMA RangeEmpty ==
  ASSUME NEW s \in Seq(Op)
  PROVE  Range(s) = {} <=> s = <<>>
<1>1. DOMAIN s = 1..Len(s) /\ Len(s) \in Nat
  OBVIOUS
<1>2. ASSUME s # <<>>
      PROVE  s[1] \in Range(s)
  <2>1. 1 \in DOMAIN s
    BY <1>1, <1>2, EmptySeq
  <2>2. QED
    BY <2>1 DEF Range
<1>3. ASSUME s = <<>>
      PROVE  Range(s) = {}
  BY <1>3 DEF Range
<1>4. QED
  BY <1>2, <1>3

\* dag.Entity.Commit splits its staging area into a pack's operations and the
\* rest, and none is in both.
LEMMA ChunkSplits ==
  ASSUME NEW s \in Seq(Op), NEW n \in 1..Len(s), IsInjective(s)
  PROVE  /\ Range(s) = {s[j] : j \in 1..n} \cup Range(SubSeq(s, n + 1, Len(s)))
         /\ {s[j] : j \in 1..n} \cap Range(SubSeq(s, n + 1, Len(s))) = {}
         /\ IsInjective(SubSeq(s, n + 1, Len(s)))
<1> DEFINE rest == SubSeq(s, n + 1, Len(s))
<1>1. Len(s) \in Nat /\ n \in Nat /\ n <= Len(s) /\ DOMAIN s = 1..Len(s)
  OBVIOUS
<1>2. /\ rest \in Seq(Op)
      /\ DOMAIN rest = 1..(Len(s) - n)
      /\ \A k \in 1..(Len(s) - n) : rest[k] = s[n + k]
  <2>1. rest \in Seq(Op)
    BY SMTT(30), ChunkLeaves
  <2>2. Len(rest) = IF n + 1 <= Len(s) THEN Len(s) - (n + 1) + 1 ELSE 0
    BY <1>1, SubSeqProperties
  <2>3. Len(rest) = Len(s) - n
    <3> HIDE DEF rest
    <3>1. \A k \in Nat : n <= k => (IF n + 1 <= k THEN k - (n + 1) + 1 ELSE 0) = k - n
      BY <1>1
    <3>2. QED
      BY <1>1, <2>2, <3>1
  <2>4. \A k \in 1..(Len(s) - (n + 1) + 1) : rest[k] = s[(n + 1) + k - 1]
    BY <1>1, SubSeqProperties
  <2>5. ASSUME NEW k \in 1..(Len(s) - n)
        PROVE  rest[k] = s[n + k]
    BY <1>1, <2>4
  <2>6. QED
    BY <2>1, <2>3, <2>5
<1> HIDE DEF rest
<1>3. \A k \in 1..(Len(s) - n) : n + k \in 1..Len(s) /\ n + k \notin 1..n
  BY <1>1
<1>4. \A k \in 1..Len(s) : k \in 1..n \/ (k - n \in 1..(Len(s) - n) /\ n + (k - n) = k)
  BY <1>1
<1>5. Range(s) = {s[j] : j \in 1..n} \cup Range(rest)
  <2>1. \A k \in 1..n : k \in 1..Len(s)
    BY <1>1
  <2>2. \A k \in 1..(Len(s) - n) : rest[k] \in Range(s)
    BY <1>1, <1>2, <1>3 DEF Range
  <2>3. ASSUME NEW k \in 1..Len(s)
        PROVE  s[k] \in {s[j] : j \in 1..n} \cup Range(rest)
    <3>1. CASE k \in 1..n
      BY <3>1
    <3>2. CASE k - n \in 1..(Len(s) - n) /\ n + (k - n) = k
      BY <1>2, <3>2 DEF Range
    <3>3. QED
      BY <1>4, <3>1, <3>2
  <2>4. \A o \in Range(s) : o \in {s[j] : j \in 1..n} \cup Range(rest)
    BY <1>1, <2>3 DEF Range
  <2>5. \A o \in Range(rest) : o \in Range(s)
    BY <1>2, <2>2 DEF Range
  <2>6. \A o \in {s[j] : j \in 1..n} : o \in Range(s)
    BY <1>1, <2>1 DEF Range
  <2>7. QED
    BY <2>4, <2>5, <2>6
<1>6. ASSUME NEW j \in 1..n, NEW k \in 1..(Len(s) - n)
      PROVE  s[j] # rest[k]
  <2>1. j \in 1..Len(s)
    BY <1>1
  <2>2. QED
    BY <1>1, <1>2, <1>3, <2>1 DEF IsInjective
<1>7. ASSUME NEW j \in 1..(Len(s) - n), NEW k \in 1..(Len(s) - n), rest[j] = rest[k]
      PROVE  j = k
  <2>1. n + j = n + k
    BY <1>1, <1>2, <1>3, <1>7 DEF IsInjective
  <2>2. QED
    BY <1>1, <2>1
<1>8. QED
  <2>1. {s[j] : j \in 1..n} \cap Range(rest) = {}
    BY <1>2, <1>6 DEF Range
  <2>2. IsInjective(rest)
    BY SMTT(30), <1>2, <1>7 DEF IsInjective
  <2>3. QED
    BY <1>5, <2>1, <2>2 DEF rest

-----------------------------------------------------------------------------
(* Whole batches.                                                          *)

\* Each batch is a sequence of operations, and has one that no other has.
LEMMA BatchFacts ==
  ASSUME NEW b \in Batch
  PROVE  b \in Seq(Op) /\ IsInjective(b) /\ Range(b) # {}
BY RangeEmpty

\* An operation of a whole set brings its batch with it.
LEMMA WholeMeets ==
  ASSUME NEW ops, NEW i, Whole(ops, i), NEW b \in Batch, Range(b) \cap ops # {}
  PROVE  home[b] = i /\ Range(b) \subseteq ops
<1>1. PICK o : o \in Range(b) /\ o \in ops
  OBVIOUS
<1>2. PICK c \in Batch : o \in Range(c) /\ home[c] = i /\ Range(c) \subseteq ops
  BY <1>1 DEF Whole
<1>3. c = b
  BY <1>1, <1>2
<1>4. QED
  BY <1>2, <1>3

\* Sets that are whole for two issues have no operation in common.
LEMMA WholeApart ==
  ASSUME NEW s, NEW t, NEW i, NEW j, Whole(s, i), Whole(t, j), i # j
  PROVE  s \cap t = {}
<1> SUFFICES ASSUME NEW o \in s, o \in t
             PROVE  FALSE
  OBVIOUS
<1>1. PICK b \in Batch : o \in Range(b) /\ home[b] = i
  BY DEF Whole
<1>2. home[b] = j
  BY <1>1, WholeMeets
<1>3. QED
  BY <1>1, <1>2

\* What is whole twice over is whole together.
LEMMA WholeCup ==
  ASSUME NEW s, NEW t, NEW i, Whole(s, i), Whole(t, i)
  PROVE  Whole(s \cup t, i)
BY DEF Whole

\* A batch by itself is whole.
LEMMA WholeBatch ==
  ASSUME NEW b \in Batch
  PROVE  Whole(Range(b), home[b])
BY DEF Whole

\* A step that gives no batch another issue leaves whole what was whole.
LEMMA WholeKept ==
  ASSUME \A b \in Batch : home[b] # None => home'[b] = home[b],
         NEW s, NEW i \in Issue, Whole(s, i)
  PROVE  \A o \in s : \E b \in Batch :
           o \in Range(b) /\ home'[b] = i /\ Range(b) \subseteq s
BY DEF Whole

\* A batch that was not built yet is nowhere.
LEMMA FreshNowhere ==
  ASSUME IInv, DataInv, NEW b \in Batch, home[b] = None
  PROVE  /\ \A x \in Inst : Range(b) \cap Range(staged[x]) = {}
         /\ \A i \in Issue : Range(b) \cap OpsOf(ref[i]) = {}
         /\ \A w \in Worker : b \notin mine[w]
<1>1. \A x \in Inst : IssueOf[x] \in Issue
  OBVIOUS
<1>2. ASSUME NEW x \in Inst
      PROVE  Range(b) \cap Range(staged[x]) = {}
  <2>1. Whole(Range(staged[x]), IssueOf[x])
    BY DEF DataInv, PlaceInv
  <2>2. QED
    BY <1>1, <2>1, WholeMeets
<1>3. ASSUME NEW i \in Issue
      PROVE  Range(b) \cap OpsOf(ref[i]) = {}
  <2>1. Whole(OpsOf(ref[i]), i)
    BY DEF DataInv, PlaceInv
  <2>2. QED
    BY <2>1, WholeMeets
<1>4. ASSUME NEW w \in Worker, b \in mine[w]
      PROVE  FALSE
  <2>1. CallInv(w) /\ MineInv(w)
    BY DEF IInv, DataInv
  <2>2. home[b] = IssueOf[cur[w]] /\ pc[w] # "idle"
    BY <1>4, <2>1 DEF MineInv, IssueAt
  <2>3. QED
    BY <1>1, <2>1, <2>2 DEF CallInv
<1>5. QED
  BY <1>2, <1>3, <1>4

\* The operations of a history and of one pack more.
LEMMA OpsOfGrows ==
  ASSUME NEW head, NEW ops, NEW t
  PROVE  OpsOf(head \cup {[ops |-> ops, edit |-> t]}) = OpsOf(head) \cup ops
<1> DEFINE k == [ops |-> ops, edit |-> t]
<1>1. k.ops = ops
  OBVIOUS
<1> HIDE DEF k
<1>2. \A o : o \in OpsOf(head \cup {k}) <=> o \in OpsOf(head) \/ o \in ops
  BY <1>1 DEF OpsOf
<1>3. QED
  BY <1>2 DEF k

\* A longer history has the operations of a shorter one.
LEMMA OpsOfMonotone ==
  ASSUME NEW s, NEW t, s \subseteq t
  PROVE  OpsOf(s) \subseteq OpsOf(t)
BY DEF OpsOf

-----------------------------------------------------------------------------
(* What no step does.                                                      *)

\* A batch keeps its issue, and an issue once removed stays removed.
LEMMA HistoryKept ==
  ASSUME IInv, [Next]_vars
  PROVE  /\ \A b \in Batch : home[b] # None => home'[b] = home[b]
         /\ removed \subseteq removed'
<1>1. ASSUME NEW w \in Worker, Ask(w)
      PROVE  \A b \in Batch : home[b] # None => home'[b] = home[b]
  BY <1>1 DEF Ask, ResolveHit, ResolveMiss, Release, Stage, CommitNotNeeded,
     Call, New, Tell, IInv, TypeOK
<1>2. ASSUME NEW w \in Worker, Step(w)
      PROVE  \A b \in Batch : home[b] # None => home'[b] = home[b]
  BY <1>2 DEF Step, TakeLock, LockTimeout, Rebase, NothingToCommit,
     ReloadFails, ReadForUpdate, PlanDeclined, AppendPlan, WritePack,
     WritePackFails, UpdateRef, UpdateRefFails, Return, UnlockNew, Add,
     RemoveIssue, DropNew, Tell, IInv, TypeOK
<1>3. ASSUME NEW p \in Proc, Crash(p)
      PROVE  \A b \in Batch : home[b] # None => home'[b] = home[b]
  BY <1>3 DEF Crash
<1>4. ASSUME NEW w \in Worker, Ask(w)
      PROVE  removed \subseteq removed'
  BY <1>4 DEF Ask, ResolveHit, ResolveMiss, Release, Stage, CommitNotNeeded,
     Call, New
<1>5. ASSUME NEW w \in Worker, Step(w)
      PROVE  removed \subseteq removed'
  BY <1>5 DEF Step, TakeLock, LockTimeout, Rebase, NothingToCommit,
     ReloadFails, ReadForUpdate, PlanDeclined, AppendPlan, WritePack,
     WritePackFails, UpdateRef, UpdateRefFails, Return, UnlockNew, Add,
     RemoveIssue
<1>6. ASSUME NEW p \in Proc, Crash(p)
      PROVE  removed \subseteq removed'
  BY <1>6 DEF Crash
<1>7. CASE UNCHANGED vars
  BY <1>7 DEF vars
<1>8. QED
  BY <1>1, <1>2, <1>3, <1>4, <1>5, <1>6, <1>7 DEF Next

\* What is saved stays saved: refs only move forward.
LEMMA SavedKept ==
  ASSUME IInv, [Next]_vars, NEW b \in Batch, Saved(b)
  PROVE  Saved(b)'
<1>1. None \notin Issue
  OBVIOUS
<1>2. home[b] \in Issue \cup {None} /\ removed \subseteq Issue
  BY DEF IInv, TypeOK
<1>3. home[b] \in Issue /\ home'[b] = home[b]
  BY <1>1, <1>2, HistoryKept DEF Saved, Durable
<1>4. CASE home[b] \in removed
  BY <1>3, <1>4, HistoryKept DEF Saved
<1>5. CASE Range(b) \subseteq OpsOf(ref[home[b]])
  <2>1. ref[home[b]] \subseteq ref'[home[b]] \/ home[b] \in removed'
    BY <1>3, RefStep
  <2>2. QED
    BY <1>1, <1>3, <1>5, <2>1, OpsOfMonotone DEF Saved, Durable
<1>6. QED
  BY <1>4, <1>5 DEF Saved, Durable

-----------------------------------------------------------------------------
(* Where the operations are.                                               *)

\* What a commit is to make readable is whole, is in no issue yet, and is
\* staged on no instance but the one that is committed.
LEMMA SavingFacts ==
  ASSUME IInv, DataInv, NEW w \in Worker, pc[w] = "writing"
  PROVE  /\ cur[w] \in Inst /\ IssueAt(w) \in Issue
         /\ Whole(Saving(w), IssueAt(w))
         /\ \A j \in Issue : Saving(w) \cap OpsOf(ref[j]) = {}
         /\ \A y \in Inst : y # cur[w] => Range(staged[y]) \cap Saving(w) = {}
<1>1. /\ cur[w] \in Inst /\ IssueAt(w) \in Issue
      /\ CallInv(w) /\ NewInv(w) /\ MineInv(w) /\ BuildInv(w)
  BY DEF IInv, DataInv, CallInv, IssueAt
<1>2. \A j \in Issue : Whole(OpsOf(ref[j]), j)
  BY DEF DataInv, PlaceInv
<1>3. CASE call[w] # "new"
  <2>1. Saving(w) = Range(staged[cur[w]])
    BY <1>3 DEF Saving
  <2>2. /\ Whole(Saving(w), IssueAt(w))
        /\ Saving(w) \cap OpsOf(ref[IssueAt(w)]) = {}
        /\ \A y \in Inst : y # cur[w] => Range(staged[y]) \cap Saving(w) = {}
    BY <1>1, <2>1 DEF DataInv, PlaceInv, IssueAt
  <2>3. QED
    BY <1>1, <1>2, <2>2, WholeApart
<1>4. CASE call[w] = "new"
  <2>1. Building(w)
    BY <1>4 DEF Building
  <2>2. PICK b \in Batch : mine[w] = {b}
    BY <1>1, <2>1 DEF BuildInv
  <2>3. Saving(w) = Range(b) /\ home[b] = IssueAt(w)
    BY <1>1, <1>4, <2>2 DEF Saving, MineInv
  <2>4. Whole(Saving(w), IssueAt(w))
    BY <2>3, WholeBatch
  <2>5. OpsOf(ref[IssueAt(w)]) = {}
    BY <1>1, <2>1 DEF NewInv, OpsOf
  <2>6. \A j \in Issue : Saving(w) \cap OpsOf(ref[j]) = {}
    BY <1>1, <1>2, <2>4, <2>5, WholeApart
  <2>7. ASSUME NEW y \in Inst
        PROVE  Range(staged[y]) \cap Saving(w) = {}
    <3>1. CASE y \in live
      <4>1. IssueOf[y] # IssueAt(w) /\ Whole(Range(staged[y]), IssueOf[y])
        BY <1>1, <2>1, <3>1 DEF NewInv, DataInv, PlaceInv
      <4>2. QED
        BY <2>4, <4>1, WholeApart
    <3>2. CASE y \notin live
      <4>1. staged[y] = <<>>
        BY <3>2 DEF DataInv, PlaceInv
      <4>2. QED
        BY <4>1 DEF Range
    <3>3. QED
      BY <3>1, <3>2
  <2>8. QED
    BY <1>1, <2>4, <2>6, <2>7
<1>5. QED
  BY <1>3, <1>4

\* Operations stay where they are, or go with their process.
LEMMA PlaceKept ==
  ASSUME IInv, DataInv, ref' = ref,
         \A b \in Batch : home[b] # None => home'[b] = home[b],
         \A x \in Inst : staged'[x] = staged[x] \/ staged'[x] = <<>>,
         \A x \in Inst : x \notin live' => x \notin live \/ staged'[x] = <<>>
  PROVE  PlaceInv'
<1>1. Range(<<>>) = {} /\ IsInjective(<<>>)
  BY DEF Range, IsInjective
<1>2. \A x \in Inst : IssueOf[x] \in Issue
  OBVIOUS
<1>3. ASSUME NEW i \in Issue
      PROVE  Whole(OpsOf(ref[i]), i)'
  <2>1. Whole(OpsOf(ref[i]), i)
    BY DEF DataInv, PlaceInv
  <2>2. \A o \in OpsOf(ref[i]) : \E b \in Batch :
          o \in Range(b) /\ home'[b] = i /\ Range(b) \subseteq OpsOf(ref[i])
    BY <2>1, WholeKept
  <2>3. QED
    BY <2>2 DEF Whole
<1>4. ASSUME NEW x \in Inst
      PROVE  /\ Whole(Range(staged[x]), IssueOf[x])'
             /\ IsInjective(staged'[x])
             /\ Range(staged'[x]) \cap OpsOf(ref'[IssueOf[x]]) = {}
             /\ x \notin live' => staged'[x] = <<>>
  <2>1. /\ Whole(Range(staged[x]), IssueOf[x])
        /\ IsInjective(staged[x])
        /\ Range(staged[x]) \cap OpsOf(ref[IssueOf[x]]) = {}
        /\ x \notin live => staged[x] = <<>>
    BY DEF DataInv, PlaceInv
  <2>2. \A o \in Range(staged[x]) : \E b \in Batch :
          o \in Range(b) /\ home'[b] = IssueOf[x] /\ Range(b) \subseteq Range(staged[x])
    BY <1>2, <2>1, WholeKept
  <2>3. Whole(Range(staged[x]), IssueOf[x])'
    BY <1>1, <2>2 DEF Whole
  <2>4. QED
    BY <1>1, <2>1, <2>3
<1>5. ASSUME NEW x \in Inst, NEW y \in Inst, x # y
      PROVE  Range(staged'[x]) \cap Range(staged'[y]) = {}
  BY <1>1, <1>5 DEF DataInv, PlaceInv
<1>6. QED
  BY <1>3, <1>4, <1>5 DEF PlaceInv

\* A new batch is staged on one instance and is nowhere else.
LEMMA PlaceGrows ==
  ASSUME IInv, DataInv, NEW x \in Inst, NEW b \in Batch,
         home[b] = None, x \in live, UNCHANGED <<ref, live>>,
         staged' = [staged EXCEPT ![x] = @ \o b],
         home' = [home EXCEPT ![b] = IssueOf[x]]
  PROVE  PlaceInv' /\ Range(staged'[x]) = Range(staged[x]) \cup Range(b)
<1>1. \A c \in Batch : home[c] # None => home'[c] = home[c]
  BY DEF IInv, TypeOK
<1>2. /\ staged[x] \in Seq(Op) /\ b \in Seq(Op) /\ IsInjective(b)
      /\ staged'[x] = staged[x] \o b
      /\ \A y \in Inst : y # x => staged'[y] = staged[y]
  BY BatchFacts DEF IInv, TypeOK
<1>3. Range(staged'[x]) = Range(staged[x]) \cup Range(b)
  BY <1>2, ConcatRange
<1>4. home'[b] = IssueOf[x] /\ \A y \in Inst : IssueOf[y] \in Issue
  BY DEF IInv, TypeOK
<1>5. /\ \A y \in Inst : Range(b) \cap Range(staged[y]) = {}
      /\ \A i \in Issue : Range(b) \cap OpsOf(ref[i]) = {}
  BY FreshNowhere
<1>6. ASSUME NEW y \in Inst
      PROVE  /\ Whole(Range(staged[y]), IssueOf[y])
             /\ IsInjective(staged[y])
             /\ Range(staged[y]) \cap OpsOf(ref[IssueOf[y]]) = {}
             /\ y \notin live => staged[y] = <<>>
             /\ \A z \in Inst : y # z => Range(staged[y]) \cap Range(staged[z]) = {}
  BY DEF DataInv, PlaceInv
<1>7. ASSUME NEW i \in Issue
      PROVE  Whole(OpsOf(ref[i]), i)'
  <2>1. Whole(OpsOf(ref[i]), i)
    BY DEF DataInv, PlaceInv
  <2>2. \A o \in OpsOf(ref[i]) : \E c \in Batch :
          o \in Range(c) /\ home'[c] = i /\ Range(c) \subseteq OpsOf(ref[i])
    BY <1>1, <2>1, WholeKept
  <2>3. QED
    BY <2>2 DEF Whole
<1>8. ASSUME NEW y \in Inst
      PROVE  \A o \in Range(staged[y]) : \E c \in Batch :
               o \in Range(c) /\ home'[c] = IssueOf[y] /\ Range(c) \subseteq Range(staged[y])
  BY <1>1, <1>4, <1>6, WholeKept
<1>9. ASSUME NEW y \in Inst
      PROVE  Whole(Range(staged[y]), IssueOf[y])'
  <2>1. CASE y = x
    <3>1. \A o \in Range(staged[x]) : \E c \in Batch :
            o \in Range(c) /\ home'[c] = IssueOf[x] /\ Range(c) \subseteq Range(staged'[x])
      BY <1>3, <1>8
    <3>2. \A o \in Range(b) :
            o \in Range(b) /\ home'[b] = IssueOf[x] /\ Range(b) \subseteq Range(staged'[x])
      BY <1>3, <1>4
    <3>3. \A o \in Range(staged'[x]) : \E c \in Batch :
            o \in Range(c) /\ home'[c] = IssueOf[x] /\ Range(c) \subseteq Range(staged'[x])
      BY <1>3, <3>1, <3>2
    <3>4. QED
      BY <2>1, <3>3 DEF Whole
  <2>2. CASE y # x
    BY <1>2, <1>8, <2>2 DEF Whole
  <2>3. QED
    BY <2>1, <2>2
<1>10. IsInjective(staged'[x])
  BY <1>2, <1>5, <1>6, ConcatInjective
<1>11. ASSUME NEW y \in Inst
       PROVE  /\ IsInjective(staged'[y])
              /\ Range(staged'[y]) \cap OpsOf(ref'[IssueOf[y]]) = {}
              /\ y \notin live' => staged'[y] = <<>>
              /\ \A z \in Inst : y # z => Range(staged'[y]) \cap Range(staged'[z]) = {}
  <2>1. CASE y = x
    BY <1>2, <1>3, <1>4, <1>5, <1>6, <1>10, <2>1
  <2>2. CASE y # x
    BY ZenonT(40), <1>2, <1>3, <1>4, <1>5, <1>6, <2>2
  <2>3. QED
    BY <2>1, <2>2
<1>12. QED
  BY <1>3, <1>7, <1>9, <1>11 DEF PlaceInv

\* The ref moves to a history that adds what was to be saved, and what was
\* staged is staged no more.
LEMMA PlaceSaved ==
  ASSUME IInv, DataInv, NEW w \in Worker, UpdateRef(w)
  PROVE  /\ PlaceInv'
         /\ OpsOf(ref'[IssueAt(w)]) = OpsOf(ref[IssueAt(w)]) \cup Saving(w)
         /\ \A j \in Issue : j # IssueAt(w) => ref'[j] = ref[j]
<1> DEFINE x == cur[w]
           i == IssueAt(w)
<1>1. /\ pc[w] = "writing" /\ pending[x] = <<>>
      /\ ref' = [ref EXCEPT ![i] = base[x]]
      /\ staged' = [staged EXCEPT ![x] = <<>>]
      /\ UNCHANGED <<home, live>>
  BY DEF UpdateRef, IssueAt
<1>2. /\ x \in Inst /\ i \in Issue /\ IssueOf[x] = i
      /\ Whole(Saving(w), i)
      /\ \A j \in Issue : Saving(w) \cap OpsOf(ref[j]) = {}
      /\ \A y \in Inst : y # x => Range(staged[y]) \cap Saving(w) = {}
  BY <1>1, SavingFacts DEF IssueAt
<1>3. OpsOf(base[x]) \cup Range(pending[x]) = OpsOf(ref[i]) \cup Saving(w)
  BY <1>1 DEF DataInv, WriteInv
<1>4. Range(<<>>) = {} /\ IsInjective(<<>>)
  BY DEF Range, IsInjective
<1> HIDE DEF x, i
<1>5. /\ ref'[i] = base[x] /\ \A j \in Issue : j # i => ref'[j] = ref[j]
      /\ staged'[x] = <<>> /\ \A y \in Inst : y # x => staged'[y] = staged[y]
  BY <1>1, <1>2 DEF IInv, TypeOK
<1>6. OpsOf(ref'[i]) = OpsOf(ref[i]) \cup Saving(w)
  BY <1>1, <1>3, <1>4, <1>5
<1>7. \A j \in Issue : Whole(OpsOf(ref[j]), j)
  BY DEF DataInv, PlaceInv
<1>8. ASSUME NEW j \in Issue
      PROVE  Whole(OpsOf(ref[j]), j)'
  <2>1. Whole(OpsOf(ref'[j]), j)
    <3>1. CASE j = i
      BY <1>2, <1>6, <1>7, <3>1, WholeCup
    <3>2. CASE j # i
      BY <1>5, <1>7, <3>2
    <3>3. QED
      BY <3>1, <3>2
  <2>2. QED
    BY <1>1, <2>1 DEF Whole
<1>9. ASSUME NEW y \in Inst
      PROVE  /\ Whole(Range(staged[y]), IssueOf[y])
             /\ IsInjective(staged[y])
             /\ Range(staged[y]) \cap OpsOf(ref[IssueOf[y]]) = {}
             /\ y \notin live => staged[y] = <<>>
             /\ \A z \in Inst : y # z => Range(staged[y]) \cap Range(staged[z]) = {}
  BY DEF DataInv, PlaceInv
<1>10. ASSUME NEW y \in Inst
       PROVE  Whole(Range(staged[y]), IssueOf[y])'
  <2>1. Whole(Range(staged'[y]), IssueOf[y])
    BY <1>4, <1>5, <1>9 DEF Whole
  <2>2. QED
    BY <1>1, <2>1 DEF Whole
<1>11. ASSUME NEW y \in Inst
       PROVE  /\ IsInjective(staged'[y])
              /\ Range(staged'[y]) \cap OpsOf(ref'[IssueOf[y]]) = {}
              /\ y \notin live' => staged'[y] = <<>>
              /\ \A z \in Inst : y # z => Range(staged'[y]) \cap Range(staged'[z]) = {}
  <2>1. CASE y = x
    BY <1>4, <1>5, <2>1
  <2>2. CASE y # x
    <3>1. IssueOf[y] \in Issue
      OBVIOUS
    <3>2. Range(staged[y]) \cap OpsOf(ref'[IssueOf[y]]) = {}
      BY <1>2, <1>5, <1>6, <1>9, <2>2, <3>1
    <3>3. QED
      BY <1>1, <1>4, <1>5, <1>9, <2>2, <3>2
  <2>3. QED
    BY <2>1, <2>2
<1>12. PlaceInv'
  BY <1>8, <1>10, <1>11 DEF PlaceInv
<1>13. QED
  BY <1>5, <1>6, <1>12 DEF i

\* The operations of a removed issue can be read no more.
LEMMA PlaceRemoved ==
  ASSUME IInv, DataInv, NEW w \in Worker, RemoveIssue(w)
  PROVE  PlaceInv'
<1>1. /\ ref' = [ref EXCEPT ![IssueAt(w)] = {}]
      /\ UNCHANGED <<home, live, staged>>
  BY DEF RemoveIssue, GiveUp, IssueAt
<1>2. \A i \in Issue : ref'[i] = ref[i] \/ ref'[i] = {}
  BY <1>1 DEF IInv, TypeOK
<1>3. OpsOf({}) = {}
  BY DEF OpsOf
<1>4. ASSUME NEW i \in Issue
      PROVE  Whole(OpsOf(ref[i]), i)'
  <2>1. Whole(OpsOf(ref[i]), i)
    BY DEF DataInv, PlaceInv
  <2>2. QED
    BY <1>1, <1>2, <1>3, <2>1 DEF Whole
<1>5. ASSUME NEW y \in Inst
      PROVE  /\ Whole(Range(staged[y]), IssueOf[y])'
             /\ IsInjective(staged'[y])
             /\ Range(staged'[y]) \cap OpsOf(ref'[IssueOf[y]]) = {}
             /\ y \notin live' => staged'[y] = <<>>
             /\ \A z \in Inst : y # z => Range(staged'[y]) \cap Range(staged'[z]) = {}
  <2>1. /\ Whole(Range(staged[y]), IssueOf[y])
        /\ IsInjective(staged[y])
        /\ Range(staged[y]) \cap OpsOf(ref[IssueOf[y]]) = {}
        /\ y \notin live => staged[y] = <<>>
        /\ \A z \in Inst : y # z => Range(staged[y]) \cap Range(staged[z]) = {}
    BY DEF DataInv, PlaceInv
  <2>2. Whole(Range(staged[y]), IssueOf[y])'
    BY <1>1, <2>1 DEF Whole
  <2>3. IssueOf[y] \in Issue
    OBVIOUS
  <2>4. QED
    BY <1>1, <1>2, <1>3, <2>1, <2>2, <2>3
<1>6. QED
  BY <1>4, <1>5 DEF PlaceInv

\* Every step leaves the operations where the invariant says.
LEMMA PlaceStep ==
  ASSUME IInv, DataInv, [Next]_vars
  PROVE  PlaceInv'
<1>1. \A b \in Batch : home[b] # None => home'[b] = home[b]
  BY HistoryKept
<1>2. ASSUME NEW w \in Worker, NEW b \in Batch, Stage(w, b)
      PROVE  PlaceInv'
  <2>1. cur[w] \in Inst
    BY <1>2 DEF Stage, IInv, TypeOK
  <2>2. QED
    BY <1>2, <2>1, PlaceGrows DEF Stage
<1>3. ASSUME NEW w \in Worker, Ask(w), \A b \in Batch : ~Stage(w, b)
      PROVE  ref' = ref /\ staged' = staged /\ live \subseteq live'
  BY <1>3 DEF Ask, ResolveHit, ResolveMiss, Release, CommitNotNeeded, Call, New
<1>4. ASSUME NEW w \in Worker, NEW b \in Batch, AppendPlan(w, b)
      PROVE  PlaceInv'
  <2>1. cur[w] \in Inst /\ cur[w] \in live
    BY <1>4 DEF AppendPlan, IInv, CallInv
  <2>2. QED
    BY <1>4, <2>1, PlaceGrows DEF AppendPlan
<1>5. ASSUME NEW w \in Worker, Step(w), ~UpdateRef(w), ~RemoveIssue(w),
             \A b \in Batch : ~AppendPlan(w, b)
      PROVE  ref' = ref /\ staged' = staged /\ live \subseteq live'
  BY <1>5 DEF Step, TakeLock, LockTimeout, Rebase, Reload, NothingToCommit,
     ReloadFails, ReadForUpdate, PlanDeclined, WritePack, WritePackFails,
     UpdateRefFails, Return, UnlockNew, Add
<1>6. ASSUME NEW p \in Proc, Crash(p)
      PROVE  PlaceInv'
  <2>1. /\ ref' = ref
        /\ \A x \in Inst : staged'[x] = staged[x] \/ staged'[x] = <<>>
        /\ \A x \in Inst : x \notin live' => x \notin live \/ staged'[x] = <<>>
    BY <1>6 DEF Crash
  <2>2. QED
    BY <1>1, <2>1, PlaceKept
<1>7. CASE UNCHANGED vars
  <2>1. ref' = ref /\ staged' = staged /\ live \subseteq live'
    BY <1>7 DEF vars
  <2>2. QED
    BY <1>1, <2>1, PlaceKept
<1>8. ASSUME ref' = ref /\ staged' = staged /\ live \subseteq live'
      PROVE  PlaceInv'
  BY <1>1, <1>8, PlaceKept
<1>9. QED
  BY <1>2, <1>3, <1>4, <1>5, <1>6, <1>7, <1>8, PlaceSaved, PlaceRemoved DEF Next

\* Only the end of a commit and a removal move a ref.
LEMMA RefMoves ==
  ASSUME [Next]_vars, ref' # ref
  PROVE  \E w \in Worker : UpdateRef(w) \/ RemoveIssue(w)
<1>1. ASSUME NEW w \in Worker, Ask(w)
      PROVE  ref' = ref
  BY <1>1 DEF Ask, ResolveHit, ResolveMiss, Release, Stage, CommitNotNeeded,
     Call, New
<1>2. ASSUME NEW w \in Worker, Step(w), ~UpdateRef(w), ~RemoveIssue(w)
      PROVE  ref' = ref
  BY <1>2 DEF Step, TakeLock, LockTimeout, Rebase, NothingToCommit,
     ReloadFails, ReadForUpdate, PlanDeclined, AppendPlan, WritePack,
     WritePackFails, UpdateRefFails, Return, UnlockNew, Add
<1>3. ASSUME NEW p \in Proc, Crash(p)
      PROVE  ref' = ref
  BY <1>3 DEF Crash
<1>4. CASE UNCHANGED vars
  BY <1>4 DEF vars
<1>5. QED
  BY <1>1, <1>2, <1>3, <1>4 DEF Next

\* The packs that a commit leaves behind the ref share no operation.
LEMMA OnceStep ==
  ASSUME IInv, DataInv, [Next]_vars
  PROVE  CommittedOnce'
<1> SUFFICES ASSUME NEW i \in Issue, NEW p \in ref'[i], NEW q \in ref'[i], p # q
             PROVE  p.ops \cap q.ops = {}
  BY DEF CommittedOnce
<1>1. CASE ref' = ref
  BY <1>1 DEF DataInv, CommittedOnce
<1>2. ASSUME NEW w \in Worker, UpdateRef(w)
      PROVE  p.ops \cap q.ops = {}
  <2>1. /\ pc[w] = "writing" /\ IssueAt(w) \in Issue
        /\ ref' = [ref EXCEPT ![IssueAt(w)] = base[cur[w]]]
    BY <1>2, SavingFacts DEF UpdateRef, IssueAt
  <2>2. \A k, l \in base[cur[w]] : k # l => k.ops \cap l.ops = {}
    BY <2>1 DEF DataInv, WriteInv
  <2>3. CASE i = IssueAt(w)
    BY <2>1, <2>2, <2>3 DEF IInv, TypeOK
  <2>4. CASE i # IssueAt(w)
    BY <2>1, <2>4 DEF DataInv, CommittedOnce, IInv, TypeOK
  <2>5. QED
    BY <2>3, <2>4
<1>3. ASSUME NEW w \in Worker, RemoveIssue(w)
      PROVE  p.ops \cap q.ops = {}
  <2>1. ref'[i] = ref[i] \/ ref'[i] = {}
    BY <1>3 DEF RemoveIssue, IInv, TypeOK
  <2>2. QED
    BY <2>1 DEF DataInv, CommittedOnce
<1>4. QED
  BY <1>1, <1>2, <1>3, RefMoves

-----------------------------------------------------------------------------
(* What the writers of the batches know.                                   *)

\* A step that takes no place from a worker's batches.
LEMMA MineKept ==
  ASSUME IInv, DataInv, [Next]_vars, home' = home,
         \A v \in Worker : mine'[v] # {} =>
           /\ mine'[v] = mine[v] /\ cur'[v] = cur[v] /\ pc'[v] # "idle"
           /\ call'[v] = "new" <=> call[v] = "new"
           /\ pc'[v] = "committed" <=> pc[v] = "committed"
           /\ Building(v) => Building(v)'
           /\ staged'[cur[v]] = staged[cur[v]]
           /\ \A b \in mine[v] : reply[b] # "acked" => reply'[b] # "acked"
  PROVE  \A v \in Worker : MineInv(v)'
<1> SUFFICES ASSUME NEW v \in Worker
             PROVE  MineInv(v)'
  OBVIOUS
<1>1. MineInv(v) /\ mine[v] \subseteq Batch
  BY DEF DataInv, IInv, TypeOK
<1>2. CASE mine'[v] = {}
  BY <1>2 DEF MineInv
<1>3. CASE mine'[v] # {}
  <2>1. /\ mine'[v] = mine[v] /\ cur'[v] = cur[v] /\ pc'[v] # "idle"
        /\ call'[v] = "new" <=> call[v] = "new"
        /\ pc'[v] = "committed" <=> pc[v] = "committed"
        /\ Building(v) => Building(v)'
        /\ staged'[cur[v]] = staged[cur[v]]
        /\ \A b \in mine[v] : reply[b] # "acked" => reply'[b] # "acked"
    BY <1>3
  <2>2. IssueAt(v)' = IssueAt(v)
    BY <2>1 DEF IssueAt
  <2>3. ASSUME NEW b \in mine[v]
        PROVE  /\ home'[b] = IssueAt(v)'
               /\ reply'[b] # "acked"
               /\ \/ Saved(b)'
                  \/ Building(v)'
                  \/ /\ call'[v] # "new" /\ pc'[v] # "committed"
                     /\ Range(b) \subseteq Range(staged'[cur'[v]])
    <3>1. Saved(b) => Saved(b)'
      BY <1>1, SavedKept
    <3>2. QED
      BY <1>1, <2>1, <2>2, <3>1 DEF MineInv
  <2>4. \A u \in Worker : u # v => mine'[u] \cap mine'[v] = {}
    <3>1. \A u \in Worker : mine'[u] = {} \/ mine'[u] = mine[u]
      OBVIOUS
    <3>2. QED
      BY <1>1, <2>1, <3>1 DEF MineInv
  <2>5. QED
    BY <2>1, <2>3, <2>4 DEF MineInv
<1>4. QED
  BY <1>2, <1>3

\* A worker that was answered has no batch left to ask about, and no answer
\* is about another's.
LEMMA MineQuiet ==
  ASSUME IInv, DataInv, NEW w \in Worker,
         \/ \E x \in Inst : ResolveHit(w, x) \/ ResolveMiss(w, x)
         \/ Release(w) \/ CommitNotNeeded(w) \/ \E kind \in Calls : Call(w, kind)
         \/ TakeLock(w) \/ LockTimeout(w) \/ Rebase(w) \/ NothingToCommit(w)
         \/ ReloadFails(w) \/ ReadForUpdate(w) \/ PlanDeclined(w)
         \/ WritePack(w) \/ WritePackFails(w) \/ UpdateRefFails(w)
         \/ Return(w) \/ UnlockNew(w) \/ Add(w) \/ RemoveIssue(w)
  PROVE  \A v \in Worker : MineInv(v)'
<1>1. [Next]_vars
  BY DEF Next, Ask, Step
<1>2. \A v \in Worker : v # w => mine[v] \cap mine[w] = {} /\ mine[v] \subseteq Batch
  BY DEF DataInv, MineInv, IInv, TypeOK
<1>3. \A v \in Worker : pc[v] = "idle" => mine[v] = {}
  BY DEF DataInv, MineInv
<1>4. CallInv(w)
  BY DEF IInv
<1>5. CASE \E x \in Inst : ResolveHit(w, x) \/ ResolveMiss(w, x)
  BY <1>1, <1>3, <1>5, MineKept DEF ResolveHit, ResolveMiss, Building, IInv, TypeOK
<1>6. CASE Release(w)
  BY <1>1, <1>3, <1>6, MineKept DEF Release, Building, IInv, TypeOK
<1>7. CASE CommitNotNeeded(w)
  BY <1>1, <1>2, <1>3, <1>7, MineKept DEF CommitNotNeeded, Tell, Building, IInv, TypeOK
<1>8. CASE \E kind \in Calls : Call(w, kind)
  BY <1>1, <1>3, <1>4, <1>8, MineKept DEF Call, CallInv, Building, IInv, TypeOK
<1>9. CASE TakeLock(w)
  BY <1>1, <1>3, <1>4, <1>9, MineKept DEF TakeLock, CallInv, Building, IInv, TypeOK
<1>10. CASE LockTimeout(w)
  BY <1>1, <1>2, <1>3, <1>4, <1>10, MineKept
     DEF LockTimeout, DropNew, Tell, CallInv, Building, IInv, TypeOK
<1>11. CASE Rebase(w)
  BY <1>1, <1>3, <1>4, <1>11, MineKept DEF Rebase, Reload, CallInv, Building, IInv, TypeOK
<1>12. CASE NothingToCommit(w)
  BY <1>1, <1>2, <1>3, <1>12, MineKept
     DEF NothingToCommit, GiveUp, Tell, Building, IInv, TypeOK
<1>13. CASE ReloadFails(w)
  BY <1>1, <1>3, <1>4, <1>13, MineKept DEF ReloadFails, GiveUp, CallInv, Building, IInv, TypeOK
<1>14. CASE ReadForUpdate(w)
  BY <1>1, <1>3, <1>4, <1>14, MineKept DEF ReadForUpdate, Reload, CallInv, Building, IInv, TypeOK
<1>15. CASE PlanDeclined(w)
  BY <1>1, <1>3, <1>4, <1>15, MineKept DEF PlanDeclined, GiveUp, CallInv, Building, IInv, TypeOK
<1>16. CASE WritePack(w)
  BY <1>1, <1>3, <1>4, <1>16, MineKept DEF WritePack, CallInv, Building, IInv, TypeOK
<1>17. CASE WritePackFails(w)
  BY <1>1, <1>2, <1>3, <1>4, <1>17, MineKept
     DEF WritePackFails, DropNew, GiveUp, Tell, CallInv, Building, IInv, TypeOK
<1>18. CASE UpdateRefFails(w)
  BY <1>1, <1>2, <1>3, <1>4, <1>18, MineKept
     DEF UpdateRefFails, DropNew, GiveUp, Tell, CallInv, Building, IInv, TypeOK
<1>19. CASE Return(w)
  BY <1>1, <1>2, <1>3, <1>19, MineKept DEF Return, Tell, Building, IInv, TypeOK
<1>20. CASE UnlockNew(w)
  BY <1>1, <1>3, <1>20, MineKept DEF UnlockNew, Building, IInv, TypeOK
<1>21. CASE Add(w)
  BY <1>1, <1>2, <1>3, <1>21, MineKept DEF Add, Tell, Building, IInv, TypeOK
<1>22. CASE RemoveIssue(w)
  BY <1>1, <1>3, <1>4, <1>22, MineKept DEF RemoveIssue, GiveUp, CallInv, Building, IInv, TypeOK
<1>23. QED
  BY <1>5, <1>6, <1>7, <1>8, <1>9, <1>10, <1>11, <1>12, <1>13, <1>14, <1>15,
     <1>16, <1>17, <1>18, <1>19, <1>20, <1>21, <1>22

\* A new batch is its writer's alone, and is staged or being built.
LEMMA MineGrows ==
  ASSUME IInv, DataInv, [Next]_vars, NEW w \in Worker, NEW b \in Batch,
         home[b] = None,
         home' = [home EXCEPT ![b] = IssueAt(w)'],
         reply' = [reply EXCEPT ![b] = "staged"],
         mine' = [mine EXCEPT ![w] = @ \cup {b}],
         pc[w] = "idle" \/ (cur'[w] = cur[w] /\ call[w] # "new" /\ pc[w] # "committed"),
         pc'[w] # "idle",
         \/ Building(w)'
         \/ call'[w] # "new" /\ pc'[w] # "committed"
            /\ Range(staged'[cur'[w]]) = Range(staged[cur'[w]]) \cup Range(b),
         \A v \in Worker : v # w =>
           /\ cur'[v] = cur[v] /\ pc'[v] = pc[v] /\ call'[v] = call[v]
           /\ cur[v] \in Inst => Range(staged[cur[v]]) \subseteq Range(staged'[cur[v]])
  PROVE  \A v \in Worker : MineInv(v)'
<1> SUFFICES ASSUME NEW v \in Worker
             PROVE  MineInv(v)'
  OBVIOUS
<1>1. /\ MineInv(v) /\ mine[v] \subseteq Batch
      /\ \A u \in Worker : b \notin mine[u]
      /\ mine'[w] = mine[w] \cup {b} /\ \A u \in Worker : u # w => mine'[u] = mine[u]
      /\ home'[b] = IssueAt(w)' /\ reply'[b] = "staged"
      /\ \A c \in Batch : c # b => home'[c] = home[c] /\ reply'[c] = reply[c]
  BY FreshNowhere DEF DataInv, IInv, TypeOK
<1>2. \A c \in mine[v] : Saved(c) => Saved(c)'
  BY <1>1, SavedKept
<1>3. \A u \in Worker : u # v => mine'[u] \cap mine'[v] = {}
  BY <1>1 DEF MineInv
<1>4. CASE v # w
  <2>1. IssueAt(v)' = IssueAt(v) /\ (Building(v)' <=> Building(v))
    BY <1>4 DEF IssueAt, Building
  <2>2. mine[v] # {} => cur[v] \in Inst
    BY <1>1 DEF MineInv, IInv, CallInv
  <2>3. ASSUME NEW c \in mine[v]
        PROVE  /\ home'[c] = IssueAt(v)' /\ reply'[c] # "acked"
               /\ \/ Saved(c)'
                  \/ Building(v)'
                  \/ /\ call'[v] # "new" /\ pc'[v] # "committed"
                     /\ Range(c) \subseteq Range(staged'[cur'[v]])
    <3>1. c \in Batch /\ c # b /\ home'[c] = home[c] /\ reply'[c] = reply[c]
      BY <1>1, <2>3
    <3>2. Range(staged[cur[v]]) \subseteq Range(staged'[cur'[v]])
      BY <1>4, <2>2, <2>3
    <3>3. QED
      BY <1>1, <1>2, <1>4, <2>1, <2>3, <3>1, <3>2 DEF MineInv
  <2>4. pc'[v] = "idle" => mine'[v] = {}
    BY <1>1, <1>4 DEF MineInv
  <2>5. mine'[v] = mine[v]
    BY <1>1, <1>4
  <2>6. QED
    BY <1>3, <2>3, <2>4, <2>5 DEF MineInv
<1>5. CASE v = w
  <2>1. ASSUME NEW c \in mine[w]
        PROVE  /\ home'[c] = IssueAt(w)' /\ reply'[c] # "acked"
               /\ \/ Saved(c)'
                  \/ Range(c) \subseteq Range(staged[cur'[w]])
    <3>1. pc[w] # "idle"
      BY <1>1, <1>5, <2>1 DEF MineInv
    <3>2. /\ c \in Batch /\ c # b /\ IssueAt(w)' = IssueAt(w) /\ ~Building(w)
          /\ cur'[w] = cur[w]
      BY <1>1, <1>5, <2>1, <3>1 DEF IssueAt, Building
    <3>3. QED
      BY <1>1, <1>2, <1>5, <2>1, <3>2 DEF MineInv
  <2>2. QED
    BY <1>1, <1>3, <1>5, <2>1 DEF MineInv
<1>6. QED
  BY <1>4, <1>5

\* What a worker knows of its batches, after any step.
LEMMA MineStep ==
  ASSUME IInv, DataInv, [Next]_vars
  PROVE  \A v \in Worker : MineInv(v)'
<1>1. ASSUME NEW w \in Worker, NEW b \in Batch, Stage(w, b)
      PROVE  \A v \in Worker : MineInv(v)'
  <2>1. /\ cur[w] \in Inst /\ cur[w] \in live /\ CallInv(w) /\ ~Building(w)
        /\ pc[w] = "holding" /\ pc' = pc /\ call' = call /\ cur' = cur
    BY <1>1 DEF Stage, IInv, TypeOK, Building
  <2>2. /\ Range(staged'[cur[w]]) = Range(staged[cur[w]]) \cup Range(b)
        /\ \A y \in Inst : y # cur[w] => staged'[y] = staged[y]
    BY <1>1, <2>1, PlaceGrows DEF Stage, IInv, TypeOK
  <2>3. /\ home[b] = None /\ home' = [home EXCEPT ![b] = IssueAt(w)']
        /\ reply' = [reply EXCEPT ![b] = "staged"]
        /\ mine' = [mine EXCEPT ![w] = @ \cup {b}]
    BY <1>1, <2>1 DEF Stage, IssueAt
  <2>4. call[w] = "none"
    BY <2>1 DEF CallInv
  <2>5. /\ cur'[w] = cur[w] /\ call'[w] # "new" /\ pc'[w] = "holding"
        /\ \A v \in Worker : v # w =>
             /\ cur'[v] = cur[v] /\ pc'[v] = pc[v] /\ call'[v] = call[v]
             /\ cur[v] \in Inst => Range(staged[cur[v]]) \subseteq Range(staged'[cur[v]])
    BY <2>1, <2>2, <2>4
  <2>6. Range(staged'[cur'[w]]) = Range(staged[cur'[w]]) \cup Range(b)
    BY <2>2, <2>5
  <2>7. QED
    BY <2>1, <2>3, <2>4, <2>5, <2>6, MineGrows
<1>2. ASSUME NEW w \in Worker, NEW b \in Batch, AppendPlan(w, b)
      PROVE  \A v \in Worker : MineInv(v)'
  <2>1. /\ cur[w] \in Inst /\ cur[w] \in live /\ call[w] = "update"
        /\ pc[w] = "planned" /\ pc' = [pc EXCEPT ![w] = "writing"] /\ call' = call /\ cur' = cur
    BY <1>2 DEF AppendPlan, IInv, CallInv
  <2>2. /\ Range(staged'[cur[w]]) = Range(staged[cur[w]]) \cup Range(b)
        /\ \A y \in Inst : y # cur[w] => staged'[y] = staged[y]
    BY <1>2, <2>1, PlaceGrows DEF AppendPlan, IInv, TypeOK
  <2>3. /\ home[b] = None /\ home' = [home EXCEPT ![b] = IssueAt(w)']
        /\ reply' = [reply EXCEPT ![b] = "staged"]
        /\ mine' = [mine EXCEPT ![w] = @ \cup {b}]
    BY <1>2, <2>1 DEF AppendPlan, IssueAt
  <2>4. pc'[w] = "writing" /\ \A v \in Worker : v # w => pc'[v] = pc[v]
    BY <2>1 DEF IInv, TypeOK
  <2>5. /\ cur'[w] = cur[w] /\ call'[w] # "new"
        /\ \A v \in Worker : v # w =>
             /\ cur'[v] = cur[v] /\ pc'[v] = pc[v] /\ call'[v] = call[v]
             /\ cur[v] \in Inst => Range(staged[cur[v]]) \subseteq Range(staged'[cur[v]])
    BY <2>1, <2>2, <2>4
  <2>6. Range(staged'[cur'[w]]) = Range(staged[cur'[w]]) \cup Range(b)
    BY <2>2, <2>5
  <2>7. QED
    BY <2>1, <2>3, <2>4, <2>5, <2>6, MineGrows
<1>3. ASSUME NEW w \in Worker, NEW x \in Inst, NEW b \in Batch, New(w, x, b)
      PROVE  \A v \in Worker : MineInv(v)'
  <2>1. /\ pc[w] = "idle" /\ pc' = [pc EXCEPT ![w] = "waiting"]
        /\ call' = [call EXCEPT ![w] = "new"] /\ cur' = [cur EXCEPT ![w] = x]
        /\ mine' = [mine EXCEPT ![w] = {b}] /\ home[b] = None /\ staged' = staged
        /\ home' = [home EXCEPT ![b] = IssueOf[x]]
        /\ reply' = [reply EXCEPT ![b] = "staged"]
    BY <1>3 DEF New
  <2>2. mine[w] = {}
    BY <2>1 DEF DataInv, MineInv
  <2>3. mine' = [mine EXCEPT ![w] = @ \cup {b}]
    BY <2>1, <2>2
  <2>4. /\ pc'[w] = "waiting" /\ call'[w] = "new" /\ cur'[w] = x
        /\ \A v \in Worker : v # w => pc'[v] = pc[v] /\ call'[v] = call[v] /\ cur'[v] = cur[v]
    BY <2>1 DEF IInv, TypeOK
  <2>5. home' = [home EXCEPT ![b] = IssueAt(w)'] /\ Building(w)'
    BY <2>1, <2>4 DEF IssueAt, Building
  <2>6. QED
    BY ZenonT(40), <2>1, <2>3, <2>4, <2>5, MineGrows
<1>4. ASSUME NEW w \in Worker, UpdateRef(w), NEW v \in Worker
      PROVE  MineInv(v)'
  <2>1. /\ pc[w] = "writing" /\ UNCHANGED <<call, cur, mine, home, reply>>
        /\ pc' = [pc EXCEPT ![w] = "committed"]
        /\ staged' = [staged EXCEPT ![cur[w]] = <<>>]
    BY <1>4 DEF UpdateRef
  <2>2. /\ MineInv(v) /\ mine[v] \subseteq Batch /\ CallInv(v) /\ CallInv(w)
        /\ BuildInv(w)
    BY DEF DataInv, IInv, TypeOK
  <2>3. IssueAt(v)' = IssueAt(v)
    BY <2>1 DEF IssueAt
  <2>4. \A b \in mine[v] : Saved(b) => Saved(b)'
    BY <2>2, SavedKept
  <2>5. /\ OpsOf(ref'[IssueAt(w)]) = OpsOf(ref[IssueAt(w)]) \cup Saving(w)
        /\ IssueAt(w) \in Issue /\ cur[w] \in Inst
    BY <1>4, <2>1, PlaceSaved, SavingFacts
  <2>6. ASSUME NEW b \in mine[v], cur[v] = cur[w], Range(b) \subseteq Saving(w)
        PROVE  Saved(b)'
    <3>1. home'[b] = IssueAt(w)
      BY <2>1, <2>2, <2>6 DEF MineInv, IssueAt
    <3>2. IssueAt(w) # None
      BY <2>5
    <3>3. QED
      BY <2>5, <2>6, <3>1, <3>2 DEF Saved, Durable
  <2>7. ASSUME NEW b \in mine[v]
        PROVE  \/ Saved(b)'
               \/ Building(v)'
               \/ /\ call'[v] # "new" /\ pc'[v] # "committed"
                  /\ Range(b) \subseteq Range(staged'[cur'[v]])
    <3>1. CASE Saved(b)
      BY <2>4, <3>1
    <3>2. CASE Building(v)
      <4>1. CASE v = w
        <5>1. Range(b) \subseteq Saving(w)
          BY <2>7, <3>2, <4>1 DEF Saving, Building
        <5>2. QED
          BY <2>6, <4>1, <5>1
      <4>2. CASE v # w
        <5>1. Building(v)'
          BY <2>1, <3>2, <4>2 DEF Building, IInv, TypeOK
        <5>2. QED
          BY <5>1
      <4>3. QED
        BY <4>1, <4>2
    <3>3. CASE call[v] # "new" /\ pc[v] # "committed" /\ Range(b) \subseteq Range(staged[cur[v]])
      <4>1. CASE cur[v] = cur[w]
        <5>1. call[w] # "new"
          BY <2>2, <3>3, <4>1 DEF CallInv
        <5>2. Range(b) \subseteq Saving(w)
          BY <3>3, <4>1, <5>1 DEF Saving
        <5>3. QED
          BY <2>6, <4>1, <5>2
      <4>2. CASE cur[v] # cur[w]
        <5>1. pc[v] # "idle"
          BY <2>2, <2>7 DEF MineInv
        <5>2. cur[v] \in Inst /\ v # w
          BY <2>2, <4>2, <5>1 DEF CallInv
        <5>3. staged'[cur[v]] = staged[cur[v]] /\ pc'[v] = pc[v]
          BY <2>1, <2>5, <4>2, <5>2 DEF IInv, TypeOK
        <5>4. QED
          BY <2>1, <3>3, <5>3
      <4>3. QED
        BY <4>1, <4>2
    <3>4. QED
      BY <2>2, <3>1, <3>2, <3>3 DEF MineInv
  <2>8. pc'[v] = "idle" => mine'[v] = {}
    BY <2>1, <2>2 DEF MineInv, IInv, TypeOK
  <2>9. QED
    BY <2>1, <2>2, <2>3, <2>7, <2>8 DEF MineInv
<1>5. ASSUME NEW p \in Proc, Crash(p)
      PROVE  \A v \in Worker : MineInv(v)'
  <2>1. home' = home /\ \A b \in Batch : reply[b] # "acked" => reply'[b] # "acked"
    BY <1>5 DEF Crash
  <2>2. ASSUME NEW v \in Worker, mine'[v] # {}
        PROVE  /\ mine'[v] = mine[v] /\ cur'[v] = cur[v] /\ pc'[v] # "idle"
               /\ call'[v] = "new" <=> call[v] = "new"
               /\ pc'[v] = "committed" <=> pc[v] = "committed"
               /\ Building(v) => Building(v)'
               /\ staged'[cur[v]] = staged[cur[v]]
    <3>1. /\ ProcOf[v] # p /\ mine'[v] = mine[v] /\ cur'[v] = cur[v]
          /\ pc'[v] = pc[v] /\ call'[v] = call[v]
      BY <1>5, <2>2 DEF Crash
    <3>2. pc[v] # "idle" /\ cur[v] \in Inst /\ ProcOf[cur[v]] # p
      BY <2>2, <3>1 DEF DataInv, MineInv, IInv, CallInv
    <3>3. staged'[cur[v]] = staged[cur[v]]
      BY <1>5, <3>2 DEF Crash
    <3>4. QED
      BY <3>1, <3>2, <3>3 DEF Building
  <2>3. \A v \in Worker : mine[v] \subseteq Batch
    BY DEF IInv, TypeOK
  <2>4. QED
    BY <2>1, <2>2, <2>3, MineKept
<1>6. CASE UNCHANGED vars
  BY <1>6, MineKept DEF vars, DataInv, MineInv, Building
<1>7. ASSUME NEW w \in Worker, Ask(w)
      PROVE  \A v \in Worker : MineInv(v)'
  BY <1>1, <1>3, <1>7, MineQuiet DEF Ask
<1>8. ASSUME NEW w \in Worker, Step(w)
      PROVE  \A v \in Worker : MineInv(v)'
  BY <1>2, <1>4, <1>8, MineQuiet DEF Step
<1>9. QED
  BY <1>5, <1>6, <1>7, <1>8 DEF Next

\* What newRaw builds is its builder's until it is written.
LEMMA BuildStep ==
  ASSUME IInv, DataInv, [Next]_vars
  PROVE  \A v \in Worker : BuildInv(v)'
<1> SUFFICES ASSUME NEW v \in Worker, Building(v)'
             PROVE  \E b \in Batch :
                      /\ mine'[v] = {b}
                      /\ pc'[v] = "waiting" => base'[cur'[v]] = {} /\ pending'[cur'[v]] = b
  BY DEF BuildInv
<1>1. CASE \E w \in Worker, x \in Inst, b \in Batch : New(w, x, b) /\ w = v
  BY <1>1 DEF New, IInv, TypeOK
<1>2. CASE /\ Building(v) /\ mine'[v] = mine[v] /\ cur'[v] = cur[v]
           /\ pc'[v] = "waiting" =>
                /\ pc[v] = "waiting"
                /\ base'[cur[v]] = base[cur[v]] /\ pending'[cur[v]] = pending[cur[v]]
  <2>1. BuildInv(v)
    BY DEF DataInv
  <2>2. QED
    BY <1>2, <2>1 DEF BuildInv
<1>3. CallInv(v)
  BY DEF IInv
<1>4. ASSUME NEW w \in Worker, Ask(w), \A x \in Inst, b \in Batch : ~(New(w, x, b) /\ w = v)
      PROVE  /\ Building(v) /\ mine'[v] = mine[v] /\ cur'[v] = cur[v] /\ pc'[v] = pc[v]
             /\ base'[cur[v]] = base[cur[v]] /\ pending'[cur[v]] = pending[cur[v]]
  <2>1. CallInv(w)
    BY DEF IInv
  <2>2. CASE w = v
    BY <1>4, <2>1, <2>2 DEF Ask, ResolveHit, ResolveMiss, Release, Stage,
       CommitNotNeeded, Call, CallInv, Building, IInv, TypeOK
  <2>3. CASE w # v
    <3>1. Building(v) /\ mine'[v] = mine[v] /\ cur'[v] = cur[v] /\ pc'[v] = pc[v]
      BY <1>4, <2>3 DEF Ask, ResolveHit, ResolveMiss, Release, Stage, CommitNotNeeded,
         Call, New, Building, IInv, TypeOK
    <3>2. base'[cur[v]] = base[cur[v]] /\ pending'[cur[v]] = pending[cur[v]]
      <4>1. cur[v] \in Inst /\ cur[v] \notin live
        BY <1>3, <3>1 DEF CallInv, Building
      <4>2. QED
        BY SMTT(30), <1>4, <4>1 DEF Ask, ResolveHit, ResolveMiss, Release, Stage, CommitNotNeeded,
           Call, New, IInv, TypeOK
    <3>3. QED
      BY <3>1, <3>2
  <2>4. QED
    BY <2>2, <2>3
<1>5. ASSUME NEW w \in Worker, Step(w)
      PROVE  /\ Building(v) /\ mine'[v] = mine[v] /\ cur'[v] = cur[v]
             /\ pc'[v] = "waiting" =>
                  /\ pc[v] = "waiting"
                  /\ base'[cur[v]] = base[cur[v]] /\ pending'[cur[v]] = pending[cur[v]]
  <2>1. CallInv(w)
    BY DEF IInv
  <2>2. CASE w = v
    BY <1>5, <2>1, <2>2 DEF Step, TakeLock, LockTimeout, Rebase, Reload, NothingToCommit,
       ReloadFails, ReadForUpdate, PlanDeclined, AppendPlan, WritePack,
       WritePackFails, UpdateRef, UpdateRefFails, Return, UnlockNew, Add,
       RemoveIssue, DropNew, GiveUp, CallInv, Building, IInv, TypeOK
  <2>3. CASE w # v
    <3>1. Building(v) /\ mine'[v] = mine[v] /\ cur'[v] = cur[v] /\ pc'[v] = pc[v]
      BY SMTT(30), <1>5, <2>3 DEF Step, TakeLock, LockTimeout, Rebase, Reload, NothingToCommit,
         ReloadFails, ReadForUpdate, PlanDeclined, AppendPlan, WritePack,
         WritePackFails, UpdateRef, UpdateRefFails, Return, UnlockNew, Add,
         RemoveIssue, DropNew, GiveUp, Building, IInv, TypeOK
    <3>2. base'[cur[v]] = base[cur[v]] /\ pending'[cur[v]] = pending[cur[v]]
      <4>1. cur[v] \in Inst /\ cur[w] # cur[v]
        BY <1>3, <2>3, <3>1 DEF CallInv, Building
      <4>2. QED
        BY <1>5, <4>1 DEF Step, TakeLock, LockTimeout, Rebase, Reload, NothingToCommit,
           ReloadFails, ReadForUpdate, PlanDeclined, AppendPlan, WritePack,
           WritePackFails, UpdateRef, UpdateRefFails, Return, UnlockNew, Add,
           RemoveIssue, DropNew, GiveUp, IInv, TypeOK
    <3>3. QED
      BY SMTT(30), <3>1, <3>2
  <2>4. QED
    BY <2>2, <2>3
<1>6. ASSUME NEW p \in Proc, Crash(p)
      PROVE  /\ Building(v) /\ mine'[v] = mine[v] /\ cur'[v] = cur[v] /\ pc'[v] = pc[v]
             /\ base'[cur[v]] = base[cur[v]] /\ pending'[cur[v]] = pending[cur[v]]
  <2>1. /\ ProcOf[v] # p /\ Building(v) /\ mine'[v] = mine[v] /\ cur'[v] = cur[v]
        /\ pc'[v] = pc[v]
    BY <1>6 DEF Crash, Building
  <2>2. cur[v] \in Inst /\ ProcOf[cur[v]] # p
    BY <1>3, <2>1 DEF CallInv, Building
  <2>3. QED
    BY <1>6, <2>1, <2>2 DEF Crash
<1>7. CASE UNCHANGED vars
  BY <1>2, <1>7 DEF vars, Building
<1>8. QED
  BY <1>1, <1>2, <1>4, <1>5, <1>6, <1>7 DEF Next

\* No answer is untrue: a batch said to be saved was saved when its writer was
\* answered, and so was one that another thread's commit took along.
LEMMA AnswerStep ==
  ASSUME IInv, DataInv, [Next]_vars
  PROVE  AckedDurable' /\ NothingMeansDurable'
<1> SUFFICES ASSUME NEW b \in Batch, reply'[b] \in {"acked", "nothing"}
             PROVE  Saved(b)'
  BY DEF AckedDurable, NothingMeansDurable, Saved
<1>1. CASE reply[b] = reply'[b]
  BY <1>1, SavedKept DEF DataInv, AckedDurable, NothingMeansDurable, Saved
<1>2. ASSUME NEW w \in Worker, b \in mine[w], pc[w] = "committed"
      PROVE  Saved(b)'
  BY <1>2, SavedKept DEF DataInv, MineInv, Building
<1>3. ASSUME NEW w \in Worker, NothingToCommit(w), b \in mine[w]
      PROVE  Saved(b)'
  <2>1. Range(staged[cur[w]]) = {} /\ ~Building(w)
    BY <1>3 DEF NothingToCommit, Range, Building
  <2>2. ~(Range(b) \subseteq Range(staged[cur[w]]))
    BY <2>1, BatchFacts
  <2>3. QED
    BY <1>3, <2>1, <2>2, SavedKept DEF DataInv, MineInv
<1>4. ASSUME NEW w \in Worker, Ask(w)
      PROVE  reply[b] = reply'[b]
  BY <1>4 DEF Ask, ResolveHit, ResolveMiss, Release, Stage, CommitNotNeeded,
     Call, New, Tell, IInv, TypeOK
<1>5. ASSUME NEW w \in Worker, Step(w)
      PROVE  \/ reply[b] = reply'[b]
             \/ b \in mine[w] /\ (pc[w] = "committed" \/ NothingToCommit(w))
  BY <1>5 DEF Step, TakeLock, LockTimeout, Rebase, ReloadFails, ReadForUpdate,
     PlanDeclined, AppendPlan, WritePack, WritePackFails, UpdateRef,
     UpdateRefFails, Return, UnlockNew, Add, RemoveIssue, DropNew, GiveUp,
     NothingToCommit, Tell, IInv, TypeOK
<1>6. ASSUME NEW p \in Proc, Crash(p)
      PROVE  reply[b] = reply'[b]
  BY <1>6 DEF Crash
<1>7. CASE UNCHANGED vars
  BY <1>1, <1>7 DEF vars
<1>8. QED
  BY <1>1, <1>2, <1>3, <1>4, <1>5, <1>6, <1>7 DEF Next

\* Where a batch is staged, it stays, until it is saved or its process dies.
LEMMA StagedStep ==
  ASSUME IInv, DataInv, [Next]_vars, NEW b \in Batch, reply'[b] = "staged",
         NEW x \in live, IssueOf[x] = home[b], Range(b) \subseteq Range(staged[x])
  PROVE  \/ Saved(b)'
         \/ x \in live' /\ IssueOf[x] = home'[b] /\ Range(b) \subseteq Range(staged'[x])
<1>1. x \in Inst /\ home[b] \in Issue /\ None \notin Issue
  BY DEF IInv, TypeOK
<1>2. home'[b] = home[b]
  BY <1>1, HistoryKept
<1>3. CASE staged'[x] = staged[x] /\ x \in live'
  BY <1>2, <1>3
<1>4. ASSUME NEW w \in Worker, NEW c \in Batch, Stage(w, c) \/ AppendPlan(w, c)
      PROVE  x \in live' /\ Range(staged[x]) \subseteq Range(staged'[x])
  <2>1. cur[w] \in Inst /\ cur[w] \in live
    BY <1>4 DEF Stage, AppendPlan, IInv, CallInv, TypeOK
  <2>2. Range(staged'[cur[w]]) = Range(staged[cur[w]]) \cup Range(c)
    BY <1>4, <2>1, PlaceGrows DEF Stage, AppendPlan
  <2>3. \A y \in Inst : y # cur[w] => staged'[y] = staged[y]
    BY <1>4, <2>1 DEF Stage, AppendPlan, IInv, TypeOK
  <2>4. QED
    BY <1>1, <1>4, <2>2, <2>3 DEF Stage, AppendPlan
<1>5. ASSUME NEW w \in Worker, Ask(w), \A c \in Batch : ~Stage(w, c)
      PROVE  staged'[x] = staged[x] /\ x \in live'
  BY <1>5 DEF Ask, ResolveHit, ResolveMiss, Release, CommitNotNeeded, Call, New
<1>6. ASSUME NEW w \in Worker, UpdateRef(w)
      PROVE  Saved(b)' \/ (staged'[x] = staged[x] /\ x \in live')
  <2>1. /\ staged' = [staged EXCEPT ![cur[w]] = <<>>] /\ live' = live
        /\ pc[w] = "writing"
    BY <1>6 DEF UpdateRef
  <2>2. OpsOf(ref'[IssueAt(w)]) = OpsOf(ref[IssueAt(w)]) \cup Saving(w)
    BY <1>6, PlaceSaved
  <2>3. CASE x = cur[w]
    <3>1. call[w] # "new"
      BY <2>3 DEF IInv, CallInv
    <3>2. Range(b) \subseteq OpsOf(ref'[home'[b]])
      BY <1>2, <2>2, <2>3, <3>1 DEF Saving, IssueAt
    <3>3. QED
      BY <1>1, <1>2, <3>2 DEF Saved, Durable
  <2>4. CASE x # cur[w]
    BY <1>1, <2>1, <2>4 DEF IInv, TypeOK
  <2>5. QED
    BY <2>3, <2>4
<1>7. ASSUME NEW w \in Worker, Step(w), \A c \in Batch : ~AppendPlan(w, c), ~UpdateRef(w)
      PROVE  staged'[x] = staged[x] /\ x \in live'
  BY <1>7 DEF Step, TakeLock, LockTimeout, Rebase, Reload, NothingToCommit,
     ReloadFails, ReadForUpdate, PlanDeclined, WritePack, WritePackFails,
     UpdateRefFails, Return, UnlockNew, Add, RemoveIssue, GiveUp
<1>8. ASSUME NEW p \in Proc, Crash(p)
      PROVE  Saved(b)' \/ (staged'[x] = staged[x] /\ x \in live')
  <2>1. CASE ProcOf[x] # p
    BY <1>1, <1>8, <2>1 DEF Crash
  <2>2. CASE ProcOf[x] = p
    <3>1. Durable(b)
      BY <1>1, <1>8, <2>2 DEF Crash
    <3>2. QED
      BY <3>1, SavedKept DEF Saved
  <2>3. QED
    BY <2>1, <2>2
<1>9. CASE UNCHANGED vars
  BY <1>3, <1>9 DEF vars
<1>10. QED
  BY <1>2, <1>3, <1>4, <1>5, <1>6, <1>7, <1>8, <1>9 DEF Next

\* Until newRaw answers, the batch it builds is its own.
LEMMA BuiltStep ==
  ASSUME IInv, DataInv, [Next]_vars, NEW b \in Batch, reply'[b] = "staged",
         NEW u \in Worker, call[u] = "new", b \in mine[u]
  PROVE  Saved(b)' \/ (call'[u] = "new" /\ b \in mine'[u])
<1>1. CallInv(u) /\ (pc[u] = "committed" => Saved(b))
  BY DEF IInv, DataInv, MineInv, Building
<1>2. Saved(b) => Saved(b)'
  BY SavedKept
<1>3. ASSUME NEW w \in Worker, Ask(w)
      PROVE  call'[u] = "new" /\ b \in mine'[u]
  BY <1>1, <1>3 DEF Ask, ResolveHit, ResolveMiss, Release, Stage, CommitNotNeeded,
     Call, New, CallInv, IInv, TypeOK
<1>4. ASSUME NEW w \in Worker, Step(w), w # u
      PROVE  call'[u] = "new" /\ b \in mine'[u]
  BY <1>4 DEF Step, TakeLock, LockTimeout, Rebase, NothingToCommit,
     ReloadFails, ReadForUpdate, PlanDeclined, AppendPlan, WritePack,
     WritePackFails, UpdateRef, UpdateRefFails, Return, UnlockNew, Add,
     RemoveIssue, DropNew, GiveUp, IInv, TypeOK
<1>5. ASSUME Step(u), pc[u] # "committed"
      PROVE  call'[u] = "new" /\ b \in mine'[u]
  BY <1>1, <1>5 DEF Step, TakeLock, LockTimeout, Rebase, NothingToCommit,
     ReloadFails, ReadForUpdate, PlanDeclined, AppendPlan, WritePack,
     WritePackFails, UpdateRef, UpdateRefFails, Return, UnlockNew, Add,
     RemoveIssue, DropNew, GiveUp, Tell, CallInv, IInv, TypeOK
<1>6. ASSUME NEW p \in Proc, Crash(p)
      PROVE  Saved(b)' \/ (call'[u] = "new" /\ b \in mine'[u])
  <2>1. CASE ProcOf[u] # p
    BY <1>6, <2>1 DEF Crash
  <2>2. CASE ProcOf[u] = p
    BY <1>2, <1>6, <2>2 DEF Crash, Saved
  <2>3. QED
    BY <2>1, <2>2
<1>7. CASE UNCHANGED vars
  BY <1>7 DEF vars
<1>8. QED
  BY <1>1, <1>2, <1>3, <1>4, <1>5, <1>6, <1>7 DEF Next

\* No step makes an appended batch vanish.
LEMMA DropStep ==
  ASSUME IInv, DataInv, [Next]_vars
  PROVE  NoSilentDrop'
<1> SUFFICES ASSUME NEW b \in Batch, reply'[b] = "staged"
             PROVE  \/ Saved(b)'
                    \/ \E x \in live' : /\ IssueOf[x] = home'[b]
                                        /\ Range(b) \subseteq Range(staged'[x])
                    \/ \E w \in Worker : call'[w] = "new" /\ b \in mine'[w]
  BY DEF NoSilentDrop, Saved
<1>1. CASE reply[b] = "staged"
  <2>1. CASE Saved(b)
    BY <2>1, SavedKept
  <2>2. CASE \E x \in live : IssueOf[x] = home[b] /\ Range(b) \subseteq Range(staged[x])
    BY <2>2, StagedStep
  <2>3. CASE \E w \in Worker : call[w] = "new" /\ b \in mine[w]
    BY <2>3, BuiltStep
  <2>4. QED
    BY <1>1, <2>1, <2>2, <2>3 DEF DataInv, NoSilentDrop, Saved
<1>2. ASSUME NEW w \in Worker, Stage(w, b) \/ AppendPlan(w, b)
      PROVE  \E x \in live' : /\ IssueOf[x] = home'[b]
                              /\ Range(b) \subseteq Range(staged'[x])
  <2>1. cur[w] \in Inst /\ cur[w] \in live
    BY <1>2 DEF Stage, AppendPlan, IInv, CallInv, TypeOK
  <2>2. Range(staged'[cur[w]]) = Range(staged[cur[w]]) \cup Range(b)
    BY <1>2, <2>1, PlaceGrows DEF Stage, AppendPlan
  <2>3. live' = live /\ home'[b] = IssueOf[cur[w]]
    BY <1>2 DEF Stage, AppendPlan, IInv, TypeOK
  <2>4. QED
    BY <2>1, <2>2, <2>3
<1>3. ASSUME NEW w \in Worker, NEW x \in Inst, New(w, x, b)
      PROVE  call'[w] = "new" /\ b \in mine'[w]
  BY <1>3 DEF New, IInv, TypeOK
<1>4. ASSUME NEW w \in Worker, Ask(w), reply[b] # "staged"
      PROVE  Stage(w, b) \/ \E x \in Inst : New(w, x, b)
  <2>1. ASSUME NEW c \in Batch, Stage(w, c)
        PROVE  c = b
    BY <1>4, <2>1 DEF Stage, IInv, TypeOK
  <2>2. ASSUME NEW x \in Inst, NEW c \in Batch, New(w, x, c)
        PROVE  c = b
    BY <1>4, <2>2 DEF New, IInv, TypeOK
  <2>3. ASSUME \/ \E x \in Inst : ResolveHit(w, x) \/ ResolveMiss(w, x)
               \/ Release(w) \/ CommitNotNeeded(w) \/ \E kind \in Calls : Call(w, kind)
        PROVE  FALSE
    BY SMTT(30), <1>4, <2>3 DEF ResolveHit, ResolveMiss, Release, CommitNotNeeded, Call, Tell,
       IInv, TypeOK
  <2>4. QED
    BY <1>4, <2>1, <2>2, <2>3 DEF Ask
<1>5. ASSUME NEW w \in Worker, Step(w), reply[b] # "staged"
      PROVE  AppendPlan(w, b)
  BY ZenonT(60), <1>5 DEF Step, TakeLock, LockTimeout, Rebase, NothingToCommit,
     ReloadFails, ReadForUpdate, PlanDeclined, AppendPlan, WritePack,
     WritePackFails, UpdateRef, UpdateRefFails, Return, UnlockNew, Add,
     RemoveIssue, DropNew, Tell, IInv, TypeOK
<1>6. ASSUME NEW p \in Proc, Crash(p), reply[b] # "staged"
      PROVE  FALSE
  BY <1>6 DEF Crash
<1>7. CASE UNCHANGED vars
  BY <1>1, <1>7 DEF vars
<1>8. QED
  BY <1>1, <1>2, <1>3, <1>4, <1>5, <1>6, <1>7 DEF Next

-----------------------------------------------------------------------------
(* What a commit has written and has left to write.                        *)

\* The instance of a worker between its read and its ref is its alone, but for
\* what another thread stages before the packs are written.
LEMMA Alone ==
  ASSUME IInv, DataInv, NEW v \in Worker, NEW w \in Worker, v # w,
         pc[v] \in {"planned", "writing"}, Ask(w) \/ Step(w)
  PROVE  /\ pc'[v] = pc[v] /\ call'[v] = call[v] /\ cur'[v] = cur[v] /\ mine'[v] = mine[v]
         /\ ref' = ref
         /\ base'[cur[v]] = base[cur[v]]
         /\ \/ /\ mu'[cur[v]] = mu[cur[v]] /\ pending'[cur[v]] = pending[cur[v]]
               /\ staged'[cur[v]] = staged[cur[v]]
            \/ \E b \in Batch : Stage(w, b) /\ cur[w] = cur[v]
<1>1. /\ cur[v] \in Inst /\ lock = v
      /\ CallInv(v) /\ CallInv(w) /\ LockInv(w)
  BY DEF IInv, CallInv, LockInv
<1>2. CASE Ask(w)
  <2>1. pc'[v] = pc[v] /\ call'[v] = call[v] /\ cur'[v] = cur[v] /\ mine'[v] = mine[v]
    BY <1>2 DEF Ask, ResolveHit, ResolveMiss, Release, Stage, CommitNotNeeded,
       Call, New, IInv, TypeOK
  <2>2. ref' = ref
    BY SMTT(30), <1>2 DEF Ask, ResolveHit, ResolveMiss, Release, Stage, CommitNotNeeded,
       Call, New
  <2>3. base'[cur[v]] = base[cur[v]]
    BY SMTT(30), <1>1, <1>2 DEF Ask, ResolveHit, ResolveMiss, Release, Stage, CommitNotNeeded,
       Call, New, IInv, TypeOK
  <2>4. \/ /\ mu'[cur[v]] = mu[cur[v]] /\ pending'[cur[v]] = pending[cur[v]]
           /\ staged'[cur[v]] = staged[cur[v]]
        \/ \E b \in Batch : Stage(w, b) /\ cur[w] = cur[v]
    BY ZenonT(60), <1>1, <1>2 DEF Ask, ResolveHit, ResolveMiss, Release, Stage, CommitNotNeeded,
       Call, New, IInv, TypeOK
  <2>5. QED
    BY <2>1, <2>2, <2>3, <2>4
<1>3. CASE Step(w)
  <2>1. pc[w] \notin {"locked", "planned", "writing"}
    BY <1>1 DEF LockInv
  <2>2. pc[w] = "committed" => call[w] = "new"
    BY <1>1 DEF LockInv
  <2>3. LockTimeout(w) \/ Add(w)
    BY ZenonT(40), <1>1, <1>3, <2>1, <2>2 DEF Step, TakeLock, LockTimeout, Rebase, NothingToCommit,
       ReloadFails, ReadForUpdate, PlanDeclined, AppendPlan, WritePack,
       WritePackFails, UpdateRef, UpdateRefFails, Return, UnlockNew, Add, RemoveIssue
  <2>4. CASE LockTimeout(w) /\ call[w] = "new"
    BY <1>1, <2>4 DEF LockTimeout, DropNew, CallInv, IInv, TypeOK
  <2>5. CASE LockTimeout(w) /\ call[w] # "new"
    BY <1>1, <2>5 DEF LockTimeout, IInv, TypeOK
  <2>6. CASE Add(w)
    BY <1>1, <2>6 DEF Add, IInv, TypeOK
  <2>7. QED
    BY <2>3, <2>4, <2>5, <2>6
<1>4. QED
  BY <1>2, <1>3

\* A worker that no step touches has written what it had.
LEMMA WriteKept ==
  ASSUME NEW v \in Worker, WriteInv(v),
         pc'[v] = pc[v], call'[v] = call[v], cur'[v] = cur[v], mine'[v] = mine[v],
         ref' = ref, base'[cur[v]] = base[cur[v]], mu'[cur[v]] = mu[cur[v]],
         pending'[cur[v]] = pending[cur[v]], staged'[cur[v]] = staged[cur[v]]
  PROVE  WriteInv(v)'
<1>1. IssueAt(v)' = IssueAt(v) /\ Saving(v)' = Saving(v)
  BY DEF IssueAt, Saving
<1>2. QED
  BY <1>1 DEF WriteInv

\* Before the first pack everything is left to write, once, onto the tip.
LEMMA WriteStarts ==
  ASSUME NEW v \in Worker, CommittedOnce', IssueAt(v)' \in Issue,
         pc'[v] = "writing", mu'[cur'[v]] = v,
         base'[cur'[v]] = ref'[IssueAt(v)'],
         pending'[cur'[v]] \in Seq(Op), pending'[cur'[v]] # <<>>,
         Saving(v)' = Range(pending'[cur'[v]]),
         IsInjective(pending'[cur'[v]]),
         Range(pending'[cur'[v]]) \cap OpsOf(ref'[IssueAt(v)']) = {}
  PROVE  WriteInv(v)'
<1>1. Saving(v)' # {}
  BY RangeEmpty
<1>2. \A p, q \in base'[cur'[v]] : p # q => p.ops \cap q.ops = {}
  BY DEF CommittedOnce
<1>3. QED
  BY <1>1, <1>2 DEF WriteInv

\* One pack more: its operations leave the staging area.
LEMMA WritePackOnce ==
  ASSUME IInv, DataInv, NEW w \in Worker, WritePack(w)
  PROVE  WriteInv(w)'
<1> DEFINE x == cur[w]
           i == IssueAt(w)
<1>1. /\ CallInv(w) /\ TipInv(w) /\ NewInv(w) /\ WriteInv(w) /\ pc[w] = "writing"
      /\ x \in Inst
  BY DEF WritePack, IInv, DataInv, CallInv
<1>2. PICK n \in 1..Len(pending[x]) :
        /\ base' = [base EXCEPT ![x] =
             @ \cup {[ops |-> {pending[x][j] : j \in 1..n}, edit |-> Clock(ProcOf[w]) + 1]}]
        /\ pending' = [pending EXCEPT ![x] = SubSeq(@, n + 1, Len(@))]
  BY DEF WritePack
<1>3. /\ UNCHANGED <<ref, mu, staged, pc, call, cur, mine>>
      /\ IssueAt(w)' = i /\ Saving(w)' = Saving(w)
  BY DEF WritePack, IssueAt, Saving
<1> DEFINE ops == {pending[x][j] : j \in 1..n}
           k == [ops |-> ops, edit |-> Clock(ProcOf[w]) + 1]
           rest == SubSeq(pending[x], n + 1, Len(pending[x]))
<1>4. /\ mu[x] = w /\ Saving(w) # {}
      /\ IsInjective(pending[x])
      /\ OpsOf(base[x]) \cap Range(pending[x]) = {}
      /\ OpsOf(base[x]) \cup Range(pending[x]) = OpsOf(ref[i]) \cup Saving(w)
      /\ \A p \in base[x] \ ref[i] : p.ops \subseteq Saving(w)
      /\ \A p, q \in base[x] : p # q => p.ops \cap q.ops = {}
  BY <1>1 DEF WriteInv
<1>5. pending[x] \in Seq(Op)
  BY <1>1 DEF IInv, TypeOK
<1>6. /\ Range(pending[x]) = ops \cup Range(rest)
      /\ ops \cap Range(rest) = {}
      /\ IsInjective(rest)
  BY <1>4, <1>5, ChunkSplits
<1>7. OpsOf(base[x] \cup {k}) = OpsOf(base[x]) \cup ops
  BY OpsOfGrows
<1>8. base'[x] = base[x] \cup {k} /\ pending'[x] = rest
  BY <1>1, <1>2 DEF IInv, TypeOK
<1>9. k.ops = ops
  OBVIOUS
<1> HIDE DEF x, i, ops, k, rest
<1>10. OpsOf(ref[i]) \subseteq OpsOf(base[x])
  <2>1. ref[i] \subseteq base[x]
    BY <1>1 DEF x, i, TipInv, NewInv, Building, IssueAt
  <2>2. QED
    BY <2>1, OpsOfMonotone
<1>11. ops \subseteq Saving(w)
  BY <1>4, <1>6, <1>10
<1>12. \A p \in base'[x] \ ref[i] : p.ops \subseteq Saving(w)
  BY <1>4, <1>8, <1>9, <1>11
<1>13. \A p \in base[x] : p.ops \cap ops = {}
  <2>1. \A p \in base[x] : p.ops \subseteq OpsOf(base[x])
    BY DEF OpsOf
  <2>2. QED
    BY <1>4, <1>6, <2>1
<1>14. \A p, q \in base'[x] : p # q => p.ops \cap q.ops = {}
  BY <1>4, <1>8, <1>9, <1>13
<1>15. OpsOf(base'[x]) \cap Range(pending'[x]) = {}
  BY <1>4, <1>6, <1>7, <1>8
<1>16. OpsOf(base'[x]) \cup Range(pending'[x]) = OpsOf(ref[i]) \cup Saving(w)
  BY <1>4, <1>6, <1>7, <1>8
<1>17. cur'[w] = x /\ ref' = ref /\ mu'[x] = w /\ pc'[w] = "writing"
  BY <1>1, <1>3, <1>4 DEF x
<1>18. IsInjective(pending'[x])
  BY <1>6, <1>8
<1>19. QED
  BY <1>3, <1>4, <1>12, <1>14, <1>15, <1>16, <1>17, <1>18 DEF WriteInv

\* What a worker has written and has left to write, after any step.
LEMMA WriteStep ==
  ASSUME IInv, DataInv, [Next]_vars
  PROVE  \A v \in Worker : WriteInv(v)'
<1> SUFFICES ASSUME NEW v \in Worker, pc'[v] \in {"planned", "writing"}
             PROVE  WriteInv(v)'
  BY SMTT(30) DEF WriteInv
<1>1. /\ CallInv(v) /\ LockInv(v) /\ TipInv(v) /\ NewInv(v) /\ MineInv(v) /\ BuildInv(v)
      /\ WriteInv(v)
      /\ \A x \in Inst : IssueOf[x] \in Issue
  BY DEF IInv, DataInv
<1>2. IInv' /\ PlaceInv' /\ CommittedOnce'
  BY NextPreserves, PlaceStep, OnceStep
<1>3. ASSUME NEW w \in Worker, w # v, Ask(w) \/ Step(w)
      PROVE  WriteInv(v)'
  <2>1. pc[v] \in {"planned", "writing"}
    BY <1>3 DEF Ask, ResolveHit, ResolveMiss, Release, Stage, CommitNotNeeded,
       Call, New, Step, TakeLock, LockTimeout, Rebase, NothingToCommit, ReloadFails,
       ReadForUpdate, PlanDeclined, AppendPlan, WritePack, WritePackFails, UpdateRef,
       UpdateRefFails, Return, UnlockNew, Add, RemoveIssue, DropNew, GiveUp, IInv, TypeOK
  <2>2. /\ pc'[v] = pc[v] /\ call'[v] = call[v] /\ cur'[v] = cur[v] /\ mine'[v] = mine[v]
        /\ ref' = ref
        /\ base'[cur[v]] = base[cur[v]]
        /\ \/ /\ mu'[cur[v]] = mu[cur[v]] /\ pending'[cur[v]] = pending[cur[v]]
              /\ staged'[cur[v]] = staged[cur[v]]
           \/ \E b \in Batch : Stage(w, b) /\ cur[w] = cur[v]
    BY <1>3, <2>1, Alone
  <2>3. CASE /\ mu'[cur[v]] = mu[cur[v]] /\ pending'[cur[v]] = pending[cur[v]]
             /\ staged'[cur[v]] = staged[cur[v]]
    BY <1>1, <2>2, <2>3, WriteKept
  <2>4. ASSUME NEW b \in Batch, Stage(w, b), cur[w] = cur[v]
        PROVE  WriteInv(v)'
    <3>1. pc[v] = "planned"
      BY <1>1, <2>1, <2>4 DEF Stage, WriteInv
    <3>2. cur[v] \in Inst /\ pending[cur[v]] = staged[cur[v]]
      BY <1>1, <3>1 DEF CallInv, WriteInv
    <3>3. pending'[cur[v]] = staged'[cur[v]]
      BY <2>4, <3>2 DEF Stage, IInv, TypeOK
    <3>4. QED
      BY <2>2, <3>1, <3>3 DEF WriteInv
  <2>5. QED
    BY SMTT(30), <2>2, <2>3, <2>4
<1>4. CASE TakeLock(v)
  <2>1. /\ call[v] = "new" /\ pc[v] = "waiting" /\ pc'[v] = "writing"
        /\ UNCHANGED <<call, cur, mine, ref, base, pending, staged>>
        /\ mu'[cur[v]] = v
    BY <1>1, <1>4 DEF TakeLock, CallInv, IInv, TypeOK
  <2>2. Building(v) /\ cur[v] \in Inst
    BY <1>1, <2>1 DEF Building, CallInv
  <2>3. PICK b \in Batch : mine[v] = {b} /\ base[cur[v]] = {} /\ pending[cur[v]] = b
    BY <1>1, <2>1, <2>2 DEF BuildInv
  <2>4. Saving(v)' = Range(b) /\ IssueAt(v)' = IssueAt(v) /\ IssueAt(v) \in Issue
    BY <1>1, <2>1, <2>2, <2>3 DEF Saving, IssueAt
  <2>5. ref[IssueAt(v)] = {} /\ OpsOf({}) = {}
    BY <1>1, <2>2 DEF NewInv, OpsOf
  <2>6. b \in Seq(Op) /\ b # <<>> /\ IsInjective(b)
    OBVIOUS
  <2>7. base'[cur'[v]] = ref'[IssueAt(v)'] /\ pending'[cur'[v]] = b /\ mu'[cur'[v]] = v
    BY <2>1, <2>3, <2>4, <2>5
  <2>8. Range(b) \cap OpsOf(ref'[IssueAt(v)']) = {}
    BY <2>1, <2>4, <2>5
  <2>9. QED
    BY <1>2, <2>1, <2>4, <2>6, <2>7, <2>8, WriteStarts
<1>5. CASE Rebase(v)
  <2>1. /\ pc[v] = "locked" /\ call[v] = "commit" /\ pc'[v] = "writing"
        /\ UNCHANGED <<call, cur, ref, staged>>
        /\ cur[v] \in Inst
    BY <1>1, <1>5 DEF Rebase, CallInv, IInv, TypeOK
  <2>2. /\ mu'[cur[v]] = v /\ base'[cur[v]] = ref[IssueAt(v)]
        /\ pending'[cur[v]] = staged[cur[v]] /\ staged[cur[v]] # <<>>
    BY <1>5, <2>1 DEF Rebase, Reload, IssueAt, IInv, TypeOK
  <2>3. IssueAt(v)' = IssueAt(v) /\ IssueAt(v) \in Issue /\ Saving(v)' = Range(staged[cur[v]])
    BY <1>1, <2>1 DEF Saving, IssueAt
  <2>4. /\ staged[cur[v]] \in Seq(Op) /\ IsInjective(staged[cur[v]])
        /\ Range(staged[cur[v]]) \cap OpsOf(ref[IssueAt(v)]) = {}
    BY <2>1 DEF DataInv, PlaceInv, IssueAt, IInv, TypeOK
  <2>5. QED
    BY <1>2, <2>1, <2>2, <2>3, <2>4, WriteStarts
<1>6. CASE ReadForUpdate(v)
  <2>1. cur[v] \in Inst
    BY <1>1, <1>6 DEF ReadForUpdate, CallInv
  <2>2. pc'[v] = "planned" /\ cur' = cur /\ pending'[cur[v]] = staged'[cur[v]]
    BY <1>6, <2>1 DEF ReadForUpdate, Reload, IInv, TypeOK
  <2>3. QED
    BY <2>2 DEF WriteInv
<1>7. ASSUME NEW b \in Batch, AppendPlan(v, b)
      PROVE  WriteInv(v)'
  <2>1. /\ pc[v] = "planned" /\ pc'[v] = "writing" /\ call[v] = "update"
        /\ UNCHANGED <<call, cur, ref, base>>
        /\ cur[v] \in Inst /\ cur[v] \in live
    BY <1>1, <1>7 DEF AppendPlan, CallInv, IInv, TypeOK
  <2>2. pending[cur[v]] = staged[cur[v]] /\ base[cur[v]] = ref[IssueAt(v)]
    BY <1>1, <2>1 DEF WriteInv, TipInv
  <2>3. mu'[cur[v]] = v /\ pending'[cur[v]] = staged'[cur[v]]
    BY <1>7, <2>1, <2>2 DEF AppendPlan, IInv, TypeOK
  <2>4. Range(staged'[cur[v]]) = Range(staged[cur[v]]) \cup Range(b)
    BY <1>7, <2>1, PlaceGrows DEF AppendPlan
  <2>5. staged'[cur[v]] \in Seq(Op) /\ staged'[cur[v]] # <<>>
    <3>1. staged'[cur[v]] \in Seq(Op)
      BY <1>2, <2>1 DEF IInv, TypeOK
    <3>2. QED
      BY <2>4, <3>1, BatchFacts, RangeEmpty
  <2>6. IssueAt(v)' = IssueAt(v) /\ IssueAt(v) \in Issue /\ Saving(v)' = Range(staged'[cur[v]])
    BY <1>1, <2>1 DEF Saving, IssueAt
  <2>7. /\ IsInjective(staged'[cur[v]])
        /\ Range(staged'[cur[v]]) \cap OpsOf(ref'[IssueAt(v)]) = {}
    BY <1>2, <2>1 DEF PlaceInv, IssueAt
  <2>8. QED
    BY <1>2, <2>1, <2>2, <2>3, <2>5, <2>6, <2>7, WriteStarts
<1>8. CASE WritePack(v)
  BY <1>8, WritePackOnce
<1>9. ASSUME NEW p \in Proc, Crash(p)
      PROVE  WriteInv(v)'
  <2>1. /\ ProcOf[v] # p /\ ref' = ref
        /\ pc'[v] = pc[v] /\ call'[v] = call[v] /\ cur'[v] = cur[v] /\ mine'[v] = mine[v]
    BY <1>9 DEF Crash
  <2>2. cur[v] \in Inst /\ ProcOf[cur[v]] # p
    BY <1>1, <2>1 DEF CallInv
  <2>3. /\ base'[cur[v]] = base[cur[v]] /\ mu'[cur[v]] = mu[cur[v]]
        /\ pending'[cur[v]] = pending[cur[v]] /\ staged'[cur[v]] = staged[cur[v]]
    BY <1>9, <2>2 DEF Crash
  <2>4. QED
    BY <1>1, <2>1, <2>3, WriteKept
<1>10. CASE UNCHANGED vars
  BY <1>1, <1>10, WriteKept DEF vars
<1>11. CASE Ask(v)
  BY <1>11 DEF Ask, ResolveHit, ResolveMiss, Release, Stage, CommitNotNeeded,
     Call, New, IInv, TypeOK
<1>12. CASE Step(v)
  <2>1. \/ TakeLock(v) \/ Rebase(v) \/ ReadForUpdate(v) \/ WritePack(v)
        \/ \E b \in Batch : AppendPlan(v, b)
    BY <1>12 DEF Step, LockTimeout, NothingToCommit, ReloadFails,
       PlanDeclined, WritePackFails, UpdateRef, UpdateRefFails, Return, UnlockNew, Add,
       RemoveIssue, DropNew, GiveUp, IInv, TypeOK
  <2>2. QED
    BY <1>4, <1>5, <1>6, <1>7, <1>8, <2>1
<1>13. QED
  BY <1>3, <1>9, <1>10, <1>11, <1>12 DEF Next

\* Nothing has happened yet.
LEMMA InitData ==
  ASSUME Init
  PROVE  DataInv
<1>1. OpsOf({}) = {} /\ Range(<<>>) = {} /\ IsInjective(<<>>)
  BY DEF OpsOf, Range, IsInjective
<1>2. PlaceInv
  BY <1>1 DEF Init, PlaceInv, Whole
<1>3. \A w \in Worker : MineInv(w) /\ BuildInv(w) /\ WriteInv(w)
  BY DEF Init, MineInv, BuildInv, WriteInv, Building
<1>4. CommittedOnce /\ AckedDurable /\ NothingMeansDurable /\ NoSilentDrop
  BY DEF Init, CommittedOnce, AckedDurable, NothingMeansDurable, NoSilentDrop
<1>5. QED
  BY <1>2, <1>3, <1>4 DEF DataInv

\* Every step keeps the operations where they are to be.
LEMMA DataStep ==
  ASSUME IInv, DataInv, [Next]_vars
  PROVE  DataInv'
BY PlaceStep, MineStep, BuildStep, WriteStep, OnceStep, AnswerStep, DropStep DEF DataInv

-----------------------------------------------------------------------------
(* Lamport times.                                                          *)

\* What a process has read or written is not after its clock.
LEMMA ClockRead ==
  ASSUME IInv, TimeInv, NEW w \in Worker, pc[w] \in {"planned", "writing"}
  PROVE  \A p \in base[cur[w]] : p.edit <= Clock(ProcOf[w])
<1>1. /\ \A p \in base[cur[w]] : p.edit <= mem[ProcOf[w]]
      /\ cur[w] \in Inst /\ base[cur[w]] \subseteq Pack
      /\ ProcOf[w] \in Proc /\ mem[ProcOf[w]] \in Nat /\ file \in Nat
  BY DEF TimeInv, ClockInv, IInv, TypeOK, CallInv
<1>2. \A p \in base[cur[w]] : p.edit \in Nat
  BY <1>1 DEF Pack
<1>3. CASE mem[ProcOf[w]] # 0
  BY <1>1, <1>3 DEF Clock
<1>4. CASE mem[ProcOf[w]] = 0
  <2>1. Clock(ProcOf[w]) \in Nat
    BY <1>1 DEF Clock
  <2>2. \A p \in base[cur[w]] : p.edit = 0
    BY <1>1, <1>2, <1>4
  <2>3. QED
    BY <2>1, <2>2
<1>5. QED
  BY <1>3, <1>4

\* A clock is never set back while its process lives.
LEMMA ClockForward ==
  ASSUME IInv, [Next]_vars, NEW q \in Proc, ~Crash(q)
  PROVE  mem[q] <= mem'[q]
<1>1. mem \in [Proc -> Nat] /\ file \in Nat
  BY DEF IInv, TypeOK
<1>2. \A p \in Proc : Clock(p) \in Nat /\ mem[p] <= Clock(p)
  BY <1>1 DEF Clock
<1>3. ASSUME NEW p \in Proc, NEW t \in Nat, t >= Clock(p), mem' = [mem EXCEPT ![p] = t]
      PROVE  mem[q] <= mem'[q]
  <2>1. mem[p] <= t
    BY <1>1, <1>2, <1>3
  <2>2. QED
    BY <1>1, <1>3, <2>1
<1>4. ASSUME mem' = mem
      PROVE  mem[q] <= mem'[q]
  BY <1>1, <1>4
<1>5. ASSUME NEW p \in Proc, NEW head \in SUBSET Pack, Witness(p, head)
      PROVE  mem[q] <= mem'[q]
  <2>1. \A k \in head : k.edit \in Nat
    BY DEF Pack
  <2>2. PICK t \in {Clock(p)} \cup {k.edit : k \in head} :
          t >= Clock(p) /\ mem' = [mem EXCEPT ![p] = t]
    BY <1>5 DEF Witness, SetClock
  <2>3. t \in Nat
    BY <1>2, <2>1, <2>2
  <2>4. QED
    BY <1>3, <2>2, <2>3
<1>6. ASSUME NEW w \in Worker, Ask(w)
      PROVE  mem[q] <= mem'[q]
  <2>1. ASSUME NEW x \in Inst, ResolveMiss(w, x)
        PROVE  mem[q] <= mem'[q]
    <3>1. Witness(ProcOf[w], ref[IssueOf[x]]) /\ ref[IssueOf[x]] \in SUBSET Pack
      BY <2>1 DEF ResolveMiss, IInv, TypeOK
    <3>2. ProcOf[w] \in Proc
      OBVIOUS
    <3>3. QED
      BY <1>5, <3>1, <3>2
  <2>2. ASSUME \A x \in Inst : ~ResolveMiss(w, x)
        PROVE  mem' = mem
    BY <1>6, <2>2 DEF Ask, ResolveHit, Release, Stage, CommitNotNeeded, Call, New
  <2>3. QED
    BY <1>4, <2>1, <2>2
<1>7. ASSUME NEW w \in Worker, Step(w)
      PROVE  mem[q] <= mem'[q]
  <2>0. ProcOf[w] \in Proc /\ Clock(ProcOf[w]) + 1 \in Nat /\ Clock(ProcOf[w]) + 1 >= Clock(ProcOf[w])
    BY <1>2
  <2>1. CASE Rebase(w) \/ ReadForUpdate(w)
    <3>1. cur[w] \in Inst
      BY <2>1 DEF Rebase, ReadForUpdate, IInv, CallInv
    <3>2. Witness(ProcOf[w], ref[IssueOf[cur[w]]]) /\ ref[IssueOf[cur[w]]] \in SUBSET Pack
      BY <2>1, <3>1 DEF Rebase, ReadForUpdate, Reload, IInv, TypeOK
    <3>3. QED
      BY <1>5, <2>0, <3>2
  <2>2. CASE WritePack(w)
    BY <1>3, <2>0, <2>2 DEF WritePack, SetClock
  <2>3. CASE WritePackFails(w)
    BY <1>3, <1>4, <2>0, <2>3 DEF WritePackFails
  <2>4. ASSUME ~Rebase(w), ~ReadForUpdate(w), ~WritePack(w), ~WritePackFails(w)
        PROVE  mem' = mem
    BY <1>7, <2>4 DEF Step, TakeLock, LockTimeout, NothingToCommit,
     ReloadFails, PlanDeclined, AppendPlan, UpdateRef, UpdateRefFails, Return, UnlockNew, Add,
     RemoveIssue
  <2>5. QED
    BY <1>4, <2>1, <2>2, <2>3, <2>4
<1>8. ASSUME NEW p \in Proc, Crash(p)
      PROVE  mem[q] <= mem'[q]
  <2>1. p # q /\ mem' = [mem EXCEPT ![p] = file]
    BY <1>8 DEF Crash
  <2>2. QED
    BY <1>1, <2>1
<1>9. CASE UNCHANGED vars
  BY <1>4, <1>9 DEF vars
<1>10. QED
  BY <1>6, <1>7, <1>8, <1>9 DEF Next

\* Reading an issue again brings the clock of the process up to its packs.
LEMMA ClockWitnessed ==
  ASSUME IInv, TimeInv, NEW w \in Worker, Rebase(w) \/ ReadForUpdate(w)
  PROVE  ClockInv(w)'
<1>1. /\ pc[w] = "locked" /\ cur' = cur /\ ref' = ref
      /\ Reload(w)
      /\ cur[w] \in Inst /\ IssueAt(w) \in Issue /\ IssueAt(w)' = IssueAt(w)
  BY DEF Rebase, ReadForUpdate, IInv, CallInv, IssueAt
<1>2. base'[cur[w]] = ref[IssueAt(w)]
  BY <1>1 DEF Reload, IssueAt, IInv, TypeOK
<1>3. \A k \in ref[IssueAt(w)] : k.edit <= mem'[ProcOf[w]]
  <2>1. PICK t : (\A k \in ref[IssueAt(w)] : t >= k.edit) /\ mem' = [mem EXCEPT ![ProcOf[w]] = t]
    BY <1>1 DEF Reload, Witness, SetClock, IssueAt
  <2>2. mem'[ProcOf[w]] = t
    BY <2>1 DEF IInv, TypeOK
  <2>3. mem'[ProcOf[w]] \in Nat
    BY NextPreserves DEF IInv, TypeOK, Next, Step
  <2>4. \A k \in ref[IssueAt(w)] : k.edit \in Nat
    BY <1>1 DEF IInv, TypeOK, Pack
  <2>5. QED
    BY <2>1, <2>2, <2>3, <2>4
<1>4. TimesDiffer(ref[IssueAt(w)])
  BY <1>1 DEF TimeInv
<1>5. TimesFollow(ref[IssueAt(w)], ref[IssueAt(w)])
  BY DEF TimesFollow
<1>6. QED
  BY <1>1, <1>2, <1>3, <1>4, <1>5 DEF ClockInv

\* A new pack is later than all that its process has read and written.
LEMMA ClockTicks ==
  ASSUME IInv, TimeInv, NEW w \in Worker, WritePack(w)
  PROVE  ClockInv(w)'
<1> DEFINE x == cur[w]
           t == Clock(ProcOf[w]) + 1
<1>1. /\ pc[w] = "writing" /\ UNCHANGED <<cur, ref>>
      /\ x \in Inst /\ ProcOf[w] \in Proc /\ IssueAt(w)' = IssueAt(w)
      /\ ClockInv(w)
  BY DEF WritePack, IInv, CallInv, TimeInv, IssueAt
<1>2. Clock(ProcOf[w]) \in Nat /\ base[x] \subseteq Pack
  BY <1>1, ClockType DEF IInv, TypeOK
<1>3. mem'[ProcOf[w]] = t
  BY <1>1 DEF WritePack, SetClock, IInv, TypeOK
<1>4. PICK n \in 1..Len(pending[x]) :
        base' = [base EXCEPT ![x] = @ \cup {[ops |-> {pending[x][j] : j \in 1..n}, edit |-> t]}]
  BY DEF WritePack
<1> DEFINE k == [ops |-> {pending[x][j] : j \in 1..n}, edit |-> t]
<1>5. base'[x] = base[x] \cup {k}
  BY <1>1, <1>4 DEF IInv, TypeOK
<1>6. k.edit = t
  OBVIOUS
<1>7. \A p \in base[x] : p.edit \in Nat /\ p.edit <= Clock(ProcOf[w])
  BY <1>1, <1>2, ClockRead DEF Pack
<1>8. t \in Nat /\ \A p \in base[x] : p.edit < t /\ p.edit <= t /\ p.edit # t
  BY <1>2, <1>7
<1>9. ref[IssueAt(w)] \subseteq base[x]
  BY <1>1 DEF IInv, TipInv, NewInv, Building, IssueAt
<1>10. TimesDiffer(base[x]) /\ TimesFollow(base[x], ref[IssueAt(w)])
  BY <1>1 DEF ClockInv
<1> HIDE DEF x, t, k
<1>11. \A p \in base'[x] : p.edit <= mem'[ProcOf[w]]
  BY <1>3, <1>5, <1>6, <1>8
<1>12. TimesDiffer(base'[x])
  BY <1>5, <1>6, <1>8, <1>10 DEF TimesDiffer
<1>13. TimesFollow(base'[x], ref[IssueAt(w)])
  BY <1>5, <1>6, <1>8, <1>9, <1>10 DEF TimesFollow
<1>14. QED
  BY <1>1, <1>11, <1>12, <1>13 DEF ClockInv, x

\* Times follow the history after any step.
LEMMA TimeStep ==
  ASSUME IInv, DataInv, TimeInv, [Next]_vars
  PROVE  TimeInv'
<1>1. ASSUME NEW i \in Issue
      PROVE  TimesDiffer(ref'[i])
  <2>1. CASE ref' = ref
    BY <2>1 DEF TimeInv
  <2>2. ASSUME NEW w \in Worker, UpdateRef(w)
        PROVE  TimesDiffer(ref'[i])
    <3>1. pc[w] = "writing" /\ ref' = [ref EXCEPT ![IssueAt(w)] = base[cur[w]]]
      BY <2>2 DEF UpdateRef, IssueAt
    <3>2. TimesDiffer(base[cur[w]]) /\ TimesDiffer(ref[i])
      BY <3>1 DEF TimeInv, ClockInv
    <3>3. ref'[i] = ref[i] \/ ref'[i] = base[cur[w]]
      BY <3>1 DEF IInv, TypeOK
    <3>4. QED
      BY <3>2, <3>3
  <2>3. ASSUME NEW w \in Worker, RemoveIssue(w)
        PROVE  TimesDiffer(ref'[i])
    <3>1. ref'[i] = ref[i] \/ ref'[i] = {}
      BY <2>3 DEF RemoveIssue, IInv, TypeOK
    <3>2. QED
      BY <3>1 DEF TimeInv, TimesDiffer
  <2>4. QED
    BY <2>1, <2>2, <2>3, RefMoves
<1>2. ASSUME NEW v \in Worker, pc'[v] \in {"planned", "writing"}
      PROVE  ClockInv(v)'
  <2>1. /\ CallInv(v) /\ ClockInv(v) /\ ProcOf[v] \in Proc
        /\ mem \in [Proc -> Nat] /\ mem' \in [Proc -> Nat]
    BY NextPreserves DEF IInv, TimeInv, TypeOK
  <2>2. ASSUME /\ pc[v] \in {"planned", "writing"} /\ cur'[v] = cur[v] /\ ref' = ref
               /\ base'[cur[v]] = base[cur[v]] /\ mem[ProcOf[v]] <= mem'[ProcOf[v]]
        PROVE  ClockInv(v)'
    <3>1. \A p \in base[cur[v]] : p.edit \in Nat
      BY <2>1, <2>2 DEF CallInv, IInv, TypeOK, Pack
    <3>2. \A p \in base[cur[v]] : p.edit <= mem'[ProcOf[v]]
      BY <2>1, <2>2, <3>1 DEF ClockInv
    <3>3. IssueAt(v)' = IssueAt(v)
      BY <2>2 DEF IssueAt
    <3>4. QED
      BY <2>1, <2>2, <3>2, <3>3 DEF ClockInv
  <2>3. ASSUME NEW w \in Worker, w # v, Ask(w) \/ Step(w)
        PROVE  ClockInv(v)'
    <3>1. pc[v] \in {"planned", "writing"}
      BY <1>2, <2>3 DEF Ask, ResolveHit, ResolveMiss, Release, Stage, CommitNotNeeded,
         Call, New, Step, TakeLock, LockTimeout, Rebase, NothingToCommit, ReloadFails,
         ReadForUpdate, PlanDeclined, AppendPlan, WritePack, WritePackFails, UpdateRef,
         UpdateRefFails, Return, UnlockNew, Add, RemoveIssue, DropNew, GiveUp, IInv, TypeOK
    <3>2. cur'[v] = cur[v] /\ ref' = ref /\ base'[cur[v]] = base[cur[v]]
      BY <2>3, <3>1, Alone
    <3>3. CASE Crash(ProcOf[v])
      BY <1>2, <2>1, <3>3 DEF Crash
    <3>4. CASE ~Crash(ProcOf[v])
      BY <2>1, <2>2, <3>1, <3>2, <3>4, ClockForward
    <3>5. QED
      BY SMTT(30), <3>3, <3>4
  <2>4. CASE TakeLock(v)
    <3>1. /\ call[v] = "new" /\ pc[v] = "waiting" /\ UNCHANGED <<cur, base>>
      BY <1>2, <2>1, <2>4 DEF TakeLock, CallInv, IInv, TypeOK
    <3>2. base[cur[v]] = {}
      BY <3>1 DEF DataInv, BuildInv, Building
    <3>3. base'[cur'[v]] = {}
      BY <3>1, <3>2
    <3>4. QED
      BY <3>3 DEF ClockInv, TimesDiffer, TimesFollow
  <2>5. ASSUME NEW b \in Batch, AppendPlan(v, b)
        PROVE  ClockInv(v)'
    BY <2>1, <2>2, <2>5 DEF AppendPlan
  <2>6. CASE Step(v)
    <3>1. \/ TakeLock(v) \/ Rebase(v) \/ ReadForUpdate(v) \/ WritePack(v)
          \/ \E b \in Batch : AppendPlan(v, b)
      BY <1>2, <2>6 DEF Step, LockTimeout, NothingToCommit, ReloadFails,
         PlanDeclined, WritePackFails, UpdateRef, UpdateRefFails, Return, UnlockNew, Add,
         RemoveIssue, DropNew, GiveUp, IInv, TypeOK
    <3>2. QED
      BY <2>4, <2>5, <3>1, ClockWitnessed, ClockTicks
  <2>7. CASE Ask(v)
    BY <1>2, <2>7 DEF Ask, ResolveHit, ResolveMiss, Release, Stage, CommitNotNeeded,
       Call, New, IInv, TypeOK
  <2>8. ASSUME NEW p \in Proc, Crash(p)
        PROVE  ClockInv(v)'
    <3>1. ProcOf[v] # p /\ ref' = ref /\ pc'[v] = pc[v] /\ cur'[v] = cur[v]
      BY <1>2, <2>8 DEF Crash
    <3>2. cur[v] \in Inst /\ ProcOf[cur[v]] # p
      BY <1>2, <2>1, <3>1 DEF CallInv
    <3>3. base'[cur[v]] = base[cur[v]] /\ mem'[ProcOf[v]] = mem[ProcOf[v]]
      BY <2>1, <2>8, <3>1, <3>2 DEF Crash
    <3>4. QED
      BY <1>2, <2>1, <2>2, <3>1, <3>3
  <2>9. CASE UNCHANGED vars
    <3>1. UNCHANGED <<pc, cur, base, ref, mem>>
      BY <2>9 DEF vars
    <3>2. QED
      BY <1>2, <2>1, <2>2, <3>1
  <2>10. QED
    BY <2>3, <2>6, <2>7, <2>8, <2>9 DEF Next
<1>3. QED
  BY <1>1, <1>2 DEF TimeInv, ClockInv

-----------------------------------------------------------------------------
(* The theorems.                                                           *)

\* The whole invariant holds in every state of every behaviour: who is where
\* in a call, where each operation is, and which time each pack carries.
THEOREM WholeInvariance == Spec => []StoreInvariant
<1>1. Init => StoreInvariant
  <2>1. Init => TimeInv
    BY DEF Init, TimeInv, TimesDiffer, ClockInv
  <2>2. QED
    BY <2>1, InitInv, InitData DEF StoreInvariant
<1>2. StoreInvariant /\ [Next]_vars => StoreInvariant'
  BY NextPreserves, DataStep, TimeStep DEF StoreInvariant
<1>3. QED
  BY <1>1, <1>2, PTL DEF Spec

\* Nothing is committed to the issue between the snapshot that Update decides
\* on and the commit of what it decided, although its schema check runs with
\* the instance's mutex let go (CachedEntityBase.update).
THEOREM UpdateDecidedOnTip == Spec => []DecidedOnTip
<1>1. StoreInvariant => DecidedOnTip
  <2> SUFFICES ASSUME StoreInvariant, NEW w \in Worker,
                      pc[w] \in {"planned", "writing"}, call[w] = "update"
               PROVE  /\ ref[IssueOf[cur[w]]] \subseteq base[cur[w]]
                      /\ \A p \in base[cur[w]] \ ref[IssueOf[cur[w]]] :
                           p.ops \subseteq Range(staged[cur[w]])
    BY DEF DecidedOnTip
  <2>1. TipInv(w) /\ WriteInv(w)
    BY DEF StoreInvariant, IInv, DataInv
  <2>2. QED
    BY <2>1 DEF TipInv, WriteInv, Saving, IssueAt
<1>2. QED
  BY <1>1, WholeInvariance, PTL

\* Replaying what is staged never commits an operation twice: the packs of an
\* issue share none (CachedEntityBase.rebaseStaged, Entity.Validate).
THEOREM NothingTwice == Spec => []CommittedOnce
<1>1. StoreInvariant => CommittedOnce
  BY DEF StoreInvariant, DataInv
<1>2. QED
  BY <1>1, WholeInvariance, PTL

\* A reader never sees half of what one call appended, although a commit may
\* write a pack per author (dag.Entity.Commit moves the ref once, at the end).
THEOREM BatchesWhole == Spec => []WholeBatches
<1>1. StoreInvariant => WholeBatches
  <2> SUFFICES ASSUME StoreInvariant, NEW b \in Batch, NEW i \in Issue
               PROVE  Range(b) \cap OpsOf(ref[i]) = {} \/ Range(b) \subseteq OpsOf(ref[i])
    BY DEF WholeBatches
  <2>1. Whole(OpsOf(ref[i]), i)
    BY DEF StoreInvariant, DataInv, PlaceInv
  <2>2. QED
    BY <2>1, WholeMeets
<1>2. QED
  BY <1>1, WholeInvariance, PTL

\* What Commit, Update or New said it saved can be read back until its issue
\* is removed, whatever writers, failed writes and crashes come after.
THEOREM AnswersTrue == Spec => []AckedDurable
<1>1. StoreInvariant => AckedDurable
  BY DEF StoreInvariant, DataInv
<1>2. QED
  BY <1>1, WholeInvariance, PTL

\* A Commit that answers "no pending operation" has lost nothing: another
\* thread that shares its instance has saved its operations.
THEOREM NothingLost == Spec => []NothingMeansDurable
<1>1. StoreInvariant => NothingMeansDurable
  BY DEF StoreInvariant, DataInv
<1>2. QED
  BY <1>1, WholeInvariance, PTL

\* Failed commits, reloads and other writers never make an appended batch
\* vanish: until its process dies it is in its issue or still staged.
THEOREM NothingDropped == Spec => []NoSilentDrop
<1>1. StoreInvariant => NoSilentDrop
  BY DEF StoreInvariant, DataInv
<1>2. QED
  BY <1>1, WholeInvariance, PTL

\* What a fast-forward adds is later than all it adds to, and no two packs of
\* an issue share a time, although each process has a clock of its own: so
\* readAt never refuses an issue that this store wrote.
THEOREM TimesInOrder == Spec => EditOrder
<1>1. StoreInvariant => \A i \in Issue : \A p, q \in ref[i] : p # q => p.edit # q.edit
  BY DEF StoreInvariant, TimeInv, TimesDiffer
<1>2. StoreInvariant /\ [Next]_vars =>
        [\A i \in Issue : \A p \in ref'[i] \ ref[i], q \in ref[i] : q.edit < p.edit]_vars
  <2> SUFFICES ASSUME StoreInvariant, [Next]_vars, NEW i \in Issue,
                      NEW p \in ref'[i] \ ref[i], NEW q \in ref[i]
               PROVE  q.edit < p.edit
    OBVIOUS
  <2>1. ref' # ref
    OBVIOUS
  <2>2. ASSUME NEW w \in Worker, UpdateRef(w)
        PROVE  q.edit < p.edit
    <3>1. pc[w] = "writing" /\ ref' = [ref EXCEPT ![IssueAt(w)] = base[cur[w]]]
      BY <2>2 DEF UpdateRef, IssueAt
    <3>2. i = IssueAt(w) /\ p \in base[cur[w]]
      BY <3>1 DEF StoreInvariant, IInv, TypeOK
    <3>3. TimesFollow(base[cur[w]], ref[IssueAt(w)])
      BY <3>1 DEF StoreInvariant, TimeInv, ClockInv
    <3>4. QED
      BY <3>2, <3>3 DEF TimesFollow
  <2>3. ASSUME NEW w \in Worker, RemoveIssue(w)
        PROVE  FALSE
    BY <2>3 DEF RemoveIssue, StoreInvariant, IInv, TypeOK
  <2>4. QED
    BY <2>1, <2>2, <2>3, RefMoves
<1>3. QED
  BY <1>1, <1>2, WholeInvariance, PTL DEF Spec, EditOrder

-----------------------------------------------------------------------------
(* The refinement of OpLog.                                                *)

\* The batches whose writers were told they are saved.
Told == {b \in Batch : reply[b] = "acked"}

\* Only Return and Add tell anybody so, and they tell it of batches that are
\* saved; nobody is told the contrary later.
LEMMA ToldStep ==
  ASSUME IInv, DataInv, [Next]_vars
  PROVE  \/ Told' = Told
         \/ /\ UNCHANGED <<ref, removed>>
            /\ \E w \in Worker : pc[w] = "committed" /\ Told' = Told \cup mine[w]
<1>1. \A w \in Worker : \A b \in mine[w] : b \in Batch /\ reply[b] # "acked"
  BY DEF DataInv, MineInv, IInv, TypeOK
<1>2. \A b \in Batch : home[b] = None => reply[b] # "acked"
  BY DEF DataInv, AckedDurable, Durable, IInv, TypeOK
<1>3. ASSUME NEW b \in Batch, home[b] = None, reply' = [reply EXCEPT ![b] = "staged"]
      PROVE  Told' = Told
  <2>1. \A c \in Batch : reply'[c] = "acked" <=> reply[c] = "acked"
    BY <1>2, <1>3 DEF IInv, TypeOK
  <2>2. QED
    BY <2>1 DEF Told
<1>4. ASSUME NEW w \in Worker, NEW what, what # "acked", Tell(w, what)
      PROVE  Told' = Told
  <2>1. \A c \in Batch : reply'[c] = "acked" <=> reply[c] = "acked"
    BY <1>1, <1>4 DEF Tell
  <2>2. QED
    BY <2>1 DEF Told
<1>5. ASSUME reply' = reply
      PROVE  Told' = Told
  BY <1>5 DEF Told
<1>6. ASSUME NEW w \in Worker, Tell(w, "acked")
      PROVE  Told' = Told \cup mine[w]
  <2>1. \A c \in Batch : reply'[c] = "acked" <=> reply[c] = "acked" \/ c \in mine[w]
    BY <1>6 DEF Tell
  <2>2. QED
    BY <1>1, <2>1 DEF Told
<1>7. ASSUME NEW w \in Worker, Ask(w)
      PROVE  Told' = Told
  <2>1. ASSUME NEW b \in Batch, Stage(w, b)
        PROVE  Told' = Told
    BY <1>3, <2>1 DEF Stage
  <2>2. ASSUME NEW x \in Inst, NEW b \in Batch, New(w, x, b)
        PROVE  Told' = Told
    BY <1>3, <2>2 DEF New
  <2>3. CASE CommitNotNeeded(w)
    BY <1>4, <2>3 DEF CommitNotNeeded
  <2>4. CASE \/ \E x \in Inst : ResolveHit(w, x) \/ ResolveMiss(w, x)
             \/ Release(w) \/ \E kind \in Calls : Call(w, kind)
    BY <1>5, <2>4 DEF ResolveHit, ResolveMiss, Release, Call
  <2>5. QED
    BY <1>7, <2>1, <2>2, <2>3, <2>4 DEF Ask
<1>8. ASSUME NEW w \in Worker, Step(w)
      PROVE  \/ Told' = Told
             \/ /\ UNCHANGED <<ref, removed>>
                /\ pc[w] = "committed" /\ Told' = Told \cup mine[w]
  <2>1. ASSUME NEW b \in Batch, AppendPlan(w, b)
        PROVE  Told' = Told
    BY <1>3, <2>1 DEF AppendPlan
  <2>2. CASE LockTimeout(w) \/ NothingToCommit(w) \/ WritePackFails(w) \/ UpdateRefFails(w)
    BY <1>4, <1>5, <2>2 DEF LockTimeout, NothingToCommit, WritePackFails,
       UpdateRefFails, DropNew
  <2>3. CASE Return(w) \/ Add(w)
    BY <1>5, <1>6, <2>3 DEF Return, Add
  <2>4. CASE \/ TakeLock(w) \/ Rebase(w) \/ ReloadFails(w) \/ ReadForUpdate(w)
             \/ PlanDeclined(w) \/ WritePack(w) \/ UpdateRef(w) \/ UnlockNew(w)
             \/ RemoveIssue(w)
    BY <1>5, <2>4 DEF TakeLock, Rebase, ReloadFails, ReadForUpdate, PlanDeclined,
       WritePack, UpdateRef, UnlockNew, RemoveIssue
  <2>5. QED
    BY <1>8, <2>1, <2>2, <2>3, <2>4 DEF Step
<1>9. ASSUME NEW p \in Proc, Crash(p)
      PROVE  Told' = Told
  <2>1. \A c \in Batch : reply'[c] = "acked" <=> reply[c] = "acked"
    BY <1>9 DEF Crash
  <2>2. QED
    BY <2>1 DEF Told
<1>10. CASE UNCHANGED vars
  BY <1>5, <1>10 DEF vars
<1>11. QED
  BY <1>7, <1>8, <1>9, <1>10 DEF Next

\* What the log of an issue is.
Logs == [i \in Issue |-> OpsOf(ref[i])]

\* A ref that moves forward is a save of the whole batches that were staged on
\* the instance, or that newRaw built.
LEMMA SaveStep ==
  ASSUME IInv, DataInv, [Next]_vars, NEW w \in Worker, UpdateRef(w)
  PROVE  \E i \in Issue : \E bs \in SUBSET Batch :
           /\ i \notin removed /\ bs # {}
           /\ \A j \in Issue : (UNION {Range(b) : b \in bs}) \cap OpsOf(ref[j]) = {}
           /\ Logs' = [Logs EXCEPT ![i] = @ \cup (UNION {Range(b) : b \in bs})]
           /\ UNCHANGED <<removed, reply>>
<1> DEFINE i == IssueAt(w)
           bs == {b \in Batch : home[b] = i /\ Range(b) \subseteq Saving(w)}
<1>1. /\ pc[w] = "writing" /\ UNCHANGED <<removed, reply>>
      /\ TipInv(w) /\ NewInv(w) /\ WriteInv(w) /\ RemovedForGood
  BY DEF UpdateRef, IInv, DataInv
<1>2. /\ i \in Issue /\ Whole(Saving(w), i)
      /\ \A j \in Issue : Saving(w) \cap OpsOf(ref[j]) = {}
  BY <1>1, SavingFacts
<1>3. /\ OpsOf(ref'[i]) = OpsOf(ref[i]) \cup Saving(w)
      /\ \A j \in Issue : j # i => ref'[j] = ref[j]
  BY PlaceSaved
<1>4. Saving(w) # {}
  BY <1>1 DEF WriteInv
<1>5. i \notin removed
  BY <1>1, <1>2 DEF TipInv, NewInv, Building, RemovedForGood, IssueAt
<1>6. UNION {Range(b) : b \in bs} = Saving(w)
  <2>1. ASSUME NEW o \in Saving(w)
        PROVE  \E b \in bs : o \in Range(b)
    BY <1>2, <2>1 DEF Whole
  <2>2. QED
    BY <2>1
<1>7. bs # {}
  BY <1>4, <1>6
<1> HIDE DEF i, bs
<1>8. Logs' = [Logs EXCEPT ![i] = @ \cup Saving(w)]
  BY <1>2, <1>3 DEF Logs
<1>9. bs \in SUBSET Batch
  BY DEF bs
<1>10. QED
  <2>1. /\ i \notin removed /\ bs # {}
        /\ \A j \in Issue : (UNION {Range(b) : b \in bs}) \cap OpsOf(ref[j]) = {}
        /\ Logs' = [Logs EXCEPT ![i] = @ \cup (UNION {Range(b) : b \in bs})]
        /\ UNCHANGED <<removed, reply>>
    BY <1>1, <1>2, <1>5, <1>6, <1>7, <1>8
  <2>2. QED
    BY <1>2, <1>9, <2>1

\* Every step of the store is a step of the log or one that readers cannot see.
LEMMA LogStep ==
  ASSUME StoreInvariant, [Next]_vars
  PROVE  [Log!Next]_(Log!logVars)
<1> USE DEF StoreInvariant
<1>0. \A b \in Batch : Log!Range(b) = Range(b)
  BY DEF Log!Range, Range
<1>1. ASSUME NEW w \in Worker, UpdateRef(w)
      PROVE  Log!Next
  <2>1. PICK i \in Issue, bs \in SUBSET Batch :
           /\ i \notin removed /\ bs # {}
           /\ \A j \in Issue : (UNION {Range(b) : b \in bs}) \cap OpsOf(ref[j]) = {}
           /\ Logs' = [Logs EXCEPT ![i] = @ \cup (UNION {Range(b) : b \in bs})]
           /\ UNCHANGED <<removed, reply>>
    BY <1>1, SaveStep
  <2>2. {Log!Range(b) : b \in bs} = {Range(b) : b \in bs}
    BY <1>0
  <2>3. UNCHANGED <<removed, {b \in Batch : reply[b] = "acked"}>>
    BY <2>1
  <2>4. \A j \in Issue : Logs[j] = OpsOf(ref[j])
    BY DEF Logs
  <2>5. \A j \in Issue : (UNION {Log!Range(b) : b \in bs}) \cap Logs[j] = {}
    BY <2>1, <2>2, <2>4
  <2>6. Logs' = [Logs EXCEPT ![i] = @ \cup (UNION {Log!Range(b) : b \in bs})]
    BY <2>1, <2>2
  <2>7. Log!Save(i, bs)
    BY <2>1, <2>3, <2>5, <2>6 DEF Log!Save, Logs
  <2>8. QED
    BY <2>7 DEF Log!Next
<1>2. ASSUME NEW w \in Worker, RemoveIssue(w)
      PROVE  Log!Next
  <2>1. /\ IssueAt(w) \in Issue
        /\ ref' = [ref EXCEPT ![IssueAt(w)] = {}]
        /\ removed' = removed \cup {IssueAt(w)} /\ reply' = reply
    BY <1>2 DEF RemoveIssue, IssueAt, IInv, CallInv
  <2>2. OpsOf({}) = {}
    BY DEF OpsOf
  <2>3. Logs' = [Logs EXCEPT ![IssueAt(w)] = {}]
    BY <2>1, <2>2 DEF Logs, IInv, TypeOK
  <2>4. Log!Remove(IssueAt(w))
    BY <2>1, <2>3 DEF Log!Remove, Logs
  <2>5. QED
    BY <2>1, <2>4 DEF Log!Next
<1>3. ASSUME UNCHANGED <<ref, removed>>, Told' = Told
      PROVE  UNCHANGED Log!logVars
  BY <1>3 DEF Log!logVars, Told
<1>4. ASSUME UNCHANGED <<ref, removed>>, NEW w \in Worker, pc[w] = "committed",
             Told' = Told \cup mine[w]
      PROVE  [Log!Next]_(Log!logVars)
  <2>1. CASE mine[w] = {}
    BY <1>3, <1>4, <2>1
  <2>2. CASE mine[w] # {}
    <3>1. mine[w] \in SUBSET Batch
      BY DEF IInv, TypeOK
    <3>2. ASSUME removed = {}, NEW b \in mine[w]
          PROVE  \E i \in Issue : Range(b) \subseteq OpsOf(ref[i])
      <4>1. Saved(b)
        BY <1>4, <3>2 DEF DataInv, MineInv, Building
      <4>2. QED
        BY <3>1, <3>2, <4>1 DEF Saved, Durable, IInv, TypeOK
    <3>3. PICK bs \in SUBSET Batch : bs = mine[w]
      BY <3>1
    <3>4. Log!Tell(bs)
      BY <1>0, <1>4, <2>2, <3>2, <3>3 DEF Log!Tell, Told
    <3>5. Log!Next
      BY <3>4 DEF Log!Next
    <3>6. QED
      BY <3>5
  <2>3. QED
    BY <2>1, <2>2
<1>5. CASE UNCHANGED <<ref, removed>>
  BY <1>3, <1>4, <1>5, ToldStep
<1>6. ASSUME ~(UNCHANGED <<ref, removed>>)
      PROVE  \E w \in Worker : UpdateRef(w) \/ RemoveIssue(w)
  <2>1. ASSUME NEW w \in Worker, Ask(w)
        PROVE  UNCHANGED <<ref, removed>>
    BY <2>1 DEF Ask, ResolveHit, ResolveMiss, Release, Stage, CommitNotNeeded,
       Call, New
  <2>2. ASSUME NEW w \in Worker, Step(w), ~UpdateRef(w), ~RemoveIssue(w)
        PROVE  UNCHANGED <<ref, removed>>
    BY <2>2 DEF Step, TakeLock, LockTimeout, Rebase, NothingToCommit,
       ReloadFails, ReadForUpdate, PlanDeclined, AppendPlan, WritePack,
       WritePackFails, UpdateRefFails, Return, UnlockNew, Add
  <2>3. ASSUME NEW p \in Proc, Crash(p)
        PROVE  UNCHANGED <<ref, removed>>
    BY <2>3 DEF Crash
  <2>4. ASSUME UNCHANGED vars
        PROVE  UNCHANGED <<ref, removed>>
    BY <2>4 DEF vars
  <2>5. QED
    BY <1>6, <2>1, <2>2, <2>3, <2>4 DEF Next
<1>7. QED
  BY <1>1, <1>2, <1>5, <1>6

\* The store implements the log: appends, reloads, packs, failures, crashes and
\* threads that get in between are invisible to readers, who see whole batches
\* appear at once and issues removed.
THEOREM StoreImplementsLog == Spec => ImplementsLog
<1>1. Init => Log!Init
  <2>1. OpsOf({}) = {}
    BY DEF OpsOf
  <2>2. QED
    BY <2>1 DEF Init, Log!Init
<1>2. StoreInvariant /\ [Next]_vars => [Log!Next]_(Log!logVars)
  BY LogStep
<1>3. QED
  BY <1>1, <1>2, WholeInvariance, PTL DEF Spec, ImplementsLog, Log!Spec

=============================================================================
