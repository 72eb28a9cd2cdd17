-------------------------- MODULE IdentitiesProofs --------------------------
(***************************************************************************)
(* Proofs about Identities, for any number of clones, processes,           *)
(* identities and accounts, whatever runs together in a clone: an identity *)
(* that a sync makes is never split, nor is the runner of one process, and *)
(* a version is dropped only by a tag on an identity that several write.   *)
(***************************************************************************)
EXTENDS IdentitiesInv, TLAPS

USE IdentitiesAssumption

\* What it is to be a prefix, item by item.
LEMMA PrefixItems ==
  ASSUME NEW V, NEW s \in Seq(V), NEW t \in Seq(V)
  PROVE  IsPrefix(s, t) <=> Len(s) <= Len(t) /\ \A k \in 1..Len(s) : s[k] = t[k]
<1>1. Len(s) \in Nat /\ Len(t) \in Nat
  OBVIOUS
<1>2. SubSeq(s, 1, Len(s)) \in Seq(V) /\ Len(SubSeq(s, 1, Len(s))) = Len(s)
      /\ \A k \in 1..Len(s) : SubSeq(s, 1, Len(s))[k] = s[k]
  OBVIOUS
<1>3. ASSUME Len(s) <= Len(t)
      PROVE  /\ SubSeq(t, 1, Len(s)) \in Seq(V) /\ Len(SubSeq(t, 1, Len(s))) = Len(s)
             /\ \A k \in 1..Len(s) : SubSeq(t, 1, Len(s))[k] = t[k]
  BY <1>1, <1>3
<1>4. ASSUME Len(s) <= Len(t), \A k \in 1..Len(s) : s[k] = t[k]
      PROVE  SubSeq(s, 1, Len(s)) = SubSeq(t, 1, Len(s))
  BY <1>1, <1>2, <1>3, <1>4
<1>5. ASSUME Len(s) <= Len(t), SubSeq(s, 1, Len(s)) = SubSeq(t, 1, Len(s)), NEW k \in 1..Len(s)
      PROVE  s[k] = t[k]
  BY <1>2, <1>3, <1>5
<1>6. QED
  BY <1>4, <1>5 DEF IsPrefix

\* Prefixes are a partial order with a least element.
LEMMA PrefixOrder ==
  ASSUME NEW V, NEW s \in Seq(V), NEW t \in Seq(V), NEW u \in Seq(V)
  PROVE  /\ IsPrefix(s, s)
         /\ IsPrefix(<<>>, s)
         /\ IsPrefix(s, t) /\ IsPrefix(t, s) => s = t
         /\ IsPrefix(s, t) /\ IsPrefix(t, u) => IsPrefix(s, u)
         /\ IsPrefix(s, t) /\ s # <<>> => t # <<>>
         /\ IsPrefix(s, t) /\ s # t => t # <<>>
<1>1. IsPrefix(s, s)
  BY PrefixItems
<1>2. IsPrefix(<<>>, s)
  <2>1. ASSUME NEW e \in Seq(V), Len(e) = 0
        PROVE  IsPrefix(e, s)
    <3>1. Len(e) <= Len(s) /\ \A k \in 1..Len(e) : e[k] = s[k]
      BY <2>1
    <3>2. QED
      BY <3>1, PrefixItems
  <2>2. <<>> \in Seq(V) /\ Len(<<>>) = 0
    OBVIOUS
  <2>3. QED
    BY <2>1, <2>2
<1>3. ASSUME IsPrefix(s, t), IsPrefix(t, s)
      PROVE  s = t
  <2>1. Len(s) = Len(t) /\ \A k \in 1..Len(s) : s[k] = t[k]
    BY <1>3, PrefixItems
  <2>2. QED
    BY <2>1
<1>4. ASSUME IsPrefix(s, t), IsPrefix(t, u)
      PROVE  IsPrefix(s, u)
  <2>1. Len(s) <= Len(t) /\ Len(t) <= Len(u)
        /\ (\A k \in 1..Len(s) : s[k] = t[k]) /\ \A k \in 1..Len(t) : t[k] = u[k]
    BY <1>4, PrefixItems
  <2>2. Len(s) <= Len(u) /\ \A k \in 1..Len(s) : s[k] = u[k]
    BY <2>1
  <2>3. QED
    BY <2>2, PrefixItems
<1>5. ASSUME IsPrefix(s, t), s # <<>>
      PROVE  t # <<>>
  BY <1>5, PrefixItems
<1>6. ASSUME IsPrefix(s, t), s # t
      PROVE  t # <<>>
  BY <1>5, <1>6
<1>7. QED
  BY <1>1, <1>2, <1>3, <1>4, <1>5, <1>6

\* Its transitivity alone.
LEMMA PrefixThrough ==
  ASSUME NEW V, NEW s \in Seq(V), NEW t \in Seq(V), NEW u \in Seq(V), IsPrefix(s, t), IsPrefix(t, u)
  PROVE  IsPrefix(s, u)
  BY PrefixOrder

\* A version on top of a line leaves the line a prefix.
LEMMA OnTop ==
  ASSUME NEW V, NEW s \in Seq(V), NEW v \in V
  PROVE  Append(s, v) \in Seq(V) /\ IsPrefix(s, Append(s, v)) /\ Append(s, v) # <<>>
<1>1. Append(s, v) \in Seq(V) /\ Len(Append(s, v)) = Len(s) + 1 /\ \A k \in 1..Len(s) : Append(s, v)[k] = s[k]
  OBVIOUS
<1>2. Append(s, v) # <<>>
  BY <1>1
<1>3. PICK t \in Seq(V) : t = Append(s, v)
  BY <1>1
<1>4. Len(s) <= Len(t) /\ \A k \in 1..Len(s) : s[k] = t[k]
  BY <1>1, <1>3
<1>5. IsPrefix(s, t)
  BY <1>4, PrefixItems
<1>6. QED
  BY <1>1, <1>2, <1>3, <1>5

-----------------------------------------------------------------------------
(* Types.                                                                  *)

\* The lines that there are, and the ids.
LEMMA LineTypes ==
  ASSUME TypeOK
  PROVE  /\ \A c \in Clone, i \in Identity : local[c][i] \in Seq(Version)
         /\ \A i \in Identity : remote[i] \in Seq(Version)
         /\ \A p \in Proc, i \in Identity : view[p][i] \in Seq(Version)
         /\ \A p \in Proc : At[p] \in Clone /\ run[p].ids \subseteq Identity
         /\ \A c \in Clone : Me[c] \in Identity /\ Mine[c] \in Account
<1>1. \A p \in Proc : run[p] \in Runs
  BY DEF TypeOK
<1>2. \A p \in Proc : run[p].ids \subseteq Identity
  BY <1>1 DEF Runs
<1>3. QED
  BY <1>2 DEF TypeOK

\* What a commit does to the refs and to what its process has read.
LEMMA CommitDoes ==
  ASSUME TypeOK, NEW p \in Proc, NEW i \in Identity, NEW a \in Account, Commit(p, i, a)
  PROVE  \E v \in Version :
           /\ view' = [view EXCEPT ![p][i] = Append(view[p][i], v)]
           /\ local' = [local EXCEPT ![At[p]][i] = Append(view[p][i], v)]
           /\ \A q \in Proc, j \in Identity :
                view'[q][j] = IF q = p /\ j = i THEN Append(view[p][i], v) ELSE view[q][j]
           /\ \A c \in Clone, j \in Identity :
                local'[c][j] = IF c = At[p] /\ j = i THEN Append(view[p][i], v) ELSE local[c][j]
<1> DEFINE v == [n |-> made + 1, account |-> a]
           line == Append(view[p][i], v)
<1>1. v \in Version
  BY DEF Commit, TypeOK, Version
<1>2. view' = [view EXCEPT ![p][i] = line] /\ local' = [local EXCEPT ![At[p]][i] = line]
  BY DEF Commit
<1> HIDE DEF v
<1>3. \A q \in Proc, j \in Identity : view'[q][j] = IF q = p /\ j = i THEN line ELSE view[q][j]
  BY <1>2 DEF TypeOK
<1>4. \A c \in Clone, j \in Identity : local'[c][j] = IF c = At[p] /\ j = i THEN line ELSE local[c][j]
  BY <1>2 DEF TypeOK
<1>5. QED
  BY <1>1, <1>2, <1>3, <1>4

\* A commit keeps the types of the lines.
LEMMA CommitTyped ==
  ASSUME TypeOK, NEW p \in Proc, NEW i \in Identity, NEW a \in Account, Commit(p, i, a)
  PROVE  /\ local' \in [Clone -> [Identity -> Seq(Version)]]
         /\ view' \in [Proc -> [Identity -> Seq(Version)]]
         /\ made' \in 0..MaxVersions
<1>1. PICK v \in Version :
        /\ view' = [view EXCEPT ![p][i] = Append(view[p][i], v)]
        /\ local' = [local EXCEPT ![At[p]][i] = Append(view[p][i], v)]
  BY CommitDoes
<1>2. Append(view[p][i], v) \in Seq(Version)
  BY LineTypes, OnTop
<1>3. made' \in 0..MaxVersions
  BY DEF Commit, TypeOK
<1>4. QED
  BY <1>1, <1>2, <1>3 DEF TypeOK

\* What a step leaves a process at.
LEMMA StepTyped ==
  ASSUME TypeOK, NEW p \in Proc, NEW step \in {"setup", "sync"}, To(p, step)
  PROVE  run' \in [Proc -> Runs] /\ run'[p].at = step /\ \A q \in Proc \ {p} : run'[q] = run[q]
<1>1. [at |-> step, ids |-> {}] \in Runs
  BY DEF Runs
<1>2. QED
  BY <1>1 DEF TypeOK, To

\* A command that ends leaves nothing behind.
LEMMA EndTyped ==
  ASSUME TypeOK, NEW p \in Proc, End(p)
  PROVE  /\ run' \in [Proc -> Runs] /\ view' \in [Proc -> [Identity -> Seq(Version)]]
         /\ run'[p] = Idle /\ \A i \in Identity : view'[p][i] = <<>>
         /\ \A q \in Proc \ {p} : run'[q] = run[q] /\ view'[q] = view[q]
<1>1. Idle \in Runs
  BY DEF Idle, Runs
<1>2. Unread \in [Identity -> Seq(Version)] /\ \A i \in Identity : Unread[i] = <<>>
  BY DEF Unread
<1>3. QED
  BY <1>1, <1>2 DEF TypeOK, End

\* An id that is merged is taken off.
LEMMA MergedTyped ==
  ASSUME TypeOK, NEW p \in Proc, NEW i \in Identity, Merging(p, i), Merged(p, i)
  PROVE  /\ run' \in [Proc -> Runs] /\ run'[p].at = "merge"
         /\ \A q \in Proc \ {p} : run'[q] = run[q]
<1>1. run[p] \in Runs /\ run[p].at = "merge"
  BY DEF TypeOK, Merging, Is
<1>2. [run[p] EXCEPT !.ids = @ \ {i}] \in Runs /\ [run[p] EXCEPT !.ids = @ \ {i}].at = "merge"
  BY <1>1 DEF Runs
<1>3. QED
  BY <1>2 DEF TypeOK, Merged

-----------------------------------------------------------------------------
(* What has been read, and the one line of an identity that a sync makes.  *)

\* No new line, and no ref that goes.
LEMMA LinesKept ==
  ASSUME MadeOnce,
         \A i \in Identity : Made(i) => Lines(i)' \subseteq Lines(i) /\ (Refs(i)' = {<<>>} => Refs(i) = {<<>>})
  PROVE  MadeOnce'
<1> SUFFICES ASSUME NEW i \in Identity, Made(i)
             PROVE  /\ \A s, t \in Lines(i)' : s = t
                    /\ Refs(i)' = {<<>>} => Lines(i)' = {}
  BY DEF MadeOnce, Made
<1>1. QED
  BY DEF MadeOnce

\* What a process has not read since.
LEMMA LinesOfStep ==
  ASSUME NEW p \in Proc, UNCHANGED <<local, remote>>,
         \A q \in Proc \ {p} : view'[q] = view[q],
         \A i \in Identity : view'[p][i] \in {<<>>, view[p][i]} \cup Refs(i)
  PROVE  \A i \in Identity : Lines(i)' \subseteq Lines(i) /\ Refs(i)' = Refs(i)
<1> SUFFICES ASSUME NEW i \in Identity
             PROVE  Lines(i)' \subseteq Lines(i) /\ Refs(i)' = Refs(i)
  OBVIOUS
<1>1. Refs(i)' = Refs(i)
  BY DEF Refs
<1>2. \A q \in Proc : view'[q][i] \in {<<>>} \cup Refs(i) \cup {view[r][i] : r \in Proc}
  OBVIOUS
<1>3. Lines(i)' \subseteq Lines(i)
  BY <1>1, <1>2 DEF Lines
<1>4. QED
  BY <1>1, <1>3

\* What MergeAll has fetched stays behind the remote while the remote stays.
LEMMA FetchedKept ==
  ASSUME Fetched, remote' = remote,
         \A q \in Proc : run'[q].at = "merge" => run[q].at = "merge" /\ view'[q] = view[q]
  PROVE  Fetched'
  BY DEF Fetched, Is

\* Nothing that the owner's rule speaks of moves.
LEMMA OwnerKept ==
  ASSUME OwnerAhead, UNCHANGED <<local, remote>>
  PROVE  OwnerAhead'
  BY DEF OwnerAhead, Owns

\* A line of an identity in Lines is one of these.
LEMMA LineIs ==
  ASSUME NEW i \in Identity
  PROVE  /\ remote[i] \in Refs(i) /\ \A c \in Clone : local[c][i] \in Refs(i)
         /\ \A s \in Refs(i) : s # <<>> => s \in Lines(i)
         /\ \A p \in Proc : view[p][i] # <<>> => view[p][i] \in Lines(i)
  BY DEF Refs, Lines

\* Two processes of a clone share its runner.
LEMMA SameClone ==
  ASSUME NEW p \in Proc, NEW q \in Proc, p # q, ~Shared(Me[At[p]])
  PROVE  Me[At[q]] # Me[At[p]] /\ At[q] # At[p]
  BY DEF Shared

\* A version that names an account leaves its line named, and so does a line on top.
LEMMA NamedByTag ==
  ASSUME NEW s \in Seq(Version), NEW v \in Version, v.account # NoAccount
  PROVE  Named(Append(s, v))
<1>1. Len(s) + 1 \in DOMAIN Append(s, v) /\ Append(s, v)[Len(s) + 1] = v
  OBVIOUS
<1>2. QED
  BY <1>1 DEF Named

-----------------------------------------------------------------------------
(* One lemma for each action.                                              *)

\* The first state.
LEMMA InitInvariant == Init => IdentitiesInvariant
<1> SUFFICES ASSUME Init
             PROVE  IdentitiesInvariant
  OBVIOUS
<1>1. \A i \in Identity : /\ Start[i] \in Seq(Version)
                          /\ (\E c \in Clone : Me[c] = i) => Start[i] # <<>>
                          /\ Made(i) => Start[i] = <<>>
  <2>1. [n |-> 0, account |-> NoAccount] \in Version
    BY DEF Version
  <2>2. ASSUME NEW v \in Version
        PROVE  <<v>> \in Seq(Version) /\ <<v>> # <<>>
    OBVIOUS
  <2>3. QED
    BY <2>1, <2>2 DEF Start, Made
<1>2. TypeOK
  <2>1. Start \in [Identity -> Seq(Version)] /\ Unread \in [Identity -> Seq(Version)]
    BY <1>1 DEF Start, Unread
  <2>2. Idle \in Runs
    BY DEF Idle, Runs
  <2>3. \A i \in Identity : Unread[i] = <<>>
    BY DEF Unread
  <2>4. QED
    BY <2>1, <2>2, <2>3 DEF Init, TypeOK
<1>3. RunnersThere
  BY <1>1 DEF Init, RunnersThere
<1>4. \A p \in Proc : run[p].at = "idle"
  BY DEF Init, Idle
<1>5. Fetched
  BY <1>4 DEF Fetched, Is
<1>6. MadeOnce
  <2> SUFFICES ASSUME NEW i \in Identity, Made(i)
               PROVE  Lines(i) = {}
    BY DEF MadeOnce
  <2>1. remote[i] = <<>> /\ \A c \in Clone : local[c][i] = <<>>
    BY <1>1 DEF Init
  <2>2. \A p \in Proc : view[p][i] = <<>>
    BY DEF Init, Unread
  <2>3. QED
    BY <2>1, <2>2 DEF Lines, Refs
<1>7. ReadHere
  BY <1>4 DEF ReadHere, Is
<1>8. OwnerAhead
  <2> SUFFICES ASSUME NEW i \in Identity, ~Shared(i)
               PROVE  \E c \in Clone : Owns(c, i)
    BY DEF OwnerAhead
  <2>1. PICK c \in Clone : \A p \in Proc : Me[At[p]] = i => At[p] = c
    <3>1. CASE \E p \in Proc : Me[At[p]] = i
      BY <3>1 DEF Shared
    <3>2. CASE ~\E p \in Proc : Me[At[p]] = i
      BY <3>2
    <3>3. QED
      BY <3>1, <3>2
  <2>2. remote[i] = Start[i] /\ \A d \in Clone : local[d][i] = Start[i]
    BY DEF Init
  <2>3. IsPrefix(Start[i], Start[i])
    <3>1. PICK s \in Seq(Version) : s = Start[i]
      BY <1>1
    <3>2. QED
      BY <3>1, PrefixOrder
  <2>4. IsPrefix(remote[i], local[c][i]) /\ \A d \in Clone \ {c} : IsPrefix(local[d][i], remote[i])
    BY <2>1, <2>2, <2>3
  <2>5. QED
    BY <2>1, <2>4 DEF Owns
<1>9. QED
  BY <1>2, <1>3, <1>5, <1>6, <1>7, <1>8 DEF IdentitiesInvariant

\* The cache is loaded: what is read is what the clone has.
LEMMA StartSyncCase ==
  ASSUME IdentitiesInvariant, NEW p \in Proc, StartSync(p)
  PROVE  IdentitiesInvariant'
<1>1. TypeOK /\ view' = [view EXCEPT ![p] = local[At[p]]] /\ UNCHANGED <<local, remote, made, left>>
  BY DEF IdentitiesInvariant, StartSync
<1>2. run' \in [Proc -> Runs] /\ run'[p].at = "setup" /\ \A q \in Proc \ {p} : run'[q] = run[q]
  BY <1>1, StepTyped DEF StartSync
<1>3. view' \in [Proc -> [Identity -> Seq(Version)]] /\ view'[p] = local[At[p]]
      /\ \A q \in Proc \ {p} : view'[q] = view[q]
  BY <1>1 DEF TypeOK
<1>4. TypeOK'
  <2>1. ASSUME NEW q \in Proc, run'[q].at = "idle"
        PROVE  run'[q] = Idle /\ \A i \in Identity : view'[q][i] = <<>>
    BY <1>1, <1>2, <1>3, <2>1 DEF TypeOK
  <2>2. QED
    BY <1>1, <1>2, <1>3, <2>1 DEF TypeOK
<1>5. RunnersThere'
  BY <1>1 DEF RunnersThere, IdentitiesInvariant
<1>6. Fetched'
  BY <1>1, <1>2, <1>3, FetchedKept DEF IdentitiesInvariant
<1>7. MadeOnce'
  <2>1. \A i \in Identity : view'[p][i] \in Refs(i)
    BY <1>1, <1>3, LineTypes, LineIs
  <2>2. \A i \in Identity : Lines(i)' \subseteq Lines(i) /\ Refs(i)' = Refs(i)
    BY <1>1, <1>3, <2>1, LinesOfStep
  <2>3. QED
    BY <2>2, LinesKept DEF IdentitiesInvariant
<1>8. ReadHere' /\ OwnerAhead'
  <2>1. ReadHere'
    BY <1>1, <1>2, <1>3 DEF ReadHere, Is, IdentitiesInvariant
  <2>2. QED
    BY <1>1, <2>1, OwnerKept DEF IdentitiesInvariant
<1>9. QED
  BY <1>4, <1>5, <1>6, <1>7, <1>8 DEF IdentitiesInvariant

\* The runner has its account: nothing moves.
LEMMA RunnerTaggedCase ==
  ASSUME IdentitiesInvariant, NEW p \in Proc, RunnerTagged(p)
  PROVE  IdentitiesInvariant'
<1>1. TypeOK /\ run[p].at = "setup" /\ UNCHANGED <<local, remote, view, made, left>>
  BY DEF IdentitiesInvariant, RunnerTagged, Is
<1>2. run' \in [Proc -> Runs] /\ run'[p].at = "sync" /\ \A q \in Proc \ {p} : run'[q] = run[q]
  BY <1>1, StepTyped DEF RunnerTagged
<1>3. TypeOK'
  BY <1>1, <1>2 DEF TypeOK
<1>4. RunnersThere' /\ MadeOnce'
  <2>1. RunnersThere /\ MadeOnce
    BY DEF IdentitiesInvariant
  <2>2. RunnersThere'
    BY <1>1, <2>1 DEF RunnersThere
  <2>3. \A i \in Identity : Lines(i)' = Lines(i) /\ Refs(i)' = Refs(i)
    BY <1>1 DEF Lines, Refs
  <2>4. QED
    BY <2>1, <2>2, <2>3, LinesKept
<1>5. Fetched'
  BY <1>1, <1>2, FetchedKept DEF IdentitiesInvariant
<1>6. ReadHere' /\ OwnerAhead'
  <2>1. ReadHere'
    BY <1>1, <1>2 DEF ReadHere, Is, IdentitiesInvariant
  <2>2. QED
    BY <1>1, <2>1, OwnerKept DEF IdentitiesInvariant
<1>7. QED
  BY <1>3, <1>4, <1>5, <1>6 DEF IdentitiesInvariant

\* A command ends: what it had read goes.
LEMMA EndCase ==
  ASSUME IdentitiesInvariant, NEW p \in Proc, End(p), UNCHANGED <<local, remote, made>>, left' \in 0..MaxCrashes
  PROVE  IdentitiesInvariant'
<1>1. TypeOK
  BY DEF IdentitiesInvariant
<1>2. /\ run' \in [Proc -> Runs] /\ view' \in [Proc -> [Identity -> Seq(Version)]]
      /\ run'[p] = Idle /\ \A i \in Identity : view'[p][i] = <<>>
      /\ \A q \in Proc \ {p} : run'[q] = run[q] /\ view'[q] = view[q]
  BY <1>1, EndTyped
<1>3. TypeOK'
  <2>1. ASSUME NEW q \in Proc, run'[q].at = "idle"
        PROVE  run'[q] = Idle /\ \A i \in Identity : view'[q][i] = <<>>
    BY SMTT(30), <1>1, <1>2, <2>1 DEF TypeOK
  <2>2. QED
    BY <1>1, <1>2, <2>1 DEF TypeOK
<1>4. RunnersThere'
  BY DEF RunnersThere, IdentitiesInvariant
<1>5. Fetched'
  BY <1>2, FetchedKept DEF Idle, IdentitiesInvariant
<1>6. MadeOnce'
  <2>1. \A i \in Identity : Lines(i)' \subseteq Lines(i) /\ Refs(i)' = Refs(i)
    BY <1>2, LinesOfStep
  <2>2. QED
    BY <2>1, LinesKept DEF IdentitiesInvariant
<1>7. ReadHere' /\ OwnerAhead'
  <2>1. ReadHere'
    BY <1>2 DEF ReadHere, Is, Idle, IdentitiesInvariant
  <2>2. QED
    BY <2>1, OwnerKept DEF IdentitiesInvariant
<1>8. QED
  BY <1>3, <1>4, <1>5, <1>6, <1>7 DEF IdentitiesInvariant

\* A commit: the runner's identity on top of what the clone has, or one that
\* nobody has.
LEMMA CommitCase ==
  ASSUME IdentitiesInvariant, NEW p \in Proc, NEW i \in Identity, NEW a \in Account,
         Commit(p, i, a), UNCHANGED <<remote, left>>,
         run[p].at \in {"setup", "sync"}, run' \in [Proc -> Runs], run'[p].at = "sync",
         \A q \in Proc \ {p} : run'[q] = run[q],
         Me[At[p]] = i \/ (remote[i] = <<>> /\ \A c \in Clone : local[c][i] = <<>>)
  PROVE  IdentitiesInvariant'
<1>1. TypeOK /\ RunnersThere /\ Fetched /\ MadeOnce
  BY DEF IdentitiesInvariant
<1>2. PICK v \in Version :
        /\ view' = [view EXCEPT ![p][i] = Append(view[p][i], v)]
        /\ local' = [local EXCEPT ![At[p]][i] = Append(view[p][i], v)]
        /\ \A q \in Proc, j \in Identity :
             view'[q][j] = IF q = p /\ j = i THEN Append(view[p][i], v) ELSE view[q][j]
        /\ \A c \in Clone, j \in Identity :
             local'[c][j] = IF c = At[p] /\ j = i THEN Append(view[p][i], v) ELSE local[c][j]
  BY SMTT(30), <1>1, CommitDoes
<1> DEFINE line == Append(view[p][i], v)
<1>3. line \in Seq(Version) /\ IsPrefix(view[p][i], line) /\ line # <<>>
  BY <1>1, LineTypes, OnTop
<1>4. /\ local'[At[p]][i] = line
      /\ \A c \in Clone, j \in Identity : local'[c][j] = IF c = At[p] /\ j = i THEN line ELSE local[c][j]
      /\ \A q \in Proc, j \in Identity : view'[q][j] = IF q = p /\ j = i THEN line ELSE view[q][j]
  <2>1. At[p] \in Clone
    BY <1>1, LineTypes
  <2>2. QED
    BY ZenonT(40), <1>2, <2>1
<1> HIDE DEF line
<1>5. At[p] \in Clone
  BY <1>1, LineTypes
<1>6. TypeOK'
  <2>1. /\ local' \in [Clone -> [Identity -> Seq(Version)]]
        /\ view' \in [Proc -> [Identity -> Seq(Version)]]
        /\ made' \in 0..MaxVersions
    BY <1>1, CommitTyped
  <2>2. ASSUME NEW q \in Proc, run'[q].at = "idle"
        PROVE  run'[q] = Idle /\ \A j \in Identity : view'[q][j] = <<>>
    BY <1>1, <1>2, <2>2 DEF TypeOK
  <2>3. QED
    BY <1>1, <2>1, <2>2 DEF TypeOK
<1>7. RunnersThere'
  BY <1>1 DEF RunnersThere
<1>8. Fetched'
  <2>1. ASSUME NEW q \in Proc, run'[q].at = "merge", NEW j \in Identity
        PROVE  IsPrefix(view'[q][j], remote[j])
    <3>1. q # p /\ run[q].at = "merge"
      BY <2>1
    <3>2. view'[q][j] = view[q][j]
      BY <1>2, <3>1
    <3>3. QED
      BY <1>1, <3>1, <3>2 DEF Fetched, Is
  <2>2. QED
    BY <2>1 DEF Fetched, Is
<1>9. MadeOnce'
  <2> SUFFICES ASSUME NEW j \in Identity, Made(j)
               PROVE  /\ \A s, t \in Lines(j)' : s = t
                      /\ Refs(j)' = {<<>>} => Lines(j)' = {}
    BY DEF MadeOnce, Made
  <2>1. CASE j # i
    <3>1. (\A c \in Clone : local'[c][j] = local[c][j]) /\ \A q \in Proc : view'[q][j] = view[q][j]
      BY <1>2, <2>1
    <3>2. Refs(j)' = Refs(j)
      BY <3>1 DEF Refs
    <3>3. Lines(j)' = Lines(j)
      BY <3>1, <3>2 DEF Lines
    <3>4. QED
      BY <1>1, <3>2, <3>3 DEF MadeOnce
  <2>2. CASE j = i
    <3>1. remote[i] = <<>> /\ \A c \in Clone : local[c][i] = <<>>
      BY <1>5, <2>2 DEF Made
    <3>2. Lines(i) = {}
      BY <1>1, <2>2, <3>1 DEF MadeOnce, Refs
    <3>3. \A q \in Proc : view[q][i] = <<>>
      BY <3>2, LineIs
    <3>4. \A c \in Clone : local'[c][i] \in {<<>>, line}
      BY <1>4, <3>1
    <3>5. \A q \in Proc : view'[q][i] \in {<<>>, line}
      BY <1>4, <3>3
    <3>6. local'[At[p]][i] = line
      BY <1>4
    <3>7. Refs(i)' \subseteq {<<>>, line} /\ line \in Refs(i)'
      <4>1. Refs(i)' = {<<>>} \cup {local'[c][i] : c \in Clone}
        BY <3>1 DEF Refs
      <4>2. QED
        BY <1>5, <3>4, <3>6, <4>1
    <3>8. Lines(i)' \subseteq {line}
      BY <3>5, <3>7 DEF Lines
    <3>9. QED
      BY <1>3, <2>2, <3>7, <3>8
  <2>3. QED
    BY <2>1, <2>2
<1>10. ReadHere' /\ OwnerAhead'
  <2>1. ReadHere /\ OwnerAhead
    BY DEF IdentitiesInvariant
  <2>2. Shared(Me[At[p]]) \/ view[p][Me[At[p]]] = local[At[p]][Me[At[p]]]
    BY <2>1 DEF ReadHere, Is
  <2>3. ReadHere'
    <3>1. ASSUME NEW q \in Proc, run'[q].at = "setup" \/ run'[q].at = "sync", ~Shared(Me[At[q]])
          PROVE  view'[q][Me[At[q]]] = local'[At[q]][Me[At[q]]]
      <4>1. Me[At[q]] \in Identity /\ At[q] \in Clone
        BY <1>1, LineTypes
      <4>2. CASE q = p
        <5>1. view[p][Me[At[p]]] = local[At[p]][Me[At[p]]]
          BY <2>2, <3>1, <4>2
        <5>2. QED
          BY <1>4, <4>1, <4>2, <5>1
      <4>3. CASE q # p
        <5>1. At[p] # At[q]
          BY <3>1, <4>3, SameClone
        <5>2. view[q][Me[At[q]]] = local[At[q]][Me[At[q]]]
          BY <2>1, <3>1, <4>3 DEF ReadHere, Is
        <5>3. QED
          BY <1>4, <4>1, <4>3, <5>1, <5>2
      <4>4. QED
        BY <4>2, <4>3
    <3>2. QED
      BY <3>1 DEF ReadHere, Is
  <2>4. OwnerAhead'
    <3> SUFFICES ASSUME NEW j \in Identity, ~Shared(j)
                 PROVE  \E c \in Clone : Owns(c, j)'
      BY DEF OwnerAhead
    <3>1. PICK c \in Clone : Owns(c, j)
      BY <2>1 DEF OwnerAhead
    <3>2. CASE j # i
      <4>1. \A d \in Clone : local'[d][j] = local[d][j]
        BY <1>2, <3>2
      <4>2. Owns(c, j)'
        BY <3>1, <4>1 DEF Owns
      <4>3. QED
        BY <4>2
    <3>3. CASE j = i /\ Me[At[p]] = i
      <4>1. c = At[p]
        BY <3>1, <3>3 DEF Owns
      <4>2. local'[c][i] = line /\ \A d \in Clone \ {c} : local'[d][i] = local[d][i]
        BY <1>4, <4>1
      <4>3. IsPrefix(remote[i], line)
        <5>1. IsPrefix(remote[i], local[c][i]) /\ IsPrefix(local[c][i], line)
          BY <1>3, <2>2, <3>1, <3>3, <4>1 DEF Owns
        <5>2. remote[i] \in Seq(Version) /\ local[c][i] \in Seq(Version)
          BY <1>1, LineTypes
        <5>3. QED
          BY <1>3, <5>1, <5>2, PrefixThrough
      <4>4. Owns(c, i)'
        BY <3>1, <3>3, <4>2, <4>3 DEF Owns
      <4>5. QED
        BY <3>3, <4>4
    <3>4. CASE j = i /\ remote[i] = <<>> /\ \A d \in Clone : local[d][i] = <<>>
      <4>1. \A q \in Proc : Me[At[q]] # i
        BY <1>1, <3>4, LineTypes DEF RunnersThere
      <4>2. local'[At[p]][i] = line /\ \A d \in Clone \ {At[p]} : local'[d][i] = <<>>
        BY <1>4, <3>4
      <4>3. IsPrefix(<<>>, line) /\ IsPrefix(<<>>, <<>>)
        <5>1. <<>> \in Seq(Version)
          OBVIOUS
        <5>2. QED
          BY <1>3, <5>1, PrefixOrder
      <4>4. Owns(At[p], i)'
        BY <3>4, <4>1, <4>2, <4>3 DEF Owns
      <4>5. QED
        BY <1>5, <3>4, <4>4
    <3>5. QED
      BY <3>2, <3>3, <3>4
  <2>5. QED
    BY <2>3, <2>4
<1>11. QED
  BY <1>6, <1>7, <1>8, <1>9, <1>10 DEF IdentitiesInvariant

\* The runner's identity takes the account.
LEMMA TagRunnerCase ==
  ASSUME IdentitiesInvariant, NEW p \in Proc, TagRunner(p)
  PROVE  IdentitiesInvariant'
<1>1. TypeOK
  BY DEF IdentitiesInvariant
<1>2. run' \in [Proc -> Runs] /\ run'[p].at = "sync" /\ \A q \in Proc \ {p} : run'[q] = run[q]
  BY <1>1, StepTyped DEF TagRunner
<1>3. Me[At[p]] \in Identity /\ Mine[At[p]] \in Account
  BY <1>1, LineTypes
<1>4. Commit(p, Me[At[p]], Mine[At[p]]) /\ UNCHANGED <<remote, left>> /\ run[p].at = "setup"
  BY DEF TagRunner, Is
<1>5. QED
  BY <1>2, <1>3, <1>4, CommitCase

\* An account that no identity carries gets a new one.
LEMMA EnsureUserCase ==
  ASSUME IdentitiesInvariant, NEW p \in Proc, NEW i \in Identity, NEW a \in Account, EnsureUser(p, i, a)
  PROVE  IdentitiesInvariant'
<1>1. Commit(p, i, a) /\ UNCHANGED <<remote, run, left>> /\ run[p].at = "sync"
      /\ remote[i] = <<>> /\ \A c \in Clone : local[c][i] = <<>>
  BY DEF EnsureUser, Is
<1>2. run \in [Proc -> Runs]
  BY DEF IdentitiesInvariant, TypeOK
<1>3. QED
  BY <1>1, <1>2, CommitCase

\* MergeAll takes an identity forward: to what the remote had.
LEMMA MergeForwardCase ==
  ASSUME IdentitiesInvariant, NEW p \in Proc, NEW i \in Identity, MergeForward(p, i)
  PROVE  IdentitiesInvariant'
<1>1. TypeOK /\ RunnersThere /\ Fetched /\ MadeOnce /\ UNCHANGED <<remote, view, made, left>> /\ run[p].at = "merge"
  BY DEF IdentitiesInvariant, MergeForward, Merging, Is
<1>2. run' \in [Proc -> Runs] /\ run'[p].at = "merge" /\ \A q \in Proc \ {p} : run'[q] = run[q]
  BY <1>1, MergedTyped DEF MergeForward
<1>3. At[p] \in Clone /\ view[p][i] \in Seq(Version) /\ local[At[p]][i] \in Seq(Version) /\ remote[i] \in Seq(Version)
  BY <1>1, LineTypes
<1>4. IsPrefix(local[At[p]][i], view[p][i]) /\ local[At[p]][i] # view[p][i] /\ IsPrefix(view[p][i], remote[i])
  BY <1>1 DEF MergeForward, IsStrictPrefix, Fetched, Is
<1>5. local' = [local EXCEPT ![At[p]][i] = view[p][i]]
  BY DEF MergeForward
<1>6. \A c \in Clone, j \in Identity :
        local'[c][j] = IF c = At[p] /\ j = i THEN view[p][i] ELSE local[c][j]
  BY <1>1, <1>5 DEF TypeOK
<1>7. TypeOK'
  <2>1. local' \in [Clone -> [Identity -> Seq(Version)]]
    BY <1>1, <1>3, <1>5 DEF TypeOK
  <2>2. QED
    BY <1>1, <1>2, <2>1 DEF TypeOK
<1>8. RunnersThere'
  BY <1>1 DEF RunnersThere
<1>9. Fetched'
  BY <1>1, <1>2, FetchedKept
<1>10. MadeOnce'
  <2> SUFFICES ASSUME NEW j \in Identity
               PROVE  Lines(j)' \subseteq Lines(j) /\ (Refs(j)' = {<<>>} => Refs(j) = {<<>>})
    BY <1>1, LinesKept
  <2>1. Refs(j)' = {remote[j]} \cup {local'[c][j] : c \in Clone}
    BY <1>1 DEF Refs
  <2>2. \A c \in Clone : local'[c][j] \in Refs(j) \cup {view[p][j]}
    BY <1>6, LineIs
  <2>3. Lines(j)' \subseteq Lines(j)
    <3>1. Refs(j)' \subseteq Refs(j) \cup {view[p][j]}
      BY <2>1, <2>2, LineIs
    <3>2. Lines(j)' = (Refs(j)' \cup {view[q][j] : q \in Proc}) \ {<<>>}
      BY <1>1 DEF Lines
    <3>3. QED
      BY <3>1, <3>2 DEF Lines
  <2>4. ASSUME Refs(j)' = {<<>>}
        PROVE  Refs(j) = {<<>>}
    <3>1. remote[j] = <<>> /\ \A c \in Clone : local'[c][j] = <<>>
      BY <2>1, <2>4
    <3>2. \A c \in Clone : local[c][j] = <<>>
      <4>1. CASE j = i
        <5>1. view[p][i] = <<>>
          BY <1>3, <1>6, <3>1, <4>1
        <5>2. view[p][i] # <<>>
          BY <1>3, <1>4, PrefixOrder
        <5>3. QED
          BY <5>1, <5>2
      <4>2. CASE j # i
        BY <1>6, <3>1, <4>2
      <4>3. QED
        BY <4>1, <4>2
    <3>3. QED
      BY <3>1, <3>2 DEF Refs
  <2>5. QED
    BY <2>3, <2>4
<1>11. ReadHere' /\ OwnerAhead'
  <2>1. ReadHere /\ OwnerAhead
    BY DEF IdentitiesInvariant
  <2>2. ReadHere'
    <3>1. ASSUME NEW q \in Proc, run'[q].at = "setup" \/ run'[q].at = "sync", ~Shared(Me[At[q]])
          PROVE  view'[q][Me[At[q]]] = local'[At[q]][Me[At[q]]]
      <4>1. q # p /\ (run[q].at = "setup" \/ run[q].at = "sync") /\ Me[At[q]] \in Identity /\ At[q] \in Clone
        BY <1>1, <1>2, <3>1, LineTypes
      <4>2. At[p] # At[q]
        BY <3>1, <4>1, SameClone
      <4>3. view[q][Me[At[q]]] = local[At[q]][Me[At[q]]]
        BY <2>1, <3>1, <4>1 DEF ReadHere, Is
      <4>4. QED
        BY <1>1, <1>6, <4>1, <4>2, <4>3
    <3>2. QED
      BY <3>1 DEF ReadHere, Is
  <2>3. OwnerAhead'
    <3> SUFFICES ASSUME NEW j \in Identity, ~Shared(j)
                 PROVE  \E c \in Clone : Owns(c, j)'
      BY DEF OwnerAhead
    <3>1. PICK c \in Clone : Owns(c, j)
      BY <2>1 DEF OwnerAhead
    <3>2. CASE j # i
      <4>1. \A d \in Clone : local'[d][j] = local[d][j]
        BY <1>6, <3>2
      <4>2. Owns(c, j)'
        BY <1>1, <3>1, <4>1 DEF Owns
      <4>3. QED
        BY <4>2
    <3>3. CASE j = i
      <4>1. c # At[p]
        <5>1. CASE c = At[p]
          <6>1. IsPrefix(remote[i], local[c][i])
            BY <3>1, <3>3 DEF Owns
          <6>2. IsPrefix(view[p][i], local[c][i])
            BY <1>3, <1>4, <5>1, <6>1, PrefixThrough
          <6>3. QED
            BY <1>3, <1>4, <5>1, <6>2, PrefixOrder
        <5>2. QED
          BY <5>1
      <4>2. local'[c][i] = local[c][i]
            /\ \A d \in Clone : local'[d][i] = local[d][i] \/ local'[d][i] = view[p][i]
        BY <1>6, <4>1
      <4>3. Owns(c, i)'
        BY <1>1, <1>4, <3>1, <3>3, <4>2 DEF Owns
      <4>4. QED
        BY <3>3, <4>3
    <3>4. QED
      BY <3>2, <3>3
  <2>4. QED
    BY <2>2, <2>3
<1>12. QED
  BY <1>7, <1>8, <1>9, <1>10, <1>11 DEF IdentitiesInvariant

\* MergeAll leaves an identity alone.
LEMMA MergeNothingCase ==
  ASSUME IdentitiesInvariant, NEW p \in Proc, NEW i \in Identity, MergeNothing(p, i)
  PROVE  IdentitiesInvariant'
<1>1. TypeOK /\ RunnersThere /\ Fetched /\ MadeOnce /\ UNCHANGED <<local, remote, view, made, left>> /\ run[p].at = "merge"
  BY DEF IdentitiesInvariant, MergeNothing, Merging, Is
<1>2. run' \in [Proc -> Runs] /\ run'[p].at = "merge" /\ \A q \in Proc \ {p} : run'[q] = run[q]
  BY <1>1, MergedTyped DEF MergeNothing
<1>3. TypeOK'
  BY <1>1, <1>2 DEF TypeOK
<1>4. RunnersThere'
  BY <1>1 DEF RunnersThere
<1>5. Fetched'
  BY <1>1, <1>2, FetchedKept
<1>6. MadeOnce'
  <2>1. \A j \in Identity : Lines(j)' = Lines(j) /\ Refs(j)' = Refs(j)
    BY <1>1 DEF Lines, Refs
  <2>2. QED
    BY <1>1, <2>1, LinesKept
<1>7. ReadHere' /\ OwnerAhead'
  <2>1. ReadHere'
    BY <1>1, <1>2 DEF ReadHere, Is, IdentitiesInvariant
  <2>2. QED
    BY <1>1, <2>1, OwnerKept DEF IdentitiesInvariant
<1>8. QED
  BY <1>3, <1>4, <1>5, <1>6, <1>7 DEF IdentitiesInvariant

\* The fetch: what is merged is what the remote has now.
LEMMA PullCase ==
  ASSUME IdentitiesInvariant, NEW p \in Proc, Pull(p)
  PROVE  IdentitiesInvariant'
<1>1. TypeOK /\ RunnersThere /\ Fetched /\ MadeOnce /\ UNCHANGED <<local, remote, made, left>>
  BY DEF IdentitiesInvariant, Pull
<1>2. run' \in [Proc -> Runs] /\ run'[p].at = "merge" /\ \A q \in Proc \ {p} : run'[q] = run[q]
  <2>1. PICK ids \in SUBSET Identity : run' = [run EXCEPT ![p] = [at |-> "merge", ids |-> ids]]
    BY DEF Pull
  <2>2. [at |-> "merge", ids |-> ids] \in Runs
    BY DEF Runs
  <2>3. QED
    BY <1>1, <2>1, <2>2 DEF TypeOK
<1>3. view' \in [Proc -> [Identity -> Seq(Version)]] /\ view'[p] = remote
      /\ \A q \in Proc \ {p} : view'[q] = view[q]
  BY <1>1 DEF TypeOK, Pull
<1>4. TypeOK'
  BY <1>1, <1>2, <1>3 DEF TypeOK
<1>5. RunnersThere'
  BY <1>1 DEF RunnersThere
<1>6. Fetched'
  <2>1. \A i \in Identity : IsPrefix(remote[i], remote[i])
    BY <1>1, LineTypes, PrefixOrder
  <2>2. QED
    BY <1>1, <1>2, <1>3, <2>1 DEF Fetched, Is
<1>7. MadeOnce'
  <2>1. \A i \in Identity : view'[p][i] \in Refs(i)
    BY <1>3, LineIs
  <2>2. \A i \in Identity : Lines(i)' \subseteq Lines(i) /\ Refs(i)' = Refs(i)
    BY <1>1, <1>3, <2>1, LinesOfStep
  <2>3. QED
    BY <1>1, <2>2, LinesKept
<1>8. ReadHere' /\ OwnerAhead'
  <2>1. ReadHere'
    BY <1>1, <1>2, <1>3 DEF ReadHere, Is, IdentitiesInvariant
  <2>2. QED
    BY <1>1, <2>1, OwnerKept DEF IdentitiesInvariant
<1>9. QED
  BY <1>4, <1>5, <1>6, <1>7, <1>8 DEF IdentitiesInvariant

\* The remote takes what is ahead of it.
LEMMA PushCase ==
  ASSUME IdentitiesInvariant, NEW p \in Proc, Push(p)
  PROVE  IdentitiesInvariant'
<1>1. TypeOK /\ RunnersThere /\ Fetched /\ MadeOnce /\ UNCHANGED <<local, view, run, made, left>>
      /\ remote' = Accepted(At[p])
  BY DEF IdentitiesInvariant, Push
<1>2. At[p] \in Clone /\ \A i \in Identity : remote[i] \in Seq(Version) /\ local[At[p]][i] \in Seq(Version)
  BY <1>1, LineTypes
<1>3. \A i \in Identity : \/ IsPrefix(remote[i], local[At[p]][i]) /\ remote'[i] = local[At[p]][i]
                          \/ ~IsPrefix(remote[i], local[At[p]][i]) /\ remote'[i] = remote[i]
  BY <1>1 DEF Accepted
<1>4. \A i \in Identity : remote'[i] \in Seq(Version) /\ IsPrefix(remote[i], remote'[i])
  BY <1>2, <1>3, PrefixOrder
<1>5. TypeOK'
  <2>1. remote' \in [Identity -> Seq(Version)]
    BY <1>1, <1>4 DEF Accepted
  <2>2. QED
    BY <1>1, <2>1 DEF TypeOK
<1>6. RunnersThere'
  <2>1. \A i \in Identity : remote[i] # <<>> => remote'[i] # <<>>
    BY <1>2, <1>4, PrefixOrder
  <2>2. \A c \in Clone : Me[c] \in Identity
    BY <1>1, LineTypes
  <2>3. QED
    BY <1>1, <2>1, <2>2 DEF RunnersThere
<1>7. Fetched'
  <2>1. ASSUME NEW q \in Proc, run[q].at = "merge", NEW i \in Identity
        PROVE  IsPrefix(view[q][i], remote'[i])
    <3>1. IsPrefix(view[q][i], remote[i])
      BY <1>1, <2>1 DEF Fetched, Is
    <3>2. view[q][i] \in Seq(Version)
      BY <1>1, LineTypes
    <3>3. remote[i] \in Seq(Version) /\ remote'[i] \in Seq(Version) /\ IsPrefix(remote[i], remote'[i])
      BY <1>2, <1>4
    <3>4. QED
      BY <3>1, <3>2, <3>3, PrefixThrough
  <2>2. QED
    BY <1>1, <2>1 DEF Fetched, Is
<1>8. MadeOnce'
  <2> SUFFICES ASSUME NEW i \in Identity
               PROVE  Lines(i)' \subseteq Lines(i) /\ (Refs(i)' = {<<>>} => Refs(i) = {<<>>})
    BY <1>1, LinesKept
  <2>1. Refs(i)' = {remote'[i]} \cup {local[c][i] : c \in Clone}
    BY <1>1 DEF Refs
  <2>2. Refs(i)' \subseteq Refs(i)
    BY <1>2, <1>3, <2>1, LineIs DEF Refs
  <2>3. Lines(i)' \subseteq Lines(i)
    BY <1>1, <2>2 DEF Lines
  <2>4. ASSUME Refs(i)' = {<<>>}
        PROVE  Refs(i) = {<<>>}
    <3>1. remote'[i] = <<>> /\ \A c \in Clone : local[c][i] = <<>>
      BY <2>1, <2>4
    <3>2. remote[i] = <<>>
      BY <1>2, <1>4, <3>1, PrefixOrder
    <3>3. QED
      BY <3>1, <3>2 DEF Refs
  <2>5. QED
    BY <2>3, <2>4
<1>9. ReadHere' /\ OwnerAhead'
  <2>1. ReadHere /\ OwnerAhead
    BY DEF IdentitiesInvariant
  <2>2. ReadHere'
    BY <1>1, <2>1 DEF ReadHere, Is
  <2>3. OwnerAhead'
    <3> SUFFICES ASSUME NEW i \in Identity, ~Shared(i)
                 PROVE  \E c \in Clone : Owns(c, i)'
      BY DEF OwnerAhead
    <3>1. PICK c \in Clone : Owns(c, i)
      BY <2>1 DEF OwnerAhead
    <3>2. local[c][i] \in Seq(Version) /\ \A d \in Clone : local[d][i] \in Seq(Version)
      BY <1>1, LineTypes
    <3>3. IsPrefix(remote'[i], local[c][i])
      <4>1. CASE At[p] = c
        BY <1>3, <3>1, <3>2, <4>1, PrefixOrder DEF Owns
      <4>2. CASE At[p] # c
        <5>1. IsPrefix(local[At[p]][i], remote[i])
          BY <1>2, <3>1, <4>2 DEF Owns
        <5>2. remote'[i] = remote[i]
          BY <1>2, <1>3, <5>1, PrefixOrder
        <5>3. QED
          BY <3>1, <5>2 DEF Owns
      <4>3. QED
        BY <4>1, <4>2
    <3>4. ASSUME NEW d \in Clone \ {c}
          PROVE  IsPrefix(local[d][i], remote'[i])
      <4>1. IsPrefix(local[d][i], remote[i])
        BY <3>1 DEF Owns
      <4>2. remote[i] \in Seq(Version) /\ remote'[i] \in Seq(Version) /\ IsPrefix(remote[i], remote'[i])
        BY <1>2, <1>4
      <4>3. local[d][i] \in Seq(Version)
        BY <3>2
      <4>4. QED
        BY <4>1, <4>2, <4>3, PrefixThrough
    <3>5. Owns(c, i)'
      BY <1>1, <3>1, <3>3, <3>4 DEF Owns
    <3>6. QED
      BY <3>5
  <2>4. QED
    BY <2>2, <2>3
<1>10. QED
  BY <1>5, <1>6, <1>7, <1>8, <1>9 DEF IdentitiesInvariant

-----------------------------------------------------------------------------
(* The theorems.                                                           *)

\* Every step keeps the invariant.
LEMMA StepInvariant == IdentitiesInvariant /\ [Next]_vars => IdentitiesInvariant'
<1> SUFFICES ASSUME IdentitiesInvariant, [Next]_vars
             PROVE  IdentitiesInvariant'
  OBVIOUS
<1>1. ASSUME NEW p \in Proc, Sync(p)
      PROVE  IdentitiesInvariant'
  BY <1>1, StartSyncCase, TagRunnerCase, RunnerTaggedCase, EnsureUserCase DEF Sync
<1>2. left \in 0..MaxCrashes
  BY DEF IdentitiesInvariant, TypeOK
<1>3. ASSUME NEW p \in Proc, EndSync(p)
      PROVE  IdentitiesInvariant'
  <2>1. End(p) /\ UNCHANGED <<local, remote, made>> /\ left' \in 0..MaxCrashes
    BY <1>2, <1>3 DEF EndSync
  <2>2. QED
    BY <2>1, EndCase
<1>4. ASSUME NEW p \in Proc, MergeStep(p)
      PROVE  IdentitiesInvariant'
  <2>1. ASSUME NEW i \in Identity, MergeRefused(p, i)
        PROVE  IdentitiesInvariant'
    <3>1. End(p) /\ UNCHANGED <<local, remote, made>> /\ left' \in 0..MaxCrashes
      BY <1>2, <2>1 DEF MergeRefused
    <3>2. QED
      BY <3>1, EndCase
  <2>2. ASSUME MergeDone(p)
        PROVE  IdentitiesInvariant'
    <3>1. End(p) /\ UNCHANGED <<local, remote, made>> /\ left' \in 0..MaxCrashes
      BY <1>2, <2>2 DEF MergeDone
    <3>2. QED
      BY <3>1, EndCase
  <2>3. QED
    BY <1>4, <2>1, <2>2, MergeForwardCase, MergeNothingCase DEF MergeStep
<1>5. ASSUME NEW p \in Proc, Crash(p)
      PROVE  IdentitiesInvariant'
  <2>1. End(p) /\ UNCHANGED <<local, remote, made>> /\ left > 0 /\ left' = left - 1
    BY <1>5 DEF Crash
  <2>2. left' \in 0..MaxCrashes
    BY <1>2, <2>1
  <2>3. QED
    BY <2>1, <2>2, EndCase
<1>6. CASE UNCHANGED vars
  <2>1. TypeOK'
    BY <1>6 DEF vars, IdentitiesInvariant, TypeOK
  <2>2. RunnersThere' /\ Fetched' /\ MadeOnce'
    <3>1. RunnersThere /\ Fetched /\ MadeOnce
      BY DEF IdentitiesInvariant
    <3>2. RunnersThere' /\ Fetched'
      BY <1>6, <3>1 DEF vars, RunnersThere, Fetched, Is
    <3>3. \A i \in Identity : Lines(i)' = Lines(i) /\ Refs(i)' = Refs(i)
      BY <1>6 DEF vars, Lines, Refs
    <3>4. QED
      BY <3>1, <3>2, <3>3, LinesKept
  <2>3. ReadHere' /\ OwnerAhead'
    BY <1>6 DEF vars, IdentitiesInvariant, ReadHere, Is, OwnerAhead, Owns
  <2>4. QED
    BY <2>1, <2>2, <2>3 DEF IdentitiesInvariant
<1>7. QED
  BY <1>1, <1>3, <1>4, <1>5, <1>6, PullCase, PushCase DEF Next

\* The invariant holds in every state of every behaviour, whatever runs
\* together in a clone.
THEOREM IdentitiesInvariance == Spec => []IdentitiesInvariant
<1>1. Init => IdentitiesInvariant
  BY InitInvariant
<1>2. IdentitiesInvariant /\ [Next]_vars => IdentitiesInvariant'
  BY StepInvariant
<1>3. QED
  BY <1>1, <1>2, PTL DEF Spec

\* No step leaves the types: a ref is a line of versions, an idle process has
\* read nothing.
THEOREM IdentitiesTyped == Spec => []TypeOK
<1>1. IdentitiesInvariant => TypeOK
  BY DEF IdentitiesInvariant
<1>2. QED
  BY <1>1, IdentitiesInvariance, PTL

\* An identity that a sync makes is never split: even with several commands at
\* a time in a clone, its one line is the same wherever it is.
THEOREM MadeWhole == Spec => []MadeNeverSplit
<1>1. IdentitiesInvariant => MadeNeverSplit
  <2> SUFFICES ASSUME IdentitiesInvariant, NEW i \in Identity, Made(i), NEW c \in Clone
               PROVE  ~Apart(local[c][i], remote[i])
    BY DEF MadeNeverSplit
  <2>1. local[c][i] \in Seq(Version) /\ remote[i] \in Seq(Version)
    BY LineTypes DEF IdentitiesInvariant
  <2>2. local[c][i] = <<>> \/ remote[i] = <<>> \/ local[c][i] = remote[i]
    BY LineIs DEF IdentitiesInvariant, MadeOnce
  <2>3. QED
    BY <2>1, <2>2, PrefixOrder DEF Apart
<1>2. QED
  BY <1>1, IdentitiesInvariance, PTL

\* An identity is split only where two processes have it for their runner, in
\* one clone or in two; whatever runs together, the runner of one process is not.
THEOREM OnlySharedParts == Spec => []PartsOnlyShared
<1>1. IdentitiesInvariant => PartsOnlyShared
  <2> SUFFICES ASSUME IdentitiesInvariant, NEW i \in Identity, NEW c \in Clone, ~Shared(i)
               PROVE  ~Apart(local[c][i], remote[i])
    BY DEF PartsOnlyShared
  <2>1. PICK d \in Clone : Owns(d, i)
    BY DEF IdentitiesInvariant, OwnerAhead
  <2>2. QED
    BY <2>1 DEF Owns, Apart
<1>2. QED
  BY <1>1, IdentitiesInvariance, PTL

\* No merge takes a version off a ref, and no commit but the tag of a runner that
\* another process of the clone writes too; the account is there then all the
\* same.  IdentityCache.Commit takes the lock and reads nothing again.
THEOREM VersionsKept == Spec => LostOnlyToTag
<1> DEFINE Kept(c, i) == IsPrefix(local[c][i], local'[c][i]) \/ (Me[c] = i /\ Shared(i) /\ Named(local'[c][i]))
<1>1. ASSUME IdentitiesInvariant, [Next]_vars
      PROVE  [\A c \in Clone, i \in Identity : Kept(c, i)]_vars
  <2> SUFFICES ASSUME NEW c \in Clone, NEW i \in Identity
               PROVE  Kept(c, i)
    OBVIOUS
  <2>1. TypeOK
    BY <1>1 DEF IdentitiesInvariant
  <2>2. local[c][i] \in Seq(Version)
    BY <2>1, LineTypes
  <2>3. IsPrefix(local[c][i], local[c][i])
    BY <2>2, PrefixOrder
  <2>4. local'[c][i] = local[c][i] => Kept(c, i)
    BY <2>3
  <2>5. ASSUME NEW p \in Proc, TagRunner(p)
        PROVE  Kept(c, i)
    <3>1. Me[At[p]] \in Identity /\ Mine[At[p]] \in Account /\ At[p] \in Clone
      BY <2>1, LineTypes
    <3>2. Commit(p, Me[At[p]], Mine[At[p]]) /\ Is(p, "setup")
      BY <2>5 DEF TagRunner
    <3> DEFINE v == [n |-> made + 1, account |-> Mine[At[p]]]
               line == Append(view[p][Me[At[p]]], v)
    <3>3. v \in Version /\ v.account # NoAccount
      BY <2>1, <3>1, <3>2 DEF Commit, TypeOK, Version, NoAccount
    <3>4. local' = [local EXCEPT ![At[p]][Me[At[p]]] = line]
      BY <3>2 DEF Commit
    <3> HIDE DEF v
    <3>5. view[p][Me[At[p]]] \in Seq(Version)
      BY <2>1, <3>1, LineTypes
    <3>6. Named(line) /\ IsPrefix(view[p][Me[At[p]]], line)
      BY <3>3, <3>5, NamedByTag, OnTop
    <3> HIDE DEF line
    <3>7. local'[c][i] = IF c = At[p] /\ i = Me[At[p]] THEN line ELSE local[c][i]
      BY <2>1, <3>1, <3>4 DEF TypeOK
    <3>8. Shared(Me[At[p]]) \/ view[p][Me[At[p]]] = local[At[p]][Me[At[p]]]
      BY <1>1, <3>2 DEF IdentitiesInvariant, ReadHere
    <3>9. CASE c = At[p] /\ i = Me[At[p]]
      BY <3>6, <3>7, <3>8, <3>9
    <3>10. CASE ~(c = At[p] /\ i = Me[At[p]])
      BY <2>4, <3>7, <3>10
    <3>11. QED
      BY <3>9, <3>10
  <2>6. ASSUME NEW p \in Proc, NEW j \in Identity, NEW a \in Account, EnsureUser(p, j, a)
        PROVE  Kept(c, i)
    <3>1. Commit(p, j, a) /\ \A d \in Clone : local[d][j] = <<>>
      BY <2>6 DEF EnsureUser
    <3>2. PICK v \in Version : \A d \in Clone, k \in Identity :
            local'[d][k] = IF d = At[p] /\ k = j THEN Append(view[p][j], v) ELSE local[d][k]
      BY <2>1, <3>1, CommitDoes
    <3>3. CASE c = At[p] /\ i = j
      <4>1. Append(view[p][j], v) \in Seq(Version)
        BY <2>1, LineTypes, OnTop
      <4>2. PICK t \in Seq(Version) : t = Append(view[p][j], v)
        BY <4>1
      <4>3. local[c][i] = <<>> /\ local'[c][i] = t
        BY <3>1, <3>2, <3>3, <4>2
      <4>4. IsPrefix(local[c][i], t)
        BY <2>2, <4>2, <4>3, PrefixOrder
      <4>5. IsPrefix(local[c][i], local'[c][i])
        BY <4>3, <4>4
      <4>6. QED
        BY <4>5
    <3>4. CASE ~(c = At[p] /\ i = j)
      BY <2>4, <3>2, <3>4
    <3>5. QED
      BY <3>3, <3>4
  <2>7. ASSUME NEW p \in Proc, NEW j \in Identity, MergeForward(p, j)
        PROVE  Kept(c, i)
    <3>1. \A d \in Clone, k \in Identity :
            local'[d][k] = IF d = At[p] /\ k = j THEN view[p][j] ELSE local[d][k]
      BY <2>1, <2>7 DEF MergeForward, TypeOK
    <3>2. IsPrefix(local[At[p]][j], view[p][j])
      BY <2>7 DEF MergeForward, IsStrictPrefix
    <3>3. QED
      BY <2>3, <3>1, <3>2
  <2> HIDE DEF Kept
  <2>8. ASSUME NEW p \in Proc, Sync(p)
        PROVE  Kept(c, i)
    <3>1. CASE StartSync(p) \/ RunnerTagged(p)
      BY <2>4, <3>1 DEF StartSync, RunnerTagged
    <3>2. QED
      BY <2>5, <2>6, <2>8, <3>1 DEF Sync
  <2>9. ASSUME NEW p \in Proc, MergeStep(p)
        PROVE  Kept(c, i)
    <3>1. ASSUME NEW j \in Identity, MergeNothing(p, j) \/ MergeRefused(p, j)
          PROVE  Kept(c, i)
      BY <2>4, <3>1 DEF MergeNothing, MergeRefused
    <3>2. CASE MergeDone(p)
      BY <2>4, <3>2 DEF MergeDone
    <3>3. QED
      BY <2>7, <2>9, <3>1, <3>2 DEF MergeStep
  <2>10. ASSUME NEW p \in Proc, EndSync(p) \/ Pull(p) \/ Push(p) \/ Crash(p)
         PROVE  Kept(c, i)
    BY <2>4, <2>10 DEF EndSync, Pull, Push, Crash
  <2>11. CASE UNCHANGED vars
    BY <2>4, <2>11 DEF vars
  <2>12. QED
    BY <1>1, <2>8, <2>9, <2>10, <2>11 DEF Next
<1>2. QED
  BY <1>1, IdentitiesInvariance, PTL DEF Spec, LostOnlyToTag

=============================================================================
