-------------------------- MODULE CacheFileProofs --------------------------
(***************************************************************************)
(* Why the cache file survives crashes: any number of processes may        *)
(* replace it and die anywhere while they do, as long as no two of them    *)
(* are at it at a time.  When two are, it does not (FileKept, in the run   *)
(* cache_file): write takes no lock that other processes know of.          *)
(***************************************************************************)
EXTENDS CacheFile, FiniteSetTheorems, TLAPS

\* No two processes replace the file at a time.
Alone == \A v, w \in Writer : pc[v] # "idle" /\ pc[w] # "idle" => v = w

\* What a writer that is alone knows: the sibling is not the file, and is its own
\* from Create on, so that there is one to rename, and what is renamed is whole.
AloneInv ==
  /\ final \in Inode \cup {None} /\ tmp \in Inode \cup {None} /\ (tmp # None => tmp # final)
  /\ data \in [Inode -> Writer \cup {None}]
  /\ fd \in [Writer -> Inode \cup {None}]
  /\ pc \in [Writer -> {"idle", "created", "filled"}]
  /\ final # None => data[final] # None
  /\ \A w \in Writer :
       /\ IF pc[w] = "created" THEN tmp # None /\ fd[w] = tmp ELSE fd[w] = None
       /\ pc[w] = "filled" => tmp # None /\ data[tmp] # None

\* When nobody has an inode open, Create finds one that is not in use.
LEMMA NewInode ==
  ASSUME IsFiniteSet(Writer), None \notin Inode, tmp = None, \A w \in Writer : fd[w] = None
  PROVE  Min(Inode \ Used) \in Inode \ Used
<1>1. Cardinality(Writer) \in Nat
  BY FS_CardinalityType
<1>2. Inode \subseteq Nat /\ 1 \in Inode /\ 2 \in Inode /\ \A i \in Inode : 1 <= i /\ (i = 1 \/ 2 <= i)
  BY <1>1 DEF Inode
<1>3. Used \subseteq {final, None}
  BY DEF Used
<1> DEFINE free == Inode \ Used
<1>4. (1 \in free) \/ (1 \notin free /\ 2 \in free)
  <2>1. None # 1 /\ None # 2
    BY <1>2
  <2>2. QED
    BY <1>2, <1>3, <2>1
<1>5. \E i \in free : \A j \in free : i <= j
  <2>1. CASE 1 \in free
    BY <1>2, <2>1
  <2>2. CASE 1 \notin free /\ 2 \in free
    <3>1. \A j \in free : 2 <= j
      BY <1>2, <2>2
    <3>2. QED
      BY <2>2, <3>1
  <2>3. QED
    BY <1>4, <2>1, <2>2
<1>6. QED
  BY <1>5 DEF Min

\* Every step of a writer that is alone, a crash included, keeps that.
LEMMA AloneStep ==
  ASSUME IsFiniteSet(Writer), None \notin Inode \cup Writer, AloneInv, Alone, Alone', [Next]_vars
  PROVE  AloneInv'
<1>1. ASSUME NEW w \in Writer, Create(w)
      PROVE  AloneInv'
  <2> DEFINE i == IF tmp = None THEN Min(Inode \ Used) ELSE tmp
  <2>1. /\ pc[w] = "idle" /\ tmp' = i /\ data' = [data EXCEPT ![i] = None] /\ fd' = [fd EXCEPT ![w] = i]
        /\ pc' = [pc EXCEPT ![w] = "created"] /\ UNCHANGED final
    BY <1>1 DEF Create
  <2>2. \A v \in Writer \ {w} : pc[v] = "idle" /\ pc'[v] = "idle"
    BY <2>1 DEF Alone, AloneInv
  <2>3. \A v \in Writer : fd[v] = None
    BY <2>1, <2>2 DEF AloneInv
  <2>4. i \in Inode /\ i # final
    <3>1. CASE tmp = None
      BY <2>3, <3>1, NewInode DEF Used
    <3>2. CASE tmp # None
      BY <3>2 DEF AloneInv
    <3>3. QED
      BY <3>1, <3>2
  <2> HIDE DEF i
  <2>5. QED
    BY <2>1, <2>2, <2>4 DEF AloneInv
<1>2. ASSUME NEW w \in Writer, Fill(w)
      PROVE  AloneInv'
  <2>1. pc[w] = "created" /\ data' = [data EXCEPT ![fd[w]] = w] /\ fd' = [fd EXCEPT ![w] = None]
        /\ pc' = [pc EXCEPT ![w] = "filled"] /\ UNCHANGED <<final, tmp>>
    BY <1>2 DEF Fill
  <2>2. fd[w] = tmp /\ tmp \in Inode /\ w # None
    BY <2>1 DEF AloneInv
  <2>3. \A v \in Writer \ {w} : pc'[v] = pc[v] /\ fd'[v] = fd[v] /\ pc[v] = "idle"
    BY <2>1 DEF Alone, AloneInv
  <2>4. QED
    BY <2>1, <2>2, <2>3 DEF AloneInv
<1>3. ASSUME NEW w \in Writer, Rename(w)
      PROVE  AloneInv'
  <2>1. pc[w] = "filled" /\ tmp # None /\ final' = tmp /\ tmp' = None
        /\ pc' = [pc EXCEPT ![w] = "idle"] /\ UNCHANGED <<data, fd>>
    BY <1>3 DEF Rename, AloneInv
  <2>2. \A v \in Writer \ {w} : pc[v] = "idle" /\ pc'[v] = "idle"
    BY <2>1 DEF Alone, AloneInv
  <2>3. \A v \in Writer : pc'[v] = "idle" /\ fd[v] = None
    BY <2>1, <2>2 DEF AloneInv
  <2>4. QED
    BY <2>1, <2>3 DEF AloneInv
<1>4. ASSUME NEW w \in Writer, RemoveFinal(w) \/ GiveUp(w)
      PROVE  FALSE
  BY <1>4 DEF RemoveFinal, GiveUp, AloneInv
<1>5. ASSUME NEW w \in Writer, Crash(w)
      PROVE  AloneInv'
  BY <1>5 DEF Crash, AloneInv
<1>6. CASE UNCHANGED vars
  BY <1>6 DEF vars, AloneInv
<1>7. QED
  BY <1>1, <1>2, <1>3, <1>4, <1>5, <1>6 DEF Next

\* A cache file that could be read stays one, wherever writers die, unless two
\* replace it at a time (cache/subcache.go, write: a crash "leaves the previous
\* cache intact").
THEOREM CrashKeepsFile ==
  ASSUME IsFiniteSet(Writer), None \notin Inode \cup Writer
  PROVE  Spec /\ []Alone => FileKept
<1>1. Init => AloneInv
  BY DEF Init, AloneInv
<1>2. AloneInv /\ Alone /\ Alone' /\ [Next]_vars => AloneInv'
  BY AloneStep
<1>3. AloneInv /\ Alone /\ Alone' /\ [Next]_vars => [Readable => Readable']_vars
  <2> SUFFICES ASSUME AloneInv, Alone, Alone', [Next]_vars, Readable
               PROVE  Readable'
    OBVIOUS
  <2>1. AloneInv'
    BY AloneStep
  <2>2. final' # None
    <3>1. ASSUME NEW w \in Writer, RemoveFinal(w)
          PROVE  FALSE
      BY <3>1 DEF RemoveFinal, AloneInv
    <3>2. ASSUME NEW w \in Writer, Create(w) \/ Fill(w) \/ Rename(w) \/ GiveUp(w) \/ Crash(w)
          PROVE  final' # None
      BY <3>2 DEF Create, Fill, Rename, GiveUp, Crash, Readable
    <3>3. CASE UNCHANGED vars
      BY <3>3 DEF vars, Readable
    <3>4. QED
      BY <3>1, <3>2, <3>3 DEF Next
  <2>3. QED
    BY <2>1, <2>2 DEF AloneInv, Readable
<1>4. QED
  BY <1>1, <1>2, <1>3, PTL DEF Spec, FileKept

=============================================================================
