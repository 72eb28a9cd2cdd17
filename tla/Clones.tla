------------------------------- MODULE Clones -------------------------------
(***************************************************************************)
(* One issue in several clones of a repository that synchronise through a  *)
(* remote: entity/dag's commits, its reader, and the merge of MergeAll.    *)
(*                                                                         *)
(* Inside one clone the writers are the store of module Store: a write is  *)
(* one step here, a pack on top of the local ref, under the write lock.    *)
(* A commit hash is an index into commits, 0 the ref that does not exist;  *)
(* git hashes collide for nobody, and a commit is never changed.           *)
(***************************************************************************)
EXTENDS Integers, SequencesExt, FiniteSetsExt

CONSTANTS
  Clone,
  User,    \* the clones where a user identity is set
  MaxOps,  \* bound: operations written, one to a pack, numbered as written
  MaxElsewhere, \* bound: the time that edits of other issues bring a clock to
  MaxJump, \* how far a pack may be ahead of its parent: 1,000,000 in the code
  PackId   \* the id of an operation's pack, a hash: any order

Op == 1..MaxOps

ASSUME ClonesAssumption ==
  /\ MaxOps \in Nat /\ MaxElsewhere \in Nat /\ MaxJump \in Nat
  /\ User \subseteq Clone /\ "origin" \notin Clone
  /\ PackId \in [Op -> Nat]
  /\ \A o, p \in Op : o # p => PackId[o] # PackId[p]

VARIABLES
  commits,   \* the object store, shared: what a clone lacks it is sent
  local,     \* refs/work-issues/<id> of a clone
  tracking,  \* refs/remotes/origin/work-issues/<id> of a clone
  origin,    \* refs/work-issues/<id> of the remote
  clock,     \* a clone's edit clock, which its issues share
  merging,   \* whether a clone's MergeAll holds the write lock
  listed     \* the hashes that MergeAll listed

vars == <<commits, local, tracking, origin, clock, merging, listed>>

None == 0
Hash == 0..Len(commits)
Merge == 0   \* the operation of a merge commit: none

Init ==
  /\ commits = <<>>
  /\ local = [c \in Clone |-> None]
  /\ tracking = [c \in Clone |-> None]
  /\ origin = None
  /\ clock = [c \in Clone |-> 1]
  /\ merging = [c \in Clone |-> FALSE]
  /\ listed = [c \in Clone |-> [local |-> None, remote |-> None]]

Parents(h) == commits[h].parents

\* The commits git lists from a hash: a commit tells its whole history.
History(h) == IF h = None THEN {} ELSE commits[h].past

OpsAt(h) == {commits[k].op : k \in History(h)} \ {Merge}

----------------------------------------------------------------------------
\* Reading an issue (readAt).

\* F(x), of an x that is evaluated once.
With(F(_), x) == CHOOSE y \in {F(z) : z \in {x}} : TRUE

\* The state of a loop after n turns.
Turns(Turn(_), s, n) ==
  LET at[k \in 0..n] == IF k = 0 THEN s ELSE With(Turn, at[k - 1])
  IN at[n]

\* The members of S in a sequence, in their order.
Only(s, S) ==
  LET only[i \in 0..Len(s)] ==
        IF i = 0 THEN <<>>
        ELSE IF s[i] \in S THEN Append(only[i - 1], s[i]) ELSE only[i - 1]
  IN only[Len(s)]

\* The breadth-first walk from a head to the root.
WalkTurn(s) ==
  IF s.queue = <<>> THEN s
  ELSE LET h == Head(s.queue)
           new == Range(Parents(h)) \ s.visited
       IN [queue |-> Tail(s.queue) \o Only(Parents(h), new),
           visited |-> s.visited \cup new,
           order |-> Append(s.order, h)]

BFSOrder(head) ==
  Turns(WalkTurn, [queue |-> <<head>>, visited |-> {head}, order |-> <<>>], Len(commits)).order

\* Mistake: the walk reversed, taken for a topological order (before 7cb8b39).
ReversedOrder(walk) == Reverse(walk)

\* Kahn's algorithm over the walk, from its end.
Ready(h, order) ==
  {k \in 1..Len(commits) :
     h \in Range(Parents(k)) /\ Range(Parents(k)) \subseteq Range(order)}

SortTurn(s) ==
  IF s.queue = <<>> THEN s
  ELSE LET h == Head(s.queue)
           order == Append(s.order, h)
       IN [s EXCEPT !.queue = Tail(@) \o Only(s.back, Ready(h, order)), !.order = order]

Roots == {k \in 1..Len(commits) : Parents(k) = <<>>}

ParentsFirst(walk) ==
  Turns(SortTurn, [back |-> Reverse(walk), queue |-> Only(Reverse(walk), Roots), order |-> <<>>],
        Len(commits)).order

\* The commits of an issue in the order they are checked.
ReadOrder(head) == With(ParentsFirst, BFSOrder(head))

\* Mistake: a merge commit is held to the same distance.
JumpsOrJoins(k) ==
  \E p \in Range(Parents(k)) : commits[k].edit - commits[p].edit > MaxJump

\* Too far ahead of its parent in Lamport time. Merge commits may be.
Jumps(k) ==
  /\ Len(Parents(k)) <= 1
  /\ \E p \in Range(Parents(k)) : commits[k].edit - commits[p].edit > MaxJump

\* The checks of readAt: the root first and alone, each commit after its
\* parents (else the reader panics), later than them and not too far.
Accepted(order) ==
  \A i \in 1..Len(order) :
    /\ i = 1 <=> Parents(order[i]) = <<>>
    /\ \A p \in Range(Parents(order[i])) :
         /\ \E j \in 1..(i - 1) : order[j] = p
         /\ commits[p].edit < commits[order[i]].edit
    /\ ~Jumps(order[i])

Accepts(head) == With(Accepted, ReadOrder(head))

\* The packs that are compiled, and which goes before which: by edit time, and
\* by their ids when two have the same.
Packs(head) == {k \in History(head) : commits[k].op # Merge}

CompiledBefore(k, l) ==
  \/ commits[k].edit < commits[l].edit
  \/ commits[k].edit = commits[l].edit /\ PackId[commits[k].op] < PackId[commits[l].op]

\* Mistake: reading does not witness.
NotWitnessed(c, heads) == clock[c]

\* The clock once every pack read from these heads is witnessed.
Witnessed(c, heads) ==
  LET read == UNION {History(h) : h \in heads} IN
  Max({clock[c]} \cup {commits[k].edit : k \in read})

----------------------------------------------------------------------------
\* A commit on top of its parents.
Commit(parents, op, t) ==
  [parents |-> parents, op |-> op, edit |-> t,
   past |-> {Len(commits) + 1} \cup UNION {History(p) : p \in Range(parents)}]

Written == Cardinality({k \in 1..Len(commits) : commits[k].op # Merge})

\* Mistake: MergeAll does not exclude the other writers of its clone.
WriteDuringMerge(c) ==
  /\ Written < MaxOps
  /\ IF local[c] = None THEN commits = <<>> ELSE Accepts(local[c])
  /\ LET t == Witnessed(c, {local[c]}) + 1 IN
     /\ commits' = Append(commits,
          Commit(IF local[c] = None THEN <<>> ELSE <<local[c]>>, Written + 1, t))
     /\ clock' = [clock EXCEPT ![c] = t]
  /\ local' = [local EXCEPT ![c] = Len(commits')]
  /\ UNCHANGED <<tracking, origin, merging, listed>>

\* A write of the store: reload, one pack, the ref. The issue is created once.
\* The pack's time is not checked against its parent's.
Write(c) ==
  /\ ~merging[c]
  /\ Written < MaxOps
  /\ IF local[c] = None THEN commits = <<>> ELSE Accepts(local[c])
  /\ LET t == Witnessed(c, {local[c]}) + 1 IN
     /\ commits' = Append(commits,
          Commit(IF local[c] = None THEN <<>> ELSE <<local[c]>>, Written + 1, t))
     /\ clock' = [clock EXCEPT ![c] = t]
  /\ local' = [local EXCEPT ![c] = Len(commits')]
  /\ UNCHANGED <<tracking, origin, merging, listed>>

\* Other issues of the clone are written, or read after a fetch: all issues
\* have one edit clock.
Elsewhere(c) ==
  /\ \E t \in (clock[c] + 1)..MaxElsewhere : clock' = [clock EXCEPT ![c] = t]
  /\ UNCHANGED <<commits, local, tracking, origin, merging, listed>>

\* Mistake: a fetch that only creates tracking refs.
FetchOnce(c) ==
  /\ tracking[c] = None
  /\ tracking' = [tracking EXCEPT ![c] = origin]
  /\ UNCHANGED <<commits, local, origin, clock, merging, listed>>

\* FetchRefs: not forced, a remote that is not ahead is an error.
Fetch(c) ==
  /\ tracking[c] \in History(origin) \cup {None}
  /\ tracking' = [tracking EXCEPT ![c] = origin]
  /\ UNCHANGED <<commits, local, origin, clock, merging, listed>>

\* PushRefs: the remote refuses what is not a fast-forward. The tracking ref
\* is written afterwards, unless the answer is lost.
Push(c) ==
  /\ local[c] # None
  /\ origin \in History(local[c]) \cup {None}
  /\ origin' = local[c]
  /\ \/ tracking' = [tracking EXCEPT ![c] = local[c]]
     \/ UNCHANGED tracking
  /\ UNCHANGED <<commits, local, clock, merging, listed>>

----------------------------------------------------------------------------
\* MergeAll, under the write lock.

\* One pass over each side's refs. Readers of the network take no lock: the
\* tracking ref may move after it.
MergeList(c) ==
  /\ ~merging[c]
  /\ tracking[c] # None
  /\ merging' = [merging EXCEPT ![c] = TRUE]
  /\ listed' = [listed EXCEPT ![c] = [local |-> local[c], remote |-> tracking[c]]]
  /\ UNCHANGED <<commits, local, tracking, origin, clock>>

\* The issue's turn: the remote's is read and its clocks witnessed, before
\* anything is compared.
Merges(c) == merging[c] /\ Accepts(listed[c].remote)

MergeDone(c) ==
  /\ merging' = [merging EXCEPT ![c] = FALSE]
  /\ listed' = [listed EXCEPT ![c] = [local |-> None, remote |-> None]]
  /\ UNCHANGED <<tracking, origin>>

\* One that cannot be read is reported, not merged.
MergeInvalid(c) ==
  /\ merging[c]
  /\ ~Accepts(listed[c].remote)
  /\ MergeDone(c)
  /\ UNCHANGED <<commits, local, clock>>

\* Scenario 1: the issue is not local yet.
MergeNew(c) ==
  /\ listed[c].local = None
  /\ local' = [local EXCEPT ![c] = listed[c].remote]
  /\ clock' = [clock EXCEPT ![c] = Witnessed(c, {listed[c].remote})]
  /\ MergeDone(c)
  /\ UNCHANGED commits

\* Scenarios 2 and 3: nothing the clone does not have.
MergeNothing(c) ==
  /\ listed[c].remote \in History(local[c])
  /\ clock' = [clock EXCEPT ![c] = Witnessed(c, {listed[c].remote})]
  /\ MergeDone(c)
  /\ UNCHANGED <<commits, local>>

\* Scenario 4: a fast-forward, decided on the tracking ref as it is now.
MergeForward(c) ==
  /\ listed[c].local # None
  /\ listed[c].remote \notin History(local[c])
  /\ listed[c].local \in History(tracking[c])
  /\ local' = [local EXCEPT ![c] = listed[c].remote]
  /\ clock' = [clock EXCEPT ![c] = Witnessed(c, {listed[c].remote})]
  /\ MergeDone(c)
  /\ UNCHANGED commits

Diverged(c) ==
  /\ listed[c].local # None
  /\ listed[c].remote \notin History(local[c])
  /\ listed[c].local \notin History(tracking[c])

\* Scenario 5 without a user identity is an error, and so is a local issue that
\* cannot be read.
MergeError(c) ==
  /\ Diverged(c)
  /\ c \notin User \/ ~Accepts(listed[c].local)
  /\ clock' = [clock EXCEPT ![c] = Witnessed(c, {listed[c].remote})]
  /\ MergeDone(c)
  /\ UNCHANGED <<commits, local>>

\* Scenario 5: an empty pack joins both histories.
MergeJoin(c) ==
  /\ Diverged(c)
  /\ c \in User
  /\ Accepts(listed[c].local)
  /\ LET t == Witnessed(c, {listed[c].local, listed[c].remote}) + 1 IN
     /\ commits' = Append(commits, Commit(<<listed[c].local, listed[c].remote>>, Merge, t))
     /\ clock' = [clock EXCEPT ![c] = t]
  /\ local' = [local EXCEPT ![c] = Len(commits')]
  /\ MergeDone(c)

----------------------------------------------------------------------------
MergeOne(c) ==
  \/ MergeInvalid(c)
  \/ /\ Merges(c)
     /\ MergeNew(c) \/ MergeNothing(c) \/ MergeForward(c) \/ MergeError(c) \/ MergeJoin(c)

Next ==
  \E c \in Clone :
    \/ Write(c)
    \/ Elsewhere(c)
    \/ Fetch(c)
    \/ Push(c)
    \/ MergeList(c)
    \/ MergeOne(c)

Spec == Init /\ [][Next]_vars

\* A clone that keeps pulling and pushing; an answer lost once is not lost for
\* ever, and nobody is obliged to write.
FairSpec ==
  /\ Spec
  /\ \A c \in Clone : WF_vars(Fetch(c)) /\ WF_vars(MergeList(c))
                     /\ WF_vars(MergeOne(c)) /\ WF_vars(Push(c))

----------------------------------------------------------------------------
TypeOK ==
  /\ commits \in Seq([parents : Seq(Nat), op : Op \cup {Merge}, edit : Nat,
                      past : SUBSET Nat])
  /\ local \in [Clone -> Hash]
  /\ tracking \in [Clone -> Hash]
  /\ origin \in Hash
  /\ clock \in [Clone -> Nat]
  /\ merging \in [Clone -> BOOLEAN]
  /\ listed \in [Clone -> [local : Hash, remote : Hash]]

\* Whatever histories the clones join, readAt's order has every commit of the
\* history once and every parent before its child ("DFS failed",
\* dag-read-order.md), and the clocks match the history: a clone can read what
\* it has and what the remote offers, unless a pack jumps ahead of its parent.
Heads == ({origin} \cup {local[c] : c \in Clone}) \ {None}
Readable ==
  \A h \in Heads :
    \E order \in {ReadOrder(h)} :
      /\ IsInjective(order) /\ Range(order) = History(h)
      /\ Accepted(order) <=> \A k \in History(h) : ~Jumps(k)

\* A pull makes no issue unreadable, however long the two sides were apart: what
\* a clone cannot read of its own it wrote itself.
PullsReadable ==
  [][\A c \in Clone, h \in Hash' :
       merging[c] /\ h # local[c] /\ h = local'[c] => Accepts(h)']_vars

\* The order of compilation ignores the history, and yet an operation is never
\* compiled before one its author had seen: what was written about a value is
\* applied after the value.
CausalOrder ==
  \A c \in Clone : \A k, l \in Packs(local[c]) :
    k # l /\ k \in History(l) => CompiledBefore(k, l)

(***************************************************************************)
(* The clones implement the gossip of module Gossip: no write, push, pull  *)
(* or merge, in any order, makes a clone or the remote forget an operation.*)
(***************************************************************************)
Replica == Clone \cup {"origin"}
Knows == [r \in Replica |-> IF r = "origin" THEN OpsAt(origin) ELSE OpsAt(local[r])]

Known == INSTANCE Gossip WITH known <- Knows

\* Merges overwrite refs unconditionally on what was listed before; no
\* operation is forgotten, and none appears that nobody wrote.
NothingForgotten == Known!Spec

\* Clones that keep synchronising settle on one history, and stay there: the
\* merge commits they answer each other with come to an end.
Converge ==
  [](\A h \in Heads : Accepts(h)) => <>[](\A c, d \in Clone : local[c] = local[d])
=============================================================================
