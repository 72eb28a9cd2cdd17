----------------------------- MODULE Identities -----------------------------
(***************************************************************************)
(* Identities in several clones of a repository that synchronise through a *)
(* remote.  An identity is a line of versions, and a ref its last commit;  *)
(* MergeAll takes an identity forward or refuses (entities/identity).  The *)
(* Jira sync writes them (jira/engine.go, jira/issue.go): it tags the      *)
(* runner's own identity with the runner's Jira account, and makes an      *)
(* identity for every other account that it meets.                         *)
(*                                                                         *)
(* A commit hash determines its history: a ref is the sequence of versions *)
(* it reaches, <<>> the ref that does not exist.                           *)
(***************************************************************************)
EXTENDS Integers, SequencesExt, FiniteSetsExt

CONSTANTS
    Clone,
    Proc,          \* the processes, each a command after another
    At,            \* the clone that each works in
    Identity,      \* ids, numbers: they order the refs
    Me,            \* a clone's user identity; two clones of a person share it
    Account,       \* Jira accounts
    Mine,          \* the account of a clone's token
    MaxVersions,   \* bound: versions written
    MaxCrashes     \* bound

ASSUME IdentitiesAssumption ==
    /\ Clone # {} /\ Identity \subseteq Nat \ {0} /\ IsFiniteSet(Identity)
    /\ At \in [Proc -> Clone]
    /\ Me \in [Clone -> Identity] /\ Mine \in [Clone -> Account]
    /\ MaxVersions \in Nat /\ MaxCrashes \in Nat /\ 0 \notin Account

VARIABLES
    local,      \* refs/work-users/<id> of a clone
    remote,     \* refs/work-users/<id> of the remote
    view,       \* the identities that a process has read: from the local refs
                \* in a sync, from the tracking refs in MergeAll
    run,        \* what a process is at
    made,       \* versions written
    left        \* crashes left

vars == <<local, remote, view, run, made, left>>

\* A version, told apart by a number, and the account in its metadata.
NoAccount == 0
Version == [n : 0..MaxVersions, account : Account \cup {NoAccount}]

\* What a process is at: nothing; a sync that has read its cache; a sync whose
\* runner is settled; MergeAll, with the ids still to come.
Idle == [at |-> "idle", ids |-> {}]
Runs == [at : {"idle", "setup", "sync", "merge"}, ids : SUBSET Identity]

TypeOK ==
    /\ local \in [Clone -> [Identity -> Seq(Version)]]
    /\ remote \in [Identity -> Seq(Version)]
    /\ view \in [Proc -> [Identity -> Seq(Version)]]
    /\ run \in [Proc -> Runs]
    /\ \A p \in Proc : run[p].at = "idle" => run[p] = Idle /\ \A i \in Identity : view[p][i] = <<>>
    /\ made \in 0..MaxVersions /\ left \in 0..MaxCrashes

-----------------------------------------------------------------------------
(* Writing: a command that syncs with Jira.                                *)

Is(p, step) == run[p].at = step
To(p, step) == run' = [run EXCEPT ![p] = [at |-> step, ids |-> {}]]

Unread == [i \in Identity |-> <<>>]

\* A command ends, and what it had read goes.
End(p) == run' = [run EXCEPT ![p] = Idle] /\ view' = [view EXCEPT ![p] = Unread]

\* MergeAll holds the write lock while it merges.
Locked(c) == \E p \in Proc : At[p] = c /\ Is(p, "merge")

\* The cache is loaded, and read again when a ref has moved since.
StartSync(p) ==
    /\ Is(p, "idle") /\ To(p, "setup")
    /\ view' = [view EXCEPT ![p] = local[At[p]]]
    /\ UNCHANGED <<local, remote, made, left>>

\* The account of an identity is the first that its versions name
\* (ImmutableMetadata).
AccountOf(line) ==
    LET naming == {k \in DOMAIN line : line[k].account # NoAccount}
    IN  IF naming = {} THEN NoAccount ELSE line[Min(naming)].account

\* The identities that carry an account (NewIndex).
Carrying(ids, a) == {i \in Identity : AccountOf(ids[i]) = a}

\* Commit: the version goes on top of what the process has, and the ref is set
\* to it.
Commit(p, i, a) ==
    /\ ~Locked(At[p]) /\ made < MaxVersions
    /\ made' = made + 1
    /\ LET line == Append(view[p][i], [n |-> made + 1, account |-> a])
       IN  /\ view' = [view EXCEPT ![p][i] = line]
           /\ local' = [local EXCEPT ![At[p]][i] = line]

\* setup: the token's account is the runner's, unless an identity has it.
TagRunner(p) ==
    /\ Is(p, "setup") /\ view[p][Me[At[p]]] # <<>>
    /\ Carrying(view[p], Mine[At[p]]) = {}
    /\ Commit(p, Me[At[p]], Mine[At[p]]) /\ To(p, "sync")
    /\ UNCHANGED <<remote, left>>

RunnerTagged(p) ==
    /\ Is(p, "setup") /\ Carrying(view[p], Mine[At[p]]) # {}
    /\ To(p, "sync")
    /\ UNCHANGED <<local, remote, view, made, left>>

\* Mistake: an account is given to an identity that is there (of its name, say).
EnsureUserTagging(p, i, a) ==
    /\ Is(p, "sync") /\ Carrying(view[p], a) = {}
    /\ AccountOf(view[p][i]) = NoAccount
    /\ Commit(p, i, a)
    /\ UNCHANGED <<remote, run, left>>

\* ensureUsers: an account that no identity carries gets one, with a new id.
EnsureUser(p, i, a) ==
    /\ Is(p, "sync") /\ Carrying(view[p], a) = {}
    /\ remote[i] = <<>> /\ \A c \in Clone : local[c][i] = <<>>
    /\ Commit(p, i, a)
    /\ UNCHANGED <<remote, run, left>>

EndSync(p) ==
    /\ Is(p, "setup") \/ Is(p, "sync")
    /\ End(p)
    /\ UNCHANGED <<local, remote, made, left>>

-----------------------------------------------------------------------------
(* Commands that pull and push.                                            *)

\* Fetch, then MergeAll takes the lock and lists what was fetched.
Pull(p) ==
    /\ Is(p, "idle") /\ ~Locked(At[p])
    /\ view' = [view EXCEPT ![p] = remote]
    /\ run' = [run EXCEPT ![p] = [at |-> "merge", ids |-> {i \in Identity : remote[i] # <<>>}]]
    /\ UNCHANGED <<local, remote, made, left>>

\* The identity that is merged now.
Merging(p, i) == Is(p, "merge") /\ i \in run[p].ids /\ \A j \in run[p].ids : i <= j
Merged(p, i) == run' = [run EXCEPT ![p].ids = @ \ {i}]

\* A ref that is new here is copied; one that is behind goes forward.
MergeForward(p, i) ==
    /\ Merging(p, i) /\ IsStrictPrefix(local[At[p]][i], view[p][i])
    /\ local' = [local EXCEPT ![At[p]][i] = view[p][i]]
    /\ Merged(p, i)
    /\ UNCHANGED <<remote, view, made, left>>

\* Nothing to do here.
MergeNothing(p, i) ==
    /\ Merging(p, i) /\ IsPrefix(view[p][i], local[At[p]][i])
    /\ Merged(p, i)
    /\ UNCHANGED <<local, remote, view, made, left>>

Apart(s, t) == ~IsPrefix(s, t) /\ ~IsPrefix(t, s)

\* Mistake: a ref that is behind is refused like one that is apart.
MergeRefusedBehind(p, i) ==
    /\ Merging(p, i) /\ ~IsPrefix(view[p][i], local[At[p]][i])
    /\ End(p)
    /\ UNCHANGED <<local, remote, made, left>>

\* Not a fast-forward: refused, and MergeAll of the identities ends.
MergeRefused(p, i) ==
    /\ Merging(p, i) /\ Apart(local[At[p]][i], view[p][i])
    /\ End(p)
    /\ UNCHANGED <<local, remote, made, left>>

MergeDone(p) ==
    /\ Is(p, "merge") /\ run[p].ids = {}
    /\ End(p)
    /\ UNCHANGED <<local, remote, made, left>>

\* Mistake: refs are pushed with force.
AcceptedForced(c) ==
    [i \in Identity |-> IF local[c][i] # <<>> THEN local[c][i] ELSE remote[i]]

\* The refs that the remote accepts, each by itself.
Accepted(c) ==
    [i \in Identity |-> IF IsPrefix(remote[i], local[c][i]) THEN local[c][i] ELSE remote[i]]

Push(p) ==
    /\ Is(p, "idle")
    /\ remote' = Accepted(At[p])
    /\ UNCHANGED <<local, view, run, made, left>>

\* A process dies during MergeAll; the kernel frees the lock.  A sync that dies
\* ends like any other.
Crash(p) ==
    /\ Is(p, "merge") /\ left > 0 /\ left' = left - 1
    /\ End(p)
    /\ UNCHANGED <<local, remote, made>>

-----------------------------------------------------------------------------
\* What is exchanged at first: the user identities, with no account yet.
Start == [i \in Identity |-> IF \E c \in Clone : Me[c] = i THEN <<[n |-> 0, account |-> NoAccount]>> ELSE <<>>]

Init ==
    /\ local = [c \in Clone |-> Start] /\ remote = Start
    /\ view = [p \in Proc |-> Unread]
    /\ run = [p \in Proc |-> Idle]
    /\ made = 0 /\ left = MaxCrashes

Sync(p) ==
    \/ StartSync(p)
    \/ TagRunner(p) \/ RunnerTagged(p)
    \/ \E i \in Identity, a \in Account : EnsureUser(p, i, a)

MergeStep(p) ==
    \/ \E i \in Identity : MergeForward(p, i) \/ MergeNothing(p, i) \/ MergeRefused(p, i)
    \/ MergeDone(p)

Next == \E p \in Proc : Sync(p) \/ EndSync(p) \/ Pull(p) \/ MergeStep(p) \/ Push(p) \/ Crash(p)

Spec == Init /\ [][Next]_vars

\* Every command ends, and someone in each clone keeps pulling and pushing.
In(c) == {p \in Proc : At[p] = c}
FairSpec ==
    /\ Spec
    /\ \A p \in Proc : WF_vars(EndSync(p)) /\ WF_vars(MergeStep(p))
    /\ \A c \in Clone : /\ SF_vars(\E p \in In(c) : Pull(p))
                        /\ SF_vars(\E p \in In(c) : Push(p))

-----------------------------------------------------------------------------
(* Properties.                                                             *)

\* An identity is split, into lines that no merge joins, only where two
\* processes, of one clone or of two, have it for their runner; one that a sync
\* makes, or the runner of one process, is never, whoever pulls and pushes it
\* (entities/identity/identity.go, Merge: "an Identity should be tied to a
\* single user").
Shared(i) == \E p, q \in Proc : p # q /\ Me[At[p]] = i /\ Me[At[q]] = i
PartsOnlyShared ==
    \A i \in Identity, c \in Clone : Apart(local[c][i], remote[i]) => Shared(i)

\* An identity reaches every clone in the end, unless it or one before it in
\* the order of ids is split (entities/identity/identity_actions.go, MergeAll
\* returns at the first that it cannot merge).
Whole(i) == \A c \in Clone : ~Apart(local[c][i], remote[i])
Arrives ==
    \A i \in Identity :
        <>[](\A j \in Identity : j <= i => Whole(j)) => <>[](\A c \in Clone : local[c][i] = remote[i])

\* A version comes off a ref only where a process tags the runner's identity
\* over what another of its clone has written since, and then the identity
\* carries an account all the same (cache/identity_cache.go, Commit takes the
\* lock and reads nothing again).
Named(line) == \E k \in DOMAIN line : line[k].account # NoAccount
LostOnlyToTag ==
    [][\A c \in Clone, i \in Identity :
         IsPrefix(local[c][i], local'[c][i]) \/ (Me[c] = i /\ Shared(i) /\ Named(local'[c][i]))]_vars

\* A commit never drops a version that the ref has (doc/design/concurrent-store.md,
\* D2: "nothing is overwritten").
NothingOverwritten ==
    [][\A c \in Clone, i \in Identity : IsPrefix(local[c][i], local'[c][i])]_vars

\* Clones come to agree (doc/design/jira-sync.md, JS3: "two bound clones
\* converge").
Converge == <>[](\A i \in Identity, c \in Clone : local[c][i] = remote[i])

=============================================================================
