--------------------------- MODULE IdentitiesInv ---------------------------
(***************************************************************************)
(* The inductive invariant of Identities: why a merge is refused, and a    *)
(* version lost, only for an identity that several processes have for      *)
(* their runner.                                                           *)
(***************************************************************************)
EXTENDS Identities

\* Nobody's runner: an identity that a sync makes.
Made(i) == \A c \in Clone : Me[c] # i

\* A ref of a runner's identity is there from the start, and no identity is
\* made in its place.
RunnersThere == \A c \in Clone : remote[Me[c]] # <<>>

\* MergeAll merges what was fetched, and the remote has gone forward since, if
\* it has moved at all.
Fetched ==
    \A p \in Proc : Is(p, "merge") => \A i \in Identity : IsPrefix(view[p][i], remote[i])

\* An identity that a sync makes has one line, that of its first commit, where
\* it has any; and no process has read one that no repository has.
Refs(i) == {remote[i]} \cup {local[c][i] : c \in Clone}
Lines(i) == (Refs(i) \cup {view[p][i] : p \in Proc}) \ {<<>>}
MadeOnce ==
    \A i \in Identity : Made(i) =>
        /\ \A s, t \in Lines(i) : s = t
        /\ Refs(i) = {<<>>} => Lines(i) = {}

\* A sync tags its runner on top of what its clone has, unless another process
\* of the clone writes it too: Commit reads nothing again (README.md, section 4).
ReadHere ==
    \A p \in Proc :
        (Is(p, "setup") \/ Is(p, "sync")) =>
            Shared(Me[At[p]]) \/ view[p][Me[At[p]]] = local[At[p]][Me[At[p]]]

\* The one clone that writes an identity is ahead of the remote, and the remote
\* of every other clone.
Owns(c, i) ==
    /\ \A p \in Proc : Me[At[p]] = i => At[p] = c
    /\ IsPrefix(remote[i], local[c][i])
    /\ \A d \in Clone \ {c} : IsPrefix(local[d][i], remote[i])
OwnerAhead ==
    \A i \in Identity : Shared(i) \/ \E c \in Clone : Owns(c, i)

\* The invariant of the proofs: the types, what MergeAll and the syncs have
\* read, and whose line an identity is (entities/identity/identity_actions.go,
\* MergeAll; cache/identity_cache.go, Commit; jira/issue.go, ensureUsers).
IdentitiesInvariant ==
    /\ TypeOK
    /\ RunnersThere /\ Fetched /\ MadeOnce
    /\ ReadHere /\ OwnerAhead

\* An identity that a sync makes is never split, whatever else runs in a clone
\* (jira/issue.go, ensureUsers: the id is new).
MadeNeverSplit ==
    \A i \in Identity : Made(i) => \A c \in Clone : ~Apart(local[c][i], remote[i])

=============================================================================
