----------------------------- MODULE ClonesInv -----------------------------
(***************************************************************************)
(* The inductive invariant of Clones: why every move of a ref is forward,  *)
(* although a merge compares hashes that it listed before, and why the     *)
(* order of compilation follows the history.  TLC checks it as an          *)
(* invariant; ClonesProofs proves that it is inductive.                    *)
(***************************************************************************)
EXTENDS Clones

\* A commit is made after its parents, the first alone has none; it reaches what
\* they reach, has a time after all of that, and no operation is written twice.
HistoryInv ==
  \A k \in 1..Len(commits) :
    /\ Range(Parents(k)) \subseteq 1..(k - 1) /\ IsInjective(Parents(k))
    /\ Parents(k) = <<>> <=> k = 1
    /\ commits[k].past = {k} \cup UNION {History(p) : p \in Range(Parents(k))}
    /\ \A h \in History(k) : h \in 1..k /\ History(h) \subseteq History(k)
    /\ \A h \in History(k) \ {k} : commits[h].edit < commits[k].edit
    /\ commits[k].op <= Written
    /\ \A l \in 1..Len(commits) :
         commits[k].op = commits[l].op /\ commits[k].op # Merge => k = l

\* No clock is ahead of what was written here and elsewhere, so that the latest
\* of some can be told; no commit is ahead of every clock.
ClockInv ==
  /\ \A c \in Clone : clock[c] <= MaxElsewhere + Len(commits) + 1
  /\ \A k \in 1..Len(commits) : \E c \in Clone : commits[k].edit <= clock[c]

\* What a clone knows of the remote is in the remote's history, and while it
\* merges its own ref stays where it was listed.
RefsInv ==
  \A c \in Clone :
    /\ tracking[c] \in History(origin) \cup {None}
    /\ IF merging[c]
       THEN listed[c].local = local[c] /\ listed[c].remote \in History(tracking[c])
       ELSE listed[c] = [local |-> None, remote |-> None]

\* Two clones have in common only what the remote has.
SharedInv ==
  \A c, d \in Clone : c # d => History(local[c]) \cap History(local[d]) \subseteq History(origin)

\* What a clone once fetched is comparable with its own ref, if the remote has
\* that: so a fast-forward decided on the tracking ref as it is now may be made to
\* the one that was listed.
Comparable(h, k) == h \in History(k) \cup {None} \/ k \in History(h) \cup {None}

ComparableInv ==
  \A c \in Clone :
    local[c] \in History(origin) =>
      Comparable(local[c], tracking[c]) /\ Comparable(local[c], listed[c].remote)

ClonesInvariant ==
  TypeOK /\ HistoryInv /\ ClockInv /\ RefsInv /\ SharedInv /\ ComparableInv
=============================================================================
