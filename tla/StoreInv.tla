----------------------------- MODULE StoreInv -----------------------------
(***************************************************************************)
(* The inductive invariant of Store.  IInv is about control: why the refs  *)
(* only move forward.  DataInv is about the operations: where they are,    *)
(* between the call that builds them and the ref.  TLC checks both as an   *)
(* invariant; StoreProofs proves that they are inductive.                  *)
(***************************************************************************)
EXTENDS Store

\* The issue and the process of the instance w works on.
IssueAt(w) == IssueOf[cur[w]]

\* An entity that newRaw builds and that has no ref yet.
Building(w) == call[w] = "new" /\ pc[w] \in {"waiting", "writing"}

\* A worker inside a call has an instance of its own process, which nobody
\* else has while newRaw builds it.
CallInv(w) ==
  /\ pc[w] = "idle" => cur[w] = None
  /\ pc[w] # "idle" => cur[w] \in Inst /\ ProcOf[cur[w]] = ProcOf[w]
  /\ call[w] = "none" <=> pc[w] \in {"idle", "holding"}
  /\ pc[w] = "planned" => call[w] = "update"
  /\ pc[w] \in {"writing", "committed"} => call[w] # "remove"
  /\ call[w] = "new" => /\ pc[w] \in {"waiting", "writing", "committed"}
                        /\ cur[w] \notin live
                        /\ \A v \in Worker : cur[v] = cur[w] => v = w
  /\ pc[w] # "idle" /\ call[w] # "new" => cur[w] \in live

\* Only the holder of the write lock is inside it.
LockInv(w) ==
  /\ pc[w] \in {"locked", "planned", "writing"} => lock = w
  /\ pc[w] = "committed" /\ call[w] # "new" => lock = w

\* What the holder read is still the tip, and what it adds is on top of it.
TipInv(w) ==
  /\ pc[w] = "planned" => /\ ref[IssueAt(w)] # {}
                          /\ base[cur[w]] = ref[IssueAt(w)]
  /\ pc[w] = "writing" /\ call[w] # "new" => /\ ref[IssueAt(w)] # {}
                                             /\ ref[IssueAt(w)] \subseteq base[cur[w]]

\* An issue being built is known to its builder alone.
NewInv(w) ==
  Building(w) =>
    /\ ref[IssueAt(w)] = {}
    /\ IssueAt(w) \notin removed
    /\ \E b \in Batch : home[b] = IssueAt(w)
    /\ \A y \in live : IssueOf[y] # IssueAt(w)
    /\ \A v \in Worker : call[v] = "new" /\ IssueAt(v) = IssueAt(w) => v = w

\* Whatever exists of an issue, some batch was built for it.
HomeInv ==
  /\ \A i \in Issue : ref[i] # {} \/ i \in removed => \E b \in Batch : home[b] = i
  /\ \A x \in live : \E b \in Batch : home[b] = IssueOf[x]
  /\ \A w \in Worker : call[w] = "new" => \E b \in Batch : home[b] = IssueAt(w)

\* The inductive invariant.
IInv ==
  /\ TypeOK
  /\ \A w \in Worker : CallInv(w) /\ LockInv(w) /\ TipInv(w) /\ NewInv(w)
  /\ HomeInv
  /\ RemovedForGood

-----------------------------------------------------------------------------
(* Where the operations are.                                               *)

\* Operations that make up whole batches, all built for issue i.
Whole(ops, i) ==
  \A o \in ops : \E b \in Batch :
    o \in Range(b) /\ home[b] = i /\ Range(b) \subseteq ops

\* An operation is staged on one instance, or readable, or neither; and its
\* whole batch with it.
PlaceInv ==
  /\ \A i \in Issue : Whole(OpsOf(ref[i]), i)
  /\ \A x \in Inst : /\ Whole(Range(staged[x]), IssueOf[x])
                     /\ IsInjective(staged[x])
                     /\ Range(staged[x]) \cap OpsOf(ref[IssueOf[x]]) = {}
                     /\ x \notin live => staged[x] = <<>>
  /\ \A x, y \in Inst : x # y => Range(staged[x]) \cap Range(staged[y]) = {}

\* The batch can be read, or went with its issue.
Saved(b) == Durable(b) \/ home[b] \in removed

\* The batches whose fate a worker does not know: each is its alone, and is
\* saved, or staged on the worker's instance, or what newRaw is building.
MineInv(w) ==
  /\ pc[w] = "idle" => mine[w] = {}
  /\ \A b \in mine[w] :
       /\ home[b] = IssueAt(w)
       /\ reply[b] # "acked"
       /\ \/ Saved(b)
          \/ Building(w)
          \/ call[w] # "new" /\ pc[w] # "committed" /\ Range(b) \subseteq Range(staged[cur[w]])
  /\ \A v \in Worker : v # w => mine[v] \cap mine[w] = {}

\* newRaw builds one batch, and has written none of it before it has the lock.
BuildInv(w) ==
  Building(w) => \E b \in Batch :
    /\ mine[w] = {b}
    /\ pc[w] = "waiting" => base[cur[w]] = {} /\ pending[cur[w]] = b

\* What the commit that w is in is to make readable.
Saving(w) ==
  IF call[w] = "new" THEN UNION {Range(b) : b \in mine[w]} ELSE Range(staged[cur[w]])

\* The packs written so far and what is left to write are the tip and what is
\* to be saved, with no operation twice; nobody stages in between.
WriteInv(w) ==
  /\ pc[w] = "planned" => pending[cur[w]] = staged[cur[w]]
  /\ pc[w] = "writing" =>
       LET x == cur[w]
           i == IssueAt(w)
       IN  /\ mu[x] = w
           /\ Saving(w) # {}
           /\ IsInjective(pending[x])
           /\ OpsOf(base[x]) \cap Range(pending[x]) = {}
           /\ OpsOf(base[x]) \cup Range(pending[x]) = OpsOf(ref[i]) \cup Saving(w)
           /\ \A p \in base[x] \ ref[i] : p.ops \subseteq Saving(w)
           /\ \A p, q \in base[x] : p # q => p.ops \cap q.ops = {}

DataInv ==
  /\ PlaceInv
  /\ \A w \in Worker : MineInv(w) /\ BuildInv(w) /\ WriteInv(w)
  /\ CommittedOnce
  /\ AckedDurable /\ NothingMeansDurable /\ NoSilentDrop

-----------------------------------------------------------------------------
(* Lamport times.                                                          *)

\* No two packs of a history share a time.
TimesDiffer(head) == \A p, q \in head : p # q => p.edit # q.edit

\* What is later than every pack of a history.
TimesFollow(new, old) == \A p \in new \ old, q \in old : q.edit < p.edit

\* The packs that w read and wrote are not after the clock of its process, and
\* those that it wrote are after the tip.
ClockInv(w) ==
  pc[w] \in {"planned", "writing"} =>
    /\ \A p \in base[cur[w]] : p.edit <= mem[ProcOf[w]]
    /\ TimesDiffer(base[cur[w]])
    /\ TimesFollow(base[cur[w]], ref[IssueAt(w)])

TimeInv ==
  /\ \A i \in Issue : TimesDiffer(ref[i])
  /\ \A w \in Worker : ClockInv(w)

\* The whole inductive invariant.
StoreInvariant == IInv /\ DataInv /\ TimeInv
=============================================================================
