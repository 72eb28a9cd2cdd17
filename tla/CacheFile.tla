------------------------------ MODULE CacheFile ------------------------------
(***************************************************************************)
(* How the cache file is replaced (SubCache.write): a sibling is created,  *)
(* filled and renamed over the file.  Load, Refresh and a staged edit do   *)
(* so with no lock that other processes know of, and the sibling has one   *)
(* name.  What a writer writes is told by who writes it.                   *)
(***************************************************************************)
EXTENDS Integers, FiniteSets, FiniteSetsExt

CONSTANTS
  Writer,     \* processes, finitely many
  MaxFaults,  \* bound: crashes
  None

VARIABLES
  final,  \* cache/<namespace>: an inode, None when there is no file
  tmp,    \* cache/<namespace>.new
  data,   \* whose page an inode holds, None when it is truncated
  fd,     \* the inode that a writer has open
  pc,
  faults

vars == <<final, tmp, data, fd, pc, faults>>

\* One for each writer, one for the file, one for the sibling.
Inode == 1..(Cardinality(Writer) + 2)
Used == {final, tmp} \cup {fd[w] : w \in Writer}

Init ==
  /\ final = None
  /\ tmp = None
  /\ data = [i \in Inode |-> None]
  /\ fd = [w \in Writer |-> None]
  /\ pc = [w \in Writer |-> "idle"]
  /\ faults = 0

\* Create: the file of that name is truncated, whoever is filling it.
Create(w) ==
  LET i == IF tmp = None THEN Min(Inode \ Used) ELSE tmp IN
  /\ pc[w] = "idle"
  /\ tmp' = i
  /\ data' = [data EXCEPT ![i] = None]
  /\ fd' = [fd EXCEPT ![w] = i]
  /\ pc' = [pc EXCEPT ![w] = "created"]
  /\ UNCHANGED <<final, faults>>

\* Write and Close go to the inode, whatever its name is by now.
Fill(w) ==
  /\ pc[w] = "created"
  /\ data' = [data EXCEPT ![fd[w]] = w]
  /\ fd' = [fd EXCEPT ![w] = None]
  /\ pc' = [pc EXCEPT ![w] = "filled"]
  /\ UNCHANGED <<final, tmp, faults>>

\* The first Rename, or the second, of whatever has the sibling's name.
Rename(w) ==
  /\ pc[w] \in {"filled", "retry"}
  /\ tmp # None
  /\ final' = tmp
  /\ tmp' = None
  /\ pc' = [pc EXCEPT ![w] = "idle"]
  /\ UNCHANGED <<data, fd, faults>>

\* Another renamed it first. The fallback, meant for a system that does not
\* replace a file, removes the file.
RemoveFinal(w) ==
  /\ pc[w] = "filled"
  /\ tmp = None
  /\ final' = None
  /\ pc' = [pc EXCEPT ![w] = "retry"]
  /\ UNCHANGED <<tmp, data, fd, faults>>

\* The second Rename fails too, and write returns the error.
GiveUp(w) ==
  /\ pc[w] = "retry"
  /\ tmp = None
  /\ pc' = [pc EXCEPT ![w] = "idle"]
  /\ UNCHANGED <<final, tmp, data, fd, faults>>

\* The process ends; the files stay as they are.
Crash(w) ==
  /\ pc[w] # "idle"
  /\ faults < MaxFaults
  /\ faults' = faults + 1
  /\ fd' = [fd EXCEPT ![w] = None]
  /\ pc' = [pc EXCEPT ![w] = "idle"]
  /\ UNCHANGED <<final, tmp, data>>

Next ==
  \E w \in Writer :
    \/ Create(w) \/ Fill(w) \/ Rename(w) \/ RemoveFinal(w) \/ GiveUp(w)
    \/ Crash(w)

Spec == Init /\ [][Next]_vars

----------------------------------------------------------------------------
\* A file that could be read stays one that can be read: "two processes racing
\* here both write a coherent file and the rename picks one", and a crash
\* "leaves the previous cache intact".
Readable == final # None /\ data[final] # None
FileKept == [][Readable => Readable']_vars
=============================================================================
