-------------------------- MODULE JiraCreateProofs --------------------------
(***************************************************************************)
(* Proofs about JiraCreate, for any number of clones, any bounds and any   *)
(* delays that the settling covers: no run that knows of an attempt makes  *)
(* a second Jira issue, unless a later attempt hides it.  And for two      *)
(* clones: of the local issues that stand for one Jira issue, one is kept. *)
(***************************************************************************)
EXTENDS JiraCreateInv, FiniteSetTheorems, WellFoundedInduction, TLAPS

USE CreateAssumption DEF Remote

-----------------------------------------------------------------------------
(* Least and greatest numbers.                                             *)

\* A set of numbers that is not empty has a least one.
LEMMA LeastOf ==
  ASSUME NEW S \in SUBSET Nat, S # {}
  PROVE  Min(S) \in S /\ \A x \in S : Min(S) <= x
<1>1. PICK b \in S : TRUE
  OBVIOUS
<1> DEFINE T == {0..x : x \in S \cap (0..b)}
<1>2. T \in SUBSET FiniteSubsetsOf(0..b) /\ T # {}
  <2>1. ASSUME NEW x \in S \cap (0..b)
        PROVE  0..x \in FiniteSubsetsOf(0..b)
    <3>1. IsFiniteSet(0..x) /\ 0..x \subseteq 0..b
      BY FS_Interval
    <3>2. QED
      BY <3>1 DEF FiniteSubsetsOf
  <2>2. b \in S \cap (0..b)
    BY <1>1
  <2>3. QED
    BY <2>1, <2>2
<1>3. PICK m \in S \cap (0..b) : \A x \in S \cap (0..b) : <<0..x, 0..m>> \notin StrictSubsetOrdering(0..b)
  <2>1. IsFiniteSet(0..b)
    BY FS_Interval
  <2>2. IsWellFoundedOn(StrictSubsetOrdering(0..b), FiniteSubsetsOf(0..b))
    BY <2>1, FS_StrictSubsetOrderingWellFounded
  <2>3. PICK I \in T : \A J \in T : <<J, I>> \notin StrictSubsetOrdering(0..b)
    BY <1>2, <2>2, WFMin
  <2>4. QED
    BY <2>3
<1>4. ASSUME NEW x \in S
      PROVE  m <= x
  <2>1. CASE x < m
    <3>1. x \in 0..b /\ 0..x \subseteq 0..m /\ m \in 0..m /\ m \notin 0..x
      BY <2>1
    <3>2. 0..x \subseteq 0..b /\ 0..m \subseteq 0..b
      BY <3>1
    <3>3. <<0..x, 0..m>> \in StrictSubsetOrdering(0..b)
      BY <3>1, <3>2 DEF StrictSubsetOrdering
    <3>4. QED
      BY <1>3, <3>1, <3>3
  <2>2. QED
    BY <2>1
<1>5. QED
  BY <1>4 DEF Min

\* A set of numbers up to b that is not empty has a greatest one: what they lack
\* to b has a least.
LEMMA GreatestOf ==
  ASSUME NEW b \in Nat, NEW S \in SUBSET (0..b), S # {}
  PROVE  Max(S) \in S /\ \A x \in S : x <= Max(S)
<1> DEFINE T == {b - x : x \in S}
<1>1. T \in SUBSET Nat /\ T # {}
  <2>1. \A x \in S : b - x \in Nat
    <3>1. \A x \in S : x \in 0..b
      OBVIOUS
    <3>2. QED
      BY <3>1
  <2>2. QED
    BY <2>1
<1>2. PICK m \in S : Min(T) = b - m
  BY <1>1, LeastOf
<1>3. \A x \in S : b - m <= b - x
  BY <1>1, <1>2, LeastOf
<1>4. \A x \in S : x <= m
  BY <1>3
<1>5. QED
  BY <1>4 DEF Max

\* The latest of some attempts.
LEMMA LatestIs ==
  ASSUME NEW b \in Nat, NEW tries \in SUBSET Try, \A t \in tries : t.at <= b
  PROVE  /\ Latest(tries) \in 0..b
         /\ \A t \in tries : t.at <= Latest(tries)
         /\ Latest(tries) # 0 => \E t \in tries : t.at = Latest(tries)
<1> DEFINE S == {0} \cup {t.at : t \in tries}
<1>1. S \in SUBSET (0..b) /\ S # {}
  BY DEF Try
<1>2. Latest(tries) = Max(S)
  BY DEF Latest
<1>3. Max(S) \in S /\ \A x \in S : x <= Max(S)
  BY <1>1, GreatestOf
<1>4. QED
  BY <1>1, <1>2, <1>3

\* The lesser of two that are not 0.
LEMMA FirstOf ==
  ASSUME NEW m \in Nat, NEW n \in Nat
  PROVE  First(m, n) \in {m, n}
<1>1. CASE m = 0 \/ n = 0
  BY <1>1 DEF First
<1>2. CASE m # 0 /\ n # 0
  <2>1. {m, n} \in SUBSET Nat /\ {m, n} # {}
    OBVIOUS
  <2>2. Min({m, n}) \in {m, n}
    BY <2>1, LeastOf
  <2>3. QED
    BY <1>2, <2>2 DEF First
<1>3. QED
  BY <1>1, <1>2

-----------------------------------------------------------------------------
(* Who keeps a Jira issue: firstToSync is a total order.                   *)

\* What a copy is.
LEMMA CopyIs ==
  ASSUME NEW x \in Copy
  PROVE  /\ x.by \in Nat \ {0} /\ x.at \in Nat /\ x # Self
         /\ \A y \in Copy : x.by = y.by /\ x.jira = y.jira /\ x.at = y.at => x = y
<1>1. x.by \in Clone /\ x.at \in Nat
  BY DEF Copy
<1>2. x.by \in Nat \ {0}
  BY <1>1
<1>3. Self.by = 0
  BY DEF Self
<1>4. \A y \in Copy : x.by = y.by /\ x.jira = y.jira /\ x.at = y.at => x = y
  BY DEF Copy
<1>5. QED
  BY <1>1, <1>2, <1>3, <1>4

\* The contact with Jira, of a copy and of Self.
LEMMA ContactIs ==
  ASSUME NEW s \in Store
  PROVE  /\ \A x \in Copy : Contact(s, x).at = x.at /\ Contact(s, x).export = FALSE
         /\ Contact(s, Self).at \in Nat /\ Contact(s, Self).export \in BOOLEAN
<1>1. \A x \in Copy : Contact(s, x).at = x.at /\ Contact(s, x).export = FALSE
  BY CopyIs DEF Contact
<1>2. Contact(s, Self).at \in Nat /\ Contact(s, Self).export \in BOOLEAN
  <2> DEFINE tried == {t.at : t \in s.tries}
             all == tried \cup ({s.met} \ {0})
  <2>1. all \in SUBSET Nat
    <3>1. s.tries \in SUBSET Try /\ s.met \in Nat
      BY DEF Store
    <3>2. \A t \in s.tries : t.at \in Nat
      BY <3>1 DEF Try
    <3>3. QED
      BY <3>1, <3>2
  <2>2. all # {} => Min(all) \in Nat
    BY <2>1, LeastOf
  <2>3. Contact(s, Self) = IF all = {} THEN [at |-> 0, export |-> FALSE]
                           ELSE [at |-> Min(all), export |-> Min(all) \in tried]
    BY DEF Contact
  <2>4. (Min(all) \in tried) \in BOOLEAN
    OBVIOUS
  <2> HIDE DEF all, tried
  <2>5. CASE all = {}
    BY <2>3, <2>5
  <2>6. CASE all # {}
    <3>1. Contact(s, Self) = [at |-> Min(all), export |-> Min(all) \in tried]
      BY <2>3, <2>6
    <3>2. Contact(s, Self).at = Min(all) /\ Contact(s, Self).export = (Min(all) \in tried)
      BY <3>1
    <3>3. QED
      BY <2>2, <2>4, <2>6, <3>2
  <2>7. QED
    BY <2>5, <2>6
<1>3. QED
  BY <1>1, <1>2

\* Who is before whom.
LEMMA BeforeIs ==
  ASSUME NEW s \in Store
  PROVE  /\ \A x, y \in Copy :
              Before(s, x, y) <=> IF x.at # y.at THEN y.at = 0 \/ (x.at # 0 /\ x.at < y.at) ELSE x.by < y.by
         /\ \A x \in Copy :
              /\ Before(s, x, Self) <=> \/ x.at # Contact(s, Self).at
                                           /\ (Contact(s, Self).at = 0 \/ (x.at # 0 /\ x.at < Contact(s, Self).at))
                                        \/ x.at = Contact(s, Self).at /\ ~Contact(s, Self).export
              /\ Before(s, Self, x) <=> \/ x.at # Contact(s, Self).at
                                           /\ (x.at = 0 \/ (Contact(s, Self).at # 0 /\ Contact(s, Self).at < x.at))
                                        \/ x.at = Contact(s, Self).at /\ Contact(s, Self).export
<1>1. ASSUME NEW x \in Copy, NEW y \in Copy
      PROVE  Before(s, x, y) <=> IF x.at # y.at THEN y.at = 0 \/ (x.at # 0 /\ x.at < y.at) ELSE x.by < y.by
  <2>1. Contact(s, x).at = x.at /\ Contact(s, x).export = FALSE
        /\ Contact(s, y).at = y.at /\ Contact(s, y).export = FALSE
    BY ContactIs
  <2>2. x # Self /\ y # Self
    BY CopyIs
  <2>3. QED
    BY <2>1, <2>2 DEF Before
<1>2. ASSUME NEW x \in Copy
      PROVE  /\ Before(s, x, Self) <=> \/ x.at # Contact(s, Self).at
                                          /\ (Contact(s, Self).at = 0 \/ (x.at # 0 /\ x.at < Contact(s, Self).at))
                                       \/ x.at = Contact(s, Self).at /\ ~Contact(s, Self).export
             /\ Before(s, Self, x) <=> \/ x.at # Contact(s, Self).at
                                          /\ (x.at = 0 \/ (Contact(s, Self).at # 0 /\ Contact(s, Self).at < x.at))
                                       \/ x.at = Contact(s, Self).at /\ Contact(s, Self).export
  <2>1. Contact(s, x).at = x.at /\ Contact(s, x).export = FALSE /\ Contact(s, Self).export \in BOOLEAN
    BY ContactIs
  <2>2. x # Self
    BY CopyIs
  <2>3. QED
    BY <2>1, <2>2 DEF Before
<1>3. QED
  BY <1>1, <1>2

\* Of some copies one has the lowest id.
LEMMA LowestOf ==
  ASSUME NEW D \in SUBSET Copy, D # {}
  PROVE  \E m \in D : \A y \in D : m.by <= y.by
<1> DEFINE S == {x.by : x \in D}
<1>1. S \in SUBSET Nat /\ S # {}
  <2>1. \A x \in D : x.by \in Nat
    BY CopyIs
  <2>2. QED
    BY <2>1
<1>2. PICK m \in D : m.by = Min(S)
  BY <1>1, LeastOf
<1>3. ASSUME NEW y \in D
      PROVE  m.by <= y.by
  <2>1. y.by \in S
    OBVIOUS
  <2> HIDE DEF S
  <2>2. \A i \in S : Min(S) <= i
    BY <1>1, LeastOf
  <2>3. QED
    BY <1>2, <2>1, <2>2
<1>4. QED
  BY <1>3

\* Of the copies of one Jira issue one is before the others.
LEMMA FirstCopy ==
  ASSUME NEW s \in Store, NEW j, NEW C \in SUBSET Copy, C # {}, \A x \in C : x.jira = j
  PROVE  \E m \in C : \A y \in C \ {m} : Before(s, m, y)
<1>1. \A x \in C : x.at \in Nat /\ x.by \in Nat
  BY CopyIs
<1>2. CASE \A x \in C : x.at = 0
  <2>1. PICK m \in C : \A y \in C : m.by <= y.by
    BY LowestOf
  <2>2. ASSUME NEW y \in C \ {m}
        PROVE  Before(s, m, y)
    <3>1. m.by < y.by
      BY <1>1, <1>2, <2>1, CopyIs
    <3>2. QED
      BY <1>2, <3>1, BeforeIs
  <2>3. QED
    BY <2>2
<1>3. CASE \E x \in C : x.at # 0
  <2> DEFINE A == {x.at : x \in {y \in C : y.at # 0}}
  <2>1. A \in SUBSET Nat /\ A # {}
    BY <1>1, <1>3
  <2>2. PICK a \in A : \A b \in A : a <= b
    BY <2>1, LeastOf
  <2> DEFINE D == {x \in C : x.at = a}
  <2>3. PICK m \in D : \A y \in D : m.by <= y.by
    <3>1. D \in SUBSET Copy /\ D # {}
      OBVIOUS
    <3>2. QED
      BY <3>1, LowestOf
  <2>4. m \in C /\ m.at = a /\ a # 0 /\ a \in Nat
    BY <2>1
  <2>5. ASSUME NEW y \in C \ {m}
        PROVE  Before(s, m, y)
    <3>1. CASE y.at = a
      <4>1. m.by <= y.by /\ m.by # y.by
        BY <2>3, <2>4, <3>1, CopyIs
      <4>2. m.by < y.by
        BY <1>1, <2>4, <4>1
      <4>3. QED
        BY <2>4, <3>1, <4>2, BeforeIs
    <3>2. CASE y.at # a
      <4>1. y.at = 0 \/ a < y.at
        <5>1. y \in C /\ y.at \in Nat
          BY <1>1
        <5>2. y.at # 0 => y.at \in A
          BY <5>1
        <5>3. y.at # 0 => a <= y.at
          BY <2>2, <5>2
        <5> HIDE DEF A, D
        <5>4. QED
          BY <2>4, <3>2, <5>1, <5>3
      <4>2. QED
        BY <2>4, <3>2, <4>1, BeforeIs
    <3>3. QED
      BY <3>1, <3>2
  <2>6. QED
    BY <2>4, <2>5
<1>4. QED
  BY <1>2, <1>3

\* NewIndex finds one that keeps the issue: before all others.
LEMMA WinnerIs ==
  ASSUME NEW s \in Store, NEW j, Paired(s, j) # {}
  PROVE  /\ Winner(s, j) \in Paired(s, j)
         /\ \A y \in Paired(s, j) \ {Winner(s, j)} : Before(s, Winner(s, j), y)
<1> DEFINE C == {x \in s.copies : x.jira = j}
<1>1. C \in SUBSET Copy /\ \A x \in C : x.jira = j
  BY DEF Store
<1>2. Paired(s, j) = C \/ Paired(s, j) = C \cup {Self}
  BY DEF Paired
<1> HIDE DEF C
<1>3. \E x \in Paired(s, j) : \A y \in Paired(s, j) \ {x} : Before(s, x, y)
  <2>1. CASE C = {}
    BY <1>2, <2>1
  <2>2. CASE C # {}
    <3>1. PICK m \in C : \A y \in C \ {m} : Before(s, m, y)
      BY <1>1, <2>2, FirstCopy
    <3>2. CASE Paired(s, j) = C
      BY <3>1, <3>2
    <3>3. CASE Paired(s, j) = C \cup {Self}
      <4> DEFINE a == Contact(s, Self).at
                 e == Contact(s, Self).export
      <4>1. a \in Nat /\ e \in BOOLEAN
        BY ContactIs
      <4>2. \A y \in C : y \in Copy /\ y.at \in Nat /\ y.by \in Nat
        BY <1>1, CopyIs
      <4>3. \A y \in C : /\ Before(s, y, Self) <=> \/ y.at # a /\ (a = 0 \/ (y.at # 0 /\ y.at < a))
                                                   \/ y.at = a /\ ~e
                         /\ Before(s, Self, y) <=> \/ y.at # a /\ (y.at = 0 \/ (a # 0 /\ a < y.at))
                                                   \/ y.at = a /\ e
        BY <4>2, BeforeIs
      <4>4. \A y \in C \ {m} : IF m.at # y.at THEN y.at = 0 \/ (m.at # 0 /\ m.at < y.at) ELSE m.by < y.by
        BY <3>1, <4>2, BeforeIs
      <4> HIDE DEF a, e
      <4>5. CASE Before(s, m, Self)
        <5>1. \A y \in Paired(s, j) \ {m} : Before(s, m, y)
          BY <3>1, <3>3, <4>5
        <5>2. QED
          BY <3>3, <5>1
      <4>6. CASE ~Before(s, m, Self)
        <5>1. ASSUME NEW y \in C
              PROVE  Before(s, Self, y)
          <6>1. m.at = y.at \/ y.at = 0 \/ (m.at # 0 /\ m.at < y.at)
            BY <4>4
          <6>2. ~(m.at # a /\ (a = 0 \/ (m.at # 0 /\ m.at < a))) /\ ~(m.at = a /\ ~e)
            BY <4>3, <4>6
          <6>3. QED
            BY <4>1, <4>2, <4>3, <6>1, <6>2
        <5>2. QED
          BY <3>3, <5>1
      <4>7. QED
        BY <4>5, <4>6
    <3>4. QED
      BY <1>2, <3>2, <3>3
  <2>3. QED
    BY <2>1, <2>2
<1>4. QED
  BY <1>3 DEF Winner

-----------------------------------------------------------------------------
(* Types.                                                                  *)

\* What a clone is at, and what its parts are.
LEMMA RunIs ==
  ASSUME TypeOK, NEW c \in Clone
  PROVE  /\ run[c] = Idle \/ run[c] \in Running
         /\ run[c] # Idle => run[c] \in Running
         /\ run[c].pc # "idle" => run[c] \in Running
         /\ run[c] = Idle => run[c].pc = "idle"
         /\ run[c] \in Running => run[c].pc # "idle" /\ run[c] # Idle
  BY DEF TypeOK, Idle, Running

\* The parts of a run.
LEMMA RunParts ==
  ASSUME NEW r \in Running
  PROVE  /\ r.pc \in {"losers", "hits", "post", "made"} /\ r.refused \in State
         /\ r.self \in {"absent", "unlinked", "linked"}
         /\ r.ix \subseteq [jira : JiraId, is : Copy \cup {Self}]
         /\ r.losers \subseteq Copy \cup {Self} /\ r.hits \subseteq JiraId
         /\ r.sought \in Nat /\ r.found \in {0} \cup JiraId /\ r.post \subseteq Post
  BY DEF Running

\* What a clone or the remote has.
LEMMA StoreParts ==
  ASSUME NEW s \in Store
  PROVE  /\ s.has \in BOOLEAN /\ s.tries \subseteq Try /\ s.link \in {0} \cup JiraId
         /\ s.place \in 0..MaxPlace /\ s.met \in Nat
         /\ s.copies \subseteq Copy /\ s.archived \subseteq Copy \cup {Self}
  BY DEF Store

\* A run's next step.
LEMMA ToTyped ==
  ASSUME TypeOK, NEW c \in Clone, NEW r, r = Idle \/ r \in Running, To(c, r)
  PROVE  /\ run' \in [Clone -> {Idle} \cup Running] /\ run'[c] = r
         /\ \A d \in Clone \ {c} : run'[d] = run[d]
  BY DEF TypeOK, To

\* A run that ends leaves one state file or the other.
LEMMA EndTyped ==
  ASSUME TypeOK, NEW c \in Clone, NEW refused \in State, End(c, refused)
  PROVE  /\ run' \in [Clone -> {Idle} \cup Running] /\ run'[c] = Idle
         /\ \A d \in Clone \ {c} : run'[d] = run[d]
         /\ disk' \in [Clone -> State] /\ disk'[c] \in {disk[c], refused}
         /\ \A d \in Clone \ {c} : disk'[d] = disk[d]
         /\ left' \in 0..MaxFaults
<1>1. To(c, Idle)
  BY DEF End
<1>2. run' \in [Clone -> {Idle} \cup Running] /\ run'[c] = Idle /\ \A d \in Clone \ {c} : run'[d] = run[d]
  BY <1>1, ToTyped
<1>3. CASE disk' = [disk EXCEPT ![c] = refused] /\ UNCHANGED left
  BY <1>2, <1>3 DEF TypeOK
<1>4. CASE UNCHANGED disk /\ Fault
  <2>1. left' \in 0..MaxFaults
    BY <1>4 DEF Fault, TypeOK
  <2>2. QED
    BY <1>2, <1>4, <2>1 DEF TypeOK
<1>5. QED
  BY <1>3, <1>4 DEF End

\* A run that has a step more, or ends.
LEMMA ProceedTyped ==
  ASSUME TypeOK, NEW c \in Clone, NEW r \in Running, Proceed(c, r)
  PROVE  /\ run' \in [Clone -> {Idle} \cup Running] /\ run'[c] \in {Idle, r}
         /\ \A d \in Clone \ {c} : run'[d] = run[d]
         /\ disk' \in [Clone -> State] /\ disk'[c] \in {disk[c], r.refused}
         /\ \A d \in Clone \ {c} : disk'[d] = disk[d]
         /\ left' \in 0..MaxFaults
<1>1. r.refused \in State
  BY RunParts
<1>2. CASE To(c, r) /\ UNCHANGED <<disk, left>>
  <2>1. run' \in [Clone -> {Idle} \cup Running] /\ run'[c] = r /\ \A d \in Clone \ {c} : run'[d] = run[d]
    BY <1>2, ToTyped
  <2>2. QED
    BY <1>2, <2>1 DEF TypeOK
<1>3. CASE End(c, r.refused)
  BY <1>1, <1>3, EndTyped
<1>4. QED
  BY <1>2, <1>3 DEF Proceed

\* The types, when what a clone or the remote has does not change.
LEMMA TypesKept ==
  ASSUME TypeOK, UNCHANGED <<now, jira, shown, flight>>,
         store' \in [Clone \cup {Remote} -> Store],
         disk' \in [Clone -> State], run' \in [Clone -> {Idle} \cup Running], left' \in 0..MaxFaults
  PROVE  TypeOK'
  BY DEF TypeOK, JiraId, Copy, Store, Running

\* What setup and scan make of what a clone has.
LEMMA ScannedTyped ==
  ASSUME TypeOK, NEW c \in Clone
  PROVE  /\ Scanned(c) \in Running
         /\ Scanned(c).pc = "losers" /\ Scanned(c).sought = 0 /\ Scanned(c).refused = disk[c]
<1> DEFINE s == store[c]
<1>1. s \in Store /\ disk[c] \in State
  BY DEF TypeOK
<1> HIDE DEF s
<1>2. \A j : Paired(s, j) \subseteq Copy \cup {Self}
  BY <1>1, StoreParts DEF Paired
<1>3. Index(s) \subseteq [jira : JiraId, is : Copy \cup {Self}]
  <2>1. ASSUME NEW j \in JiraId, Paired(s, j) # {}
        PROVE  Winner(s, j) \in Copy \cup {Self}
    BY <1>1, <1>2, <2>1, WinnerIs
  <2>2. QED
    BY <2>1 DEF Index
<1>4. Losers(s) \subseteq Copy \cup {Self}
  BY <1>2 DEF Losers
<1> DEFINE self == IF ~s.has THEN "absent" ELSE IF s.link = 0 THEN "unlinked" ELSE "linked"
<1>5. self \in {"absent", "unlinked", "linked"}
  OBVIOUS
<1>6. Scanned(c) = [pc |-> "losers", refused |-> disk[c], ix |-> Index(s), losers |-> Losers(s), self |-> self,
                    hits |-> {}, sought |-> 0, found |-> 0, post |-> {}]
  BY DEF Scanned, s
<1> HIDE DEF self
<1>7. QED
  BY <1>1, <1>3, <1>4, <1>5, <1>6 DEF Running

\* What a search makes of a run.
LEMMA SearchedTyped ==
  ASSUME TypeOK, NEW r \in Running, NEW next \in Searched(r)
  PROVE  next \in Running /\ next.pc = "hits" /\ next.sought = r.sought /\ next.refused = r.refused
<1>1. PICK found \in SUBSET shown : next = [r EXCEPT !.pc = "hits", !.hits = ToHandle(r, found)]
  BY DEF Searched
<1>2. ToHandle(r, found) \subseteq JiraId
  BY DEF ToHandle, TypeOK
<1>3. QED
  BY <1>1, <1>2 DEF Running

-----------------------------------------------------------------------------
(* What keeps the parts of the invariant.                                  *)

\* An attempt is a record of a time and a clone.
LEMMA TryIs ==
  ASSUME TypeOK
  PROVE  /\ \A r \in Clone \cup {Remote} : store[r] \in Store /\ store[r].tries \subseteq Try
         /\ \A t \in Try : t.at \in Nat /\ t.by \in Clone /\ t = [at |-> t.at, by |-> t.by]
         /\ \A p \in Post : p.try \in Try /\ p.knew \subseteq Try /\ p.refused \in BOOLEAN
  BY DEF TypeOK, Store, Try, Post

\* The issues of Jira, and the POSTs that they were made by.
LEMMA JiraIs ==
  ASSUME TypeOK
  PROVE  /\ Len(jira) \in Nat /\ \A j \in JiraId : jira[j].at \in Nat /\ jira[j].post \in Post
         /\ JiraMade \subseteq Post /\ Pending \subseteq Post /\ Live \subseteq Post /\ flight \subseteq Post
         /\ \A c \in Clone : Posted(c) \subseteq Post
<1>1. Len(jira) \in Nat /\ \A j \in JiraId : jira[j].at \in Nat /\ jira[j].post \in Post
  <2> DEFINE Record == [at : Nat, post : Post]
  <2>1. jira \in Seq(Record)
    BY DEF TypeOK
  <2>2. Len(jira) \in Nat /\ \A j \in 1..Len(jira) : jira[j] \in Record
    <3> HIDE DEF Record
    <3>1. QED
      BY <2>1
  <2>3. QED
    BY <2>2 DEF JiraId
<1>2. \A c \in Clone : Posted(c) \subseteq Post
  BY RunIs, RunParts DEF Posted
<1>3. flight \subseteq Post
  BY DEF TypeOK
<1>4. QED
  BY <1>1, <1>2, <1>3 DEF JiraMade, Pending, Live

\* No POST that is not there already, and no attempt.
LEMMA LiveKept ==
  ASSUME TypeOK, TryInv, LaterInv, OnceInv, now \in Nat, now' \in Nat, now <= now',
         \A r \in Clone \cup {Remote} : store'[r].tries = store[r].tries, Live' \subseteq Live
  PROVE  TryInv' /\ LaterInv' /\ OnceInv'
<1>1. TryInv'
  <2>1. ASSUME NEW r \in Clone \cup {Remote}, NEW t \in store'[r].tries
        PROVE  t \in store'[t.by].tries /\ 0 < t.at /\ t.at <= now'
    <3>1. t \in store[r].tries
      BY <2>1
    <3>2. t.at \in Nat /\ t.by \in Clone
      BY <3>1, TryIs
    <3>3. t \in store[t.by].tries /\ 0 < t.at /\ t.at <= now
      BY <3>1 DEF TryInv
    <3>4. store'[t.by].tries = store[t.by].tries
      BY <3>2
    <3>5. t.at <= now'
      BY <3>2, <3>3
    <3>6. QED
      BY <3>3, <3>4, <3>5
  <2>2. ASSUME NEW p \in Live'
        PROVE  p.try \in store'[p.try.by].tries /\ p.knew \subseteq store'[p.try.by].tries
    <3>1. p \in Live
      OBVIOUS
    <3>2. p.try.by \in Clone
      BY <3>1, JiraIs, TryIs
    <3>3. QED
      BY <3>1, <3>2 DEF TryInv
  <2>3. QED
    BY <2>1, <2>2 DEF TryInv
<1>2. LaterInv'
  BY DEF LaterInv, Overtaken
<1>3. OnceInv'
  BY DEF OnceInv
<1>4. QED
  BY <1>1, <1>2, <1>3

\* Where a refusal may come from: from nowhere, or from the state file or the
\* run.
LEMMA RefusedKept ==
  ASSUME RefusedInv, Live' \subseteq Live,
         \A r \in Clone \cup {Remote} : store'[r].tries = store[r].tries,
         \A d \in Clone : \/ disk'[d] \in {NoRefusal, disk[d]}
                          \/ run[d] # Idle /\ disk'[d] = run[d].refused,
         \A d \in Clone : run'[d] # Idle => \/ run'[d].refused \in {NoRefusal, disk[d]}
                                            \/ run[d] # Idle /\ run'[d].refused = run[d].refused
  PROVE  RefusedInv'
<1>1. NoRefusal.at = 0
  BY DEF NoRefusal
<1>2. ASSUME NEW d \in Clone
      PROVE  Refused(d, NoRefusal)' /\ Refused(d, disk[d]) /\ (run[d] # Idle => Refused(d, run[d].refused))
  BY <1>1 DEF Refused, RefusedInv
<1>3. ASSUME NEW d \in Clone, NEW r, Refused(d, r), NEW s, s = r
      PROVE  s.at # 0 => /\ [at |-> s.at, by |-> d] \in store'[d].tries
                         /\ \A p \in Live' : p.try # [at |-> s.at, by |-> d]
  BY <1>3 DEF Refused
<1>4. ASSUME NEW d \in Clone
      PROVE  Refused(d, disk[d])'
  <2>1. CASE disk'[d] = NoRefusal
    BY <1>1, <2>1 DEF Refused
  <2>2. CASE disk'[d] = disk[d]
    BY <1>2, <1>3, <2>2, ZenonT(30) DEF Refused
  <2>3. CASE run[d] # Idle /\ disk'[d] = run[d].refused
    BY <1>2, <1>3, <2>3 DEF Refused
  <2>4. QED
    BY <2>1, <2>2, <2>3
<1>5. ASSUME NEW d \in Clone, run'[d] # Idle
      PROVE  Refused(d, run[d].refused)'
  <2>1. CASE run'[d].refused = NoRefusal
    BY <1>1, <2>1 DEF Refused
  <2>2. CASE run'[d].refused = disk[d]
    BY <1>2, <1>3, <2>2, ZenonT(30) DEF Refused
  <2>3. CASE run[d] # Idle /\ run'[d].refused = run[d].refused
    BY <1>2, <1>3, <2>3 DEF Refused
  <2>4. QED
    BY <1>5, <2>1, <2>2, <2>3
<1>6. QED
  BY <1>4, <1>5 DEF RefusedInv

\* A run that has no POST and makes none: a search, a hit, a loser, a link, or
\* its end.
LEMMA QuietCase ==
  ASSUME CreateInvariant, TypeOK', NEW c \in Clone, UNCHANGED <<now, jira, shown, flight>>,
         \A r \in Clone \cup {Remote} : store'[r].tries = store[r].tries,
         run[c].pc # "post", run'[c].pc \notin {"post", "made"},
         \A d \in Clone \ {c} : run'[d] = run[d] /\ disk'[d] = disk[d],
         \/ disk'[c] \in {NoRefusal, disk[c]}
         \/ run[c] # Idle /\ disk'[c] = run[c].refused,
         run'[c] # Idle => \/ run'[c].refused \in {NoRefusal, disk[c]}
                           \/ run[c] # Idle /\ run'[c].refused = run[c].refused,
         run'[c].pc = "losers" => run'[c].sought = 0,
         run'[c].pc = "hits" /\ run'[c].sought > 0 =>
             run[c].pc = "hits" /\ run'[c].sought = run[c].sought /\ run'[c].found = run[c].found
  PROVE  CreateInvariant'
<1>1. TypeOK /\ TryInv /\ PostInv /\ TimeInv /\ RefusedInv /\ SearchInv /\ LaterInv /\ OnceInv
  BY DEF CreateInvariant
<1>2. now \in Nat
  BY <1>1 DEF TypeOK
<1>3. JiraMade' = JiraMade
  BY DEF JiraMade, JiraId
<1>4. \A d \in Clone : Posted(d)' = Posted(d)
  BY DEF Posted
<1>5. Pending' = Pending /\ Live' = Live
  BY <1>3, <1>4 DEF Pending, Live
<1>6. TryInv' /\ LaterInv' /\ OnceInv'
  BY <1>1, <1>2, <1>5, LiveKept
<1>7. RefusedInv'
  BY <1>1, <1>5, RefusedKept
<1>8. PostInv'
  <2>1. ASSUME NEW d \in Clone
        PROVE  /\ run'[d].pc = "post" => \E p \in run'[d].post : run'[d].post = {p}
               /\ run'[d].pc = "made" => run'[d].found # 0
               /\ \A p \in Posted(d) : p.try.by = d /\ \A q \in JiraMade \cup flight : q.try # p.try
    <3>1. /\ run[d].pc = "post" => \E p \in run[d].post : run[d].post = {p}
          /\ run[d].pc = "made" => run[d].found # 0
          /\ \A p \in Posted(d) : p.try.by = d /\ \A q \in JiraMade \cup flight : q.try # p.try
      BY <1>1 DEF PostInv
    <3>2. CASE d = c
      BY <3>1, <3>2
    <3>3. CASE d # c
      <4>1. run'[d] = run[d]
        BY <3>3
      <4>2. QED
        BY <3>1, <4>1
    <3>4. QED
      BY <3>2, <3>3
  <2>2. QED
    BY <1>3, <1>4, <2>1 DEF PostInv
<1>9. TimeInv'
  BY <1>1, <1>5 DEF TimeInv, JiraId
<1>10. SearchInv'
  <2> SUFFICES ASSUME NEW d \in Clone
               PROVE  /\ run'[d].pc = "losers" => run'[d].sought = 0
                      /\ run'[d].pc = "hits" /\ run'[d].sought > 0 => Fresh(d)' /\ (run'[d].found = 0 => NotFound(d)')
    BY DEF SearchInv
  <2>1. run'[d].pc = "losers" => run'[d].sought = 0
    BY <1>1 DEF SearchInv
  <2>2. ASSUME run'[d].pc = "hits", run'[d].sought > 0
        PROVE  Fresh(d)' /\ (run'[d].found = 0 => NotFound(d)')
    <3>1. run[d].pc = "hits" /\ run'[d].sought = run[d].sought /\ run'[d].found = run[d].found
      BY <2>2
    <3>2. Fresh(d) /\ (run[d].found = 0 => NotFound(d))
      BY <1>1, <2>2, <3>1 DEF SearchInv
    <3>3. QED
      BY <3>1, <3>2 DEF Fresh, NotFound, JiraId
  <2>3. QED
    BY <2>1, <2>2
<1>11. QED
  BY <1>6, <1>7, <1>8, <1>9, <1>10 DEF CreateInvariant

-----------------------------------------------------------------------------
(* The steps of a run that make no POST.                                   *)

\* A run ends with nothing posted.
LEMMA QuietEnd ==
  ASSUME CreateInvariant, NEW c \in Clone, run[c].pc \in {"losers", "hits", "made"}, End(c, run[c].refused),
         UNCHANGED <<now, jira, shown, flight>>,
         store' \in [Clone \cup {Remote} -> Store],
         \A r \in Clone \cup {Remote} : store'[r].tries = store[r].tries
  PROVE  CreateInvariant'
<1>1. TypeOK /\ run[c] \in Running /\ run[c] # Idle
  BY RunIs DEF CreateInvariant
<1>2. run[c].refused \in State
  BY <1>1, RunParts
<1>3. /\ run' \in [Clone -> {Idle} \cup Running] /\ run'[c] = Idle
      /\ \A d \in Clone \ {c} : run'[d] = run[d]
      /\ disk' \in [Clone -> State] /\ disk'[c] \in {disk[c], run[c].refused}
      /\ \A d \in Clone \ {c} : disk'[d] = disk[d]
      /\ left' \in 0..MaxFaults
  BY <1>1, <1>2, EndTyped
<1>4. TypeOK'
  BY <1>1, <1>3, TypesKept
<1>5. run'[c].pc = "idle"
  BY <1>3 DEF Idle
<1>6. QED
  BY <1>1, <1>3, <1>4, <1>5, QuietCase

\* A run goes on to its hits, or ends.
LEMMA QuietProceed ==
  ASSUME CreateInvariant, NEW c \in Clone, run[c].pc \in {"losers", "hits"},
         NEW r \in Running, Proceed(c, r), r.pc = "hits", r.refused = run[c].refused,
         r.sought > 0 => run[c].pc = "hits" /\ r.sought = run[c].sought /\ r.found = run[c].found,
         UNCHANGED <<now, jira, shown, flight>>,
         store' \in [Clone \cup {Remote} -> Store],
         \A q \in Clone \cup {Remote} : store'[q].tries = store[q].tries
  PROVE  CreateInvariant'
<1>1. TypeOK /\ run[c] \in Running /\ run[c] # Idle
  BY RunIs DEF CreateInvariant
<1>2. /\ run' \in [Clone -> {Idle} \cup Running] /\ run'[c] \in {Idle, r}
      /\ \A d \in Clone \ {c} : run'[d] = run[d]
      /\ disk' \in [Clone -> State] /\ disk'[c] \in {disk[c], r.refused}
      /\ \A d \in Clone \ {c} : disk'[d] = disk[d]
      /\ left' \in 0..MaxFaults
  BY <1>1, ProceedTyped
<1>3. TypeOK'
  BY <1>1, <1>2, TypesKept
<1>4. Idle.pc = "idle"
  BY DEF Idle
<1>5. QED
  BY <1>1, <1>2, <1>3, <1>4, QuietCase

\* Nothing of what the repositories have changes.
LEMMA StoreSame ==
  ASSUME CreateInvariant, UNCHANGED store
  PROVE  /\ store' \in [Clone \cup {Remote} -> Store]
         /\ \A r \in Clone \cup {Remote} : store'[r].tries = store[r].tries
  BY DEF CreateInvariant, TypeOK

\* A local issue is archived.
LEMMA Archives ==
  ASSUME CreateInvariant, NEW c \in Clone, NEW x \in Copy \cup {Self},
         store' = [store EXCEPT ![c].archived = @ \cup {x}]
  PROVE  /\ store' \in [Clone \cup {Remote} -> Store]
         /\ \A r \in Clone \cup {Remote} : store'[r].tries = store[r].tries
<1>1. TypeOK /\ store[c] \in Store
  BY DEF CreateInvariant, TypeOK
<1>2. [store[c] EXCEPT !.archived = @ \cup {x}] \in Store /\ [store[c] EXCEPT !.archived = @ \cup {x}].tries = store[c].tries
  BY <1>1 DEF Store
<1>3. store' = [store EXCEPT ![c] = [store[c] EXCEPT !.archived = @ \cup {x}]]
  OBVIOUS
<1>4. QED
  BY <1>1, <1>2, <1>3 DEF TypeOK

\* The middle of the places is one.
LEMMA Middle == MaxPlace \div 2 \in 0..MaxPlace
  BY CreateAssumption

\* A link has one of the places.
LEMMA PlacesAre ==
  ASSUME NEW j
  PROVE  Places(j) \subseteq 0..MaxPlace
  BY Middle DEF Places

\* A link is committed.
LEMMA Links ==
  ASSUME CreateInvariant, NEW c \in Clone, NEW j \in JiraId, CommitLink(c, j)
  PROVE  /\ store' \in [Clone \cup {Remote} -> Store]
         /\ \A r \in Clone \cup {Remote} : store'[r].tries = store[r].tries
<1> DEFINE s == store[c]
           place(p) == IF s.link = 0 THEN p ELSE s.place
           t(p) == [s EXCEPT !.link = IF @ = 0 THEN j ELSE @, !.place = place(p), !.met = First(@, now)]
<1>1. TypeOK /\ s \in Store /\ now \in Nat
  BY DEF CreateInvariant, TypeOK
<1>2. First(s.met, now) \in Nat
  BY <1>1, StoreParts, FirstOf
<1>3. PICK p \in Places(j) : store' = [store EXCEPT ![c] = t(p)]
  BY DEF CommitLink
<1>4. place(p) \in 0..MaxPlace
  BY <1>1, <1>3, PlacesAre, StoreParts
<1> HIDE DEF place
<1>5. t(p) \in Store /\ t(p).tries = s.tries
  BY <1>1, <1>2, <1>4 DEF Store
<1> HIDE DEF t
<1>6. QED
  BY <1>1, <1>3, <1>5, SMT DEF TypeOK

\* A run begins: scan, and the search if there are no losers.
LEMMA BeginCase ==
  ASSUME CreateInvariant, NEW c \in Clone, Begin(c)
  PROVE  CreateInvariant'
<1>1. TypeOK /\ run[c] = Idle /\ run[c].pc = "idle"
  BY RunIs DEF CreateInvariant, Begin
<1>2. UNCHANGED <<now, jira, shown, flight, store, disk, left>>
  BY DEF Begin
<1> DEFINE r == Scanned(c)
<1>3. r \in Running /\ r.pc = "losers" /\ r.sought = 0 /\ r.refused = disk[c]
  BY <1>1, ScannedTyped
<1>4. PICK next \in IF r.losers # {} THEN {r} ELSE Searched(r) : To(c, next)
  BY DEF Begin
<1> HIDE DEF r
<1>5. next \in Running /\ next.pc \in {"losers", "hits"} /\ next.sought = 0 /\ next.refused = disk[c]
  BY <1>1, <1>3, <1>4, SearchedTyped
<1>6. run' \in [Clone -> {Idle} \cup Running] /\ run'[c] = next /\ \A d \in Clone \ {c} : run'[d] = run[d]
  BY <1>1, <1>4, <1>5, ToTyped
<1>7. TypeOK'
  BY <1>1, <1>2, <1>6, TypesKept DEF TypeOK
<1>8. QED
  BY <1>1, <1>2, <1>5, <1>6, <1>7, QuietCase

\* A loser is consolidated, or it fails.
LEMMA ConsolidateCase ==
  ASSUME CreateInvariant, NEW c \in Clone, Consolidate(c)
  PROVE  CreateInvariant'
<1>1. TypeOK /\ run[c].pc = "losers" /\ run[c] \in Running /\ run[c] # Idle
  BY RunIs DEF CreateInvariant, Consolidate
<1>2. UNCHANGED <<now, jira, shown, flight, disk>>
  BY DEF Consolidate
<1>3. PICK x \in run[c].losers :
        /\ To(c, [run[c] EXCEPT !.losers = @ \ {x}])
        /\ \/ store' = [store EXCEPT ![c].archived = @ \cup {x}] /\ UNCHANGED left
           \/ Fault /\ UNCHANGED store
  BY DEF Consolidate
<1> DEFINE next == [run[c] EXCEPT !.losers = @ \ {x}]
<1>4. next \in Running /\ next.pc = "losers" /\ next.sought = run[c].sought /\ next.refused = run[c].refused
  BY <1>1 DEF Running
<1> HIDE DEF next
<1>5. run' \in [Clone -> {Idle} \cup Running] /\ run'[c] = next /\ \A d \in Clone \ {c} : run'[d] = run[d]
  BY <1>1, <1>3, <1>4, ToTyped DEF next
<1>6. x \in Copy \cup {Self}
  BY <1>1, RunParts
<1>7. /\ store' \in [Clone \cup {Remote} -> Store]
      /\ \A r \in Clone \cup {Remote} : store'[r].tries = store[r].tries
  BY <1>3, <1>6, Archives, StoreSame
<1>8. left' \in 0..MaxFaults
  BY <1>1, <1>3, SMTT(30) DEF Fault, TypeOK
<1>9. TypeOK'
  BY <1>1, <1>2, <1>5, <1>7, <1>8, TypesKept DEF TypeOK
<1>10. next.sought = 0
  BY <1>1, <1>4 DEF CreateInvariant, SearchInv
<1>11. QED
  BY <1>1, <1>2, <1>4, <1>5, <1>7, <1>9, <1>10, QuietCase

\* The search, once the losers are done.
LEMMA SearchCase ==
  ASSUME CreateInvariant, NEW c \in Clone, Search(c)
  PROVE  CreateInvariant'
<1>1. TypeOK /\ run[c].pc = "losers" /\ run[c] \in Running
  BY RunIs DEF CreateInvariant, Search
<1>2. UNCHANGED <<now, jira, shown, flight, store>>
  BY DEF Search
<1>3. PICK r \in Searched(run[c]) : Proceed(c, r)
  BY DEF Search
<1>4. run[c].sought = 0
  BY <1>1 DEF CreateInvariant, SearchInv
<1>5. r \in Running /\ r.pc = "hits" /\ r.sought = 0 /\ r.refused = run[c].refused
  BY <1>1, <1>4, SearchedTyped
<1>6. QED
  BY <1>1, <1>2, <1>3, <1>5, StoreSame, QuietProceed

\* What is left of a run after a hit.
LEMMA HandledIs ==
  ASSUME CreateInvariant, NEW c \in Clone, NEW j, Hit(c, j)
  PROVE  /\ run[c] \in Running /\ run[c].pc = "hits" /\ j \in JiraId
         /\ Handled(c, j) \in Running /\ Handled(c, j).pc = "hits" /\ Handled(c, j).refused = run[c].refused
         /\ Handled(c, j).sought = run[c].sought /\ Handled(c, j).found = run[c].found
         /\ Handled(c, j).ix = run[c].ix
<1>1. run[c] \in Running /\ run[c].pc = "hits" /\ j \in run[c].hits
  BY RunIs DEF CreateInvariant, Hit
<1>2. j \in JiraId
  BY <1>1, RunParts
<1>3. QED
  BY <1>1, <1>2 DEF Handled, Running

\* A hit is adopted: a second local issue.
LEMMA AdoptCase ==
  ASSUME CreateInvariant, NEW c \in Clone, NEW j \in JiraId, Adopt(c, j)
  PROVE  CreateInvariant'
<1>1. TypeOK /\ Hit(c, j) /\ UNCHANGED <<now, jira, shown, flight>>
  BY DEF CreateInvariant, Adopt
<1> DEFINE x == [by |-> c, jira |-> j, at |-> jira[j].at]
           r == [Handled(c, j) EXCEPT !.ix = @ \cup {[jira |-> j, is |-> x]}]
           t == [store[c] EXCEPT !.copies = @ \cup {x}]
<1>2. x \in Copy
  BY <1>1, JiraIs DEF Copy
<1>3. store' = [store EXCEPT ![c].copies = @ \cup {x}] /\ Proceed(c, r)
  BY DEF Adopt
<1>4. store' = [store EXCEPT ![c] = t]
  BY <1>3
<1> HIDE DEF x
<1>5. t \in Store /\ t.tries = store[c].tries
  <2>1. store[c] \in Store
    BY <1>1, TryIs
  <2>2. QED
    BY <1>2, <2>1 DEF Store
<1>6. r \in Running /\ r.pc = "hits" /\ r.refused = run[c].refused /\ r.sought = run[c].sought /\ r.found = run[c].found
      /\ run[c].pc = "hits"
  BY <1>1, <1>2, HandledIs DEF Running
<1> HIDE DEF t, r
<1>7. /\ store' \in [Clone \cup {Remote} -> Store]
      /\ \A q \in Clone \cup {Remote} : store'[q].tries = store[q].tries
  BY <1>1, <1>4, <1>5 DEF TypeOK
<1>8. QED
  BY <1>1, <1>3, <1>6, <1>7, QuietProceed

\* A hit is left for an orphan, or its import fails.
LEMMA OrphanCase ==
  ASSUME CreateInvariant, NEW c \in Clone, NEW j \in JiraId, Orphan(c, j)
  PROVE  CreateInvariant'
<1>1. Hit(c, j) /\ Proceed(c, Handled(c, j)) /\ UNCHANGED <<now, jira, shown, flight, store>>
  BY DEF Orphan
<1>2. QED
  BY <1>1, HandledIs, StoreSame, QuietProceed

\* A hit is linked.
LEMMA LinkHitCase ==
  ASSUME CreateInvariant, NEW c \in Clone, NEW j \in JiraId, LinkHit(c, j)
  PROVE  CreateInvariant'
<1>1. Hit(c, j) /\ CommitLink(c, j) /\ End(c, run[c].refused) /\ UNCHANGED <<now, jira, shown, flight>>
  BY DEF LinkHit
<1>2. run[c].pc = "hits"
  BY <1>1 DEF Hit
<1>3. QED
  BY <1>1, <1>2, Links, QuietEnd

\* Self's turn comes to nothing: it is archived, or refused and unchanged, or
\* in doubt, or another's.
LEMMA IdleTurnCase ==
  ASSUME CreateInvariant, NEW c \in Clone, TurnSkipped(c) \/ Wait(c) \/ FoundKept(c)
  PROVE  CreateInvariant'
<1>1. run[c].pc = "hits" /\ End(c, run[c].refused) /\ UNCHANGED <<now, jira, shown, flight, store>>
  BY DEF TurnSkipped, Wait, FoundKept, Found, Free, Turn
<1>2. QED
  BY <1>1, StoreSame, QuietEnd

\* Another's copy is consolidated, before Self is linked.
LEMMA FoundTakenCase ==
  ASSUME CreateInvariant, NEW c \in Clone, FoundTaken(c)
  PROVE  CreateInvariant'
<1>1. TypeOK /\ run[c].pc = "hits" /\ run[c] \in Running /\ run[c] # Idle
      /\ UNCHANGED <<now, jira, shown, flight, disk, left>>
  BY RunIs DEF CreateInvariant, FoundTaken, Found, Free, Turn
<1>2. PICK x \in Others(c) :
        /\ store' = [store EXCEPT ![c].archived = @ \cup {x}]
        /\ To(c, [run[c] EXCEPT !.ix = @ \ {[jira |-> x.jira, is |-> x]}])
  BY DEF FoundTaken
<1>3. x \in Copy \cup {Self}
  <2>1. run[c].ix \subseteq [jira : JiraId, is : Copy \cup {Self}]
    BY <1>1, RunParts
  <2>2. QED
    BY <2>1 DEF Others
<1> DEFINE next == [run[c] EXCEPT !.ix = @ \ {[jira |-> x.jira, is |-> x]}]
<1>4. next \in Running /\ next.pc = "hits" /\ next.sought = run[c].sought /\ next.found = run[c].found
      /\ next.refused = run[c].refused
  BY <1>1 DEF Running
<1> HIDE DEF next
<1>5. run' \in [Clone -> {Idle} \cup Running] /\ run'[c] = next /\ \A d \in Clone \ {c} : run'[d] = run[d]
  BY <1>1, <1>2, <1>4, ToTyped DEF next
<1>6. /\ store' \in [Clone \cup {Remote} -> Store]
      /\ \A r \in Clone \cup {Remote} : store'[r].tries = store[r].tries
  BY <1>2, <1>3, Archives
<1>7. TypeOK'
  BY <1>1, <1>5, <1>6, TypesKept DEF TypeOK
<1>8. QED
  BY <1>1, <1>4, <1>5, <1>6, <1>7, QuietCase

\* What the created search found is linked, or what Jira has just made.
LEMMA LinkCase ==
  ASSUME CreateInvariant, NEW c \in Clone, LinkFound(c) \/ Link(c)
  PROVE  CreateInvariant'
<1>1. TypeOK
  BY DEF CreateInvariant
<1>2. CASE LinkFound(c)
  <2>1. run[c].pc = "hits" /\ run[c].found > 0 /\ CommitLink(c, run[c].found) /\ End(c, run[c].refused)
        /\ UNCHANGED <<now, jira, shown, flight>>
    BY <1>2 DEF LinkFound, Found, Free, Turn
  <2>2. run[c] \in Running
    BY <1>1, <2>1, RunIs
  <2>3. run[c].found \in JiraId
    BY <2>1, <2>2, RunParts
  <2>4. QED
    BY <2>1, <2>3, Links, QuietEnd
<1>3. CASE Link(c)
  <2>1. run[c].pc = "made" /\ CommitLink(c, run[c].found) /\ End(c, run[c].refused)
        /\ UNCHANGED <<now, jira, shown, flight>>
    BY <1>3 DEF Link
  <2>2. run[c] \in Running /\ run[c].found # 0
    BY <1>1, <2>1, RunIs DEF CreateInvariant, PostInv
  <2>3. run[c].found \in JiraId
    BY <2>2, RunParts
  <2>4. QED
    BY <2>1, <2>3, Links, QuietEnd
<1>4. QED
  BY <1>2, <1>3

\* A run stops, or its process dies, with no POST under way.
LEMMA StopCase ==
  ASSUME CreateInvariant, NEW c \in Clone, Stop(c)
  PROVE  CreateInvariant'
<1>1. TypeOK /\ run[c] # Idle /\ run[c] \in Running /\ run[c].pc # "post" /\ UNCHANGED <<now, jira, shown, flight, store>>
  BY RunIs DEF CreateInvariant, Stop
<1>2. To(c, Idle) /\ left' \in 0..MaxFaults
  BY <1>1 DEF Stop, Fault, TypeOK
<1>3. run' \in [Clone -> {Idle} \cup Running] /\ run'[c] = Idle /\ \A d \in Clone \ {c} : run'[d] = run[d]
  BY <1>1, <1>2, ToTyped
<1>4. disk' \in [Clone -> State] /\ disk'[c] \in {disk[c], run[c].refused} /\ \A d \in Clone \ {c} : disk'[d] = disk[d]
  <2>1. PICK r \in {disk[c], run[c].refused} : disk' = [disk EXCEPT ![c] = r]
    BY DEF Stop
  <2>2. r \in State
    BY <1>1, RunParts DEF TypeOK
  <2>3. QED
    BY <1>1, <2>1, <2>2 DEF TypeOK
<1>5. TypeOK'
  BY <1>1, <1>2, <1>3, <1>4, StoreSame, TypesKept
<1>6. run'[c].pc = "idle"
  BY <1>3 DEF Idle
<1>7. QED
  BY <1>1, <1>3, <1>4, <1>5, <1>6, QuietCase

\* The state file is lost.
LEMMA LoseCase ==
  ASSUME CreateInvariant, NEW c \in Clone, Lose(c)
  PROVE  CreateInvariant'
<1>1. TypeOK /\ run[c] = Idle /\ run[c].pc = "idle" /\ UNCHANGED <<now, jira, shown, flight, store, run, left>>
  BY RunIs DEF CreateInvariant, Lose
<1>2. disk' \in [Clone -> State] /\ disk'[c] = NoRefusal /\ \A d \in Clone \ {c} : disk'[d] = disk[d]
  <2>1. NoRefusal \in State
    BY DEF NoRefusal, State
  <2>2. QED
    BY <1>1, <2>1 DEF Lose, TypeOK
<1>3. TypeOK'
  BY <1>1, <1>2, StoreSame, TypesKept DEF TypeOK
<1>4. QED
  BY <1>1, <1>2, <1>3, QuietCase

-----------------------------------------------------------------------------
(* Jira, and the POSTs.                                                    *)

\* The parts of the invariant.
LEMMA Parts ==
  ASSUME CreateInvariant
  PROVE  /\ TypeOK /\ TryInv /\ PostInv /\ TimeInv /\ RefusedInv /\ SearchInv /\ LaterInv /\ OnceInv
         /\ now \in Nat /\ now \in 1..MaxTime
  BY DEF CreateInvariant, TypeOK

\* A state file and a run that stay keep what they take for refused.
LEMMA SameRefused ==
  ASSUME RefusedInv, Live' \subseteq Live, UNCHANGED <<store, disk, run>>
  PROVE  RefusedInv'
  BY RefusedKept

\* An issue that Jira makes comes last, and nothing else of Jira changes.
LEMMA MakeTyped ==
  ASSUME TypeOK, NEW p \in Post, Make(p)
  PROVE  /\ jira' \in Seq([at : Nat, post : Post])
         /\ JiraId' = JiraId \cup {Len(jira) + 1} /\ Len(jira) + 1 \notin JiraId
         /\ \A j \in JiraId : jira'[j] = jira[j]
         /\ jira'[Len(jira) + 1] = [at |-> now, post |-> p]
         /\ JiraMade' = JiraMade \cup {p}
<1> DEFINE Record == [at : Nat, post : Post]
           e == [at |-> now, post |-> p]
<1>1. jira \in Seq(Record) /\ e \in Record /\ jira' = Append(jira, e)
  BY DEF TypeOK, Make
<1> HIDE DEF Record, e
<1>2. jira' \in Seq(Record) /\ Len(jira) \in Nat /\ Len(jira') = Len(jira) + 1
      /\ (\A j \in 1..Len(jira) : jira'[j] = jira[j]) /\ jira'[Len(jira) + 1] = e
  BY <1>1
<1>3. JiraId' = JiraId \cup {Len(jira) + 1} /\ Len(jira) + 1 \notin JiraId
  BY <1>2 DEF JiraId
<1>4. \A j \in JiraId : jira'[j] = jira[j]
  BY <1>2 DEF JiraId
<1>5. JiraMade' = {jira'[j].post : j \in JiraId'}
  BY DEF JiraMade
<1>6. jira'[Len(jira) + 1].post = p
  BY <1>2 DEF e
<1>7. JiraMade' = JiraMade \cup {p}
  <2>1. \A x \in JiraMade' : x \in JiraMade \cup {p}
    BY <1>3, <1>4, <1>5, <1>6 DEF JiraMade
  <2>2. \A j \in JiraId : jira[j].post \in JiraMade'
    BY <1>3, <1>4, <1>5
  <2>3. p \in JiraMade'
    BY <1>3, <1>5, <1>6
  <2>4. QED
    BY <2>1, <2>2, <2>3 DEF JiraMade
<1>8. QED
  BY <1>2, <1>3, <1>4, <1>7 DEF Record, e

\* With more issues in Jira the types of what refers to them are no smaller.
LEMMA Grows ==
  ASSUME JiraId \subseteq JiraId'
  PROVE  Store \subseteq Store' /\ Running \subseteq Running'
<1>1. Copy \subseteq Copy'
  BY DEF Copy
<1>2. ASSUME NEW s \in Store
      PROVE  s \in Store'
  BY <1>1 DEF Store
<1>3. [jira : JiraId, is : Copy \cup {Self}] \subseteq [jira : JiraId', is : Copy' \cup {Self}]
  BY <1>1
<1>4. ASSUME NEW r \in Running
      PROVE  r \in Running'
  BY <1>1, <1>3 DEF Running
<1>5. QED
  BY <1>2, <1>4

\* Jira makes an issue of a POST that was to land; the run that posted it, if
\* it is still there, has it.
LEMMA MakeCase ==
  ASSUME CreateInvariant, NEW p \in Pending, Make(p), UNCHANGED <<now, shown, store, disk, left>>,
         flight' \subseteq flight,
         run' \in [Clone -> {Idle} \cup Running'],
         \A d \in Clone : \/ run'[d] = run[d]
                          \/ run[d] # Idle /\ run'[d].pc = "made" /\ run'[d].found # 0 /\ run'[d].refused = run[d].refused,
         \A d \in Clone : \A q \in Posted(d)' : q \in Posted(d) /\ q.try # p.try
  PROVE  CreateInvariant'
<1>1. TypeOK /\ TryInv /\ PostInv /\ TimeInv /\ RefusedInv /\ SearchInv /\ LaterInv /\ OnceInv
      /\ now \in Nat /\ now \in 1..MaxTime
  BY Parts
<1>2. p \in Post
  BY <1>1, JiraIs
<1> DEFINE n == Len(jira) + 1
<1>3. /\ jira' \in Seq([at : Nat, post : Post])
      /\ JiraId' = JiraId \cup {n} /\ n \notin JiraId
      /\ \A j \in JiraId : jira'[j] = jira[j]
      /\ jira'[n] = [at |-> now, post |-> p]
      /\ JiraMade' = JiraMade \cup {p}
  BY <1>1, <1>2, MakeTyped
<1> HIDE DEF n
<1>4. TypeOK'
  <2>1. Store \subseteq Store' /\ Running \subseteq Running'
    BY <1>3, Grows
  <2>2. store' \in [Clone \cup {Remote} -> Store']
    BY <1>1, <2>1 DEF TypeOK
  <2>3. shown' \subseteq JiraId' /\ flight' \subseteq Post
    BY <1>1, <1>3 DEF TypeOK
  <2>4. QED
    BY <1>1, <1>3, <2>2, <2>3 DEF TypeOK
<1>5. Pending' \subseteq Pending
  BY DEF Pending
<1>6. Live' \subseteq Live
  BY <1>3, <1>5 DEF Live
<1>7. TryInv' /\ LaterInv' /\ OnceInv'
  BY <1>1, <1>6, LiveKept
<1>8. RefusedInv'
  BY <1>1, <1>6, RefusedKept
<1>9. PostInv'
  <2> SUFFICES ASSUME NEW d \in Clone
               PROVE  /\ run'[d].pc = "post" => \E q \in run'[d].post : run'[d].post = {q}
                      /\ run'[d].pc = "made" => run'[d].found # 0
                      /\ \A q \in Posted(d)' : q.try.by = d /\ \A x \in JiraMade' \cup flight' : x.try # q.try
    BY DEF PostInv
  <2>1. /\ run[d].pc = "post" => \E q \in run[d].post : run[d].post = {q}
        /\ run[d].pc = "made" => run[d].found # 0
        /\ \A q \in Posted(d) : q.try.by = d /\ \A x \in JiraMade \cup flight : x.try # q.try
    BY <1>1 DEF PostInv
  <2>2. run'[d] = run[d] \/ (run'[d].pc = "made" /\ run'[d].found # 0)
    OBVIOUS
  <2>3. \A q \in Posted(d)' : q.try.by = d /\ \A x \in JiraMade' \cup flight' : x.try # q.try
    BY <1>3, <2>1
  <2>4. QED
    BY <2>1, <2>2, <2>3
<1>10. TimeInv'
  <2>1. p.try.at <= now /\ now <= p.try.at + Delay
    BY <1>1 DEF TimeInv
  <2>2. \A q \in Pending' : q.try.at <= now' /\ now' <= q.try.at + Delay
    BY <1>1, <1>5 DEF TimeInv
  <2>3. ASSUME NEW j \in JiraId'
        PROVE  /\ jira'[j].post.try.at <= jira'[j].at /\ jira'[j].at <= now'
               /\ jira'[j].at <= jira'[j].post.try.at + Delay
               /\ j \notin shown' => now' <= jira'[j].at + Lag
    <3>1. CASE j \in JiraId
      BY <1>1, <1>3, <3>1 DEF TimeInv
    <3>2. CASE j = n
      <4>1. jira'[j].at = now /\ jira'[j].post = p
        BY <1>3, <3>2
      <4>2. now \in Nat /\ Lag \in Nat
        BY <1>1
      <4>3. now <= now + Lag /\ now <= now
        BY <4>2
      <4>4. now' = now
        OBVIOUS
      <4>5. /\ p.try.at <= jira'[j].at /\ jira'[j].at <= now'
            /\ jira'[j].at <= p.try.at + Delay /\ now' <= jira'[j].at + Lag
        BY <2>1, <4>1, <4>3, <4>4
      <4>6. QED
        BY <4>1, <4>5
    <3>3. QED
      BY <1>3, <3>1, <3>2
  <2>4. QED
    BY <2>2, <2>3 DEF TimeInv
<1>11. SearchInv'
  <2> SUFFICES ASSUME NEW d \in Clone
               PROVE  /\ run'[d].pc = "losers" => run'[d].sought = 0
                      /\ run'[d].pc = "hits" /\ run'[d].sought > 0 => Fresh(d)' /\ (run'[d].found = 0 => NotFound(d)')
    BY DEF SearchInv
  <2>1. CASE run'[d] = run[d]
    <3>1. run[d].pc = "losers" => run[d].sought = 0
      BY <1>1 DEF SearchInv
    <3>2. ASSUME run[d].pc = "hits", run[d].sought > 0
          PROVE  Fresh(d)' /\ (run[d].found = 0 => NotFound(d)')
      <4>1. Fresh(d) /\ (run[d].found = 0 => NotFound(d))
        BY <1>1, <3>2 DEF SearchInv
      <4>2. Fresh(d)'
        BY <2>1, <4>1 DEF Fresh
      <4>3. ASSUME NotFound(d)
            PROVE  NotFound(d)'
        <5>1. ASSUME NEW j \in JiraId'
              PROVE  \/ jira'[j].at + Overlap < Latest(store[d].tries)
                     \/ run[d].sought <= jira'[j].at + Lag
          <6>1. CASE j \in JiraId
            BY <1>3, <4>3, <6>1 DEF NotFound
          <6>2. CASE j = n
            <7>1. jira'[j].at = now
              BY <1>3, <6>2
            <7>2. run[d] \in Running
              BY <1>1, <3>2, RunIs
            <7>3. run[d].sought \in Nat /\ run[d].sought <= now
              BY <4>1, <7>2, RunParts DEF Fresh
            <7>4. run[d].sought <= now + Lag
              BY <1>1, <7>3
            <7>5. QED
              BY <7>1, <7>4
          <6>3. QED
            BY <1>3, <6>1, <6>2
        <5>2. QED
          BY <2>1, <5>1 DEF NotFound
      <4>4. QED
        BY <4>1, <4>2, <4>3
    <3>3. QED
      BY <2>1, <3>1, <3>2
  <2>2. CASE run'[d].pc = "made"
    BY <2>2
  <2>3. QED
    BY <2>1, <2>2
<1>12. QED
  BY <1>4, <1>7, <1>8, <1>9, <1>10, <1>11 DEF CreateInvariant


\* Of the POSTs under way one may be gone.
LEMMA FlightIs ==
  ASSUME CreateInvariant, NEW p \in flight, NEW c \in Clone, NEW q \in Posted(c)
  PROVE  q.try # p.try
  BY DEF CreateInvariant, PostInv

\* A POST whose run has gone lands.
LEMMA LandCase ==
  ASSUME CreateInvariant, NEW p \in flight, Land(p)
  PROVE  CreateInvariant'
<1>1. Make(p) /\ flight' = flight \ {p} /\ UNCHANGED <<now, shown, store, disk, run, left>>
  BY DEF Land
<1>2. TypeOK /\ p \in Post /\ p \in Pending
  BY JiraIs DEF CreateInvariant, TypeOK, Pending
<1>3. JiraId \subseteq JiraId'
  BY <1>1, <1>2, MakeTyped
<1>4. run' \in [Clone -> {Idle} \cup Running']
  <2>1. Running \subseteq Running'
    BY <1>3, Grows
  <2>2. QED
    BY <1>1, <1>2, <2>1 DEF TypeOK
<1>5. \A d \in Clone : Posted(d)' = Posted(d)
  BY <1>1 DEF Posted
<1>6. \A d \in Clone : \A q \in Posted(d)' : q \in Posted(d) /\ q.try # p.try
  BY <1>5, FlightIs
<1>7. QED
  BY <1>1, <1>2, <1>4, <1>6, MakeCase

\* A run has its answer: Jira has made the issue.
LEMMA PostMadeCase ==
  ASSUME CreateInvariant, NEW c \in Clone, PostMade(c)
  PROVE  CreateInvariant'
<1>1. PICK p \in Posted(c) : Make(p)
  BY DEF PostMade
<1> DEFINE n == Len(jira) + 1
           r == [run[c] EXCEPT !.pc = "made", !.found = n]
<1>2. To(c, r) /\ UNCHANGED <<now, shown, flight, store, disk, left>>
  BY DEF PostMade
<1>3. TypeOK /\ run[c].pc = "post" /\ run[c] \in Running /\ run[c] # Idle
  <2>1. TypeOK /\ run[c].pc = "post"
    BY <1>1 DEF CreateInvariant, Posted
  <2>2. QED
    BY <2>1, RunIs
<1>4. p \in Post /\ p \in Pending
  BY <1>1, <1>3, JiraIs DEF Pending
<1>5. n \in JiraId' /\ JiraId \subseteq JiraId'
  BY <1>1, <1>3, <1>4, MakeTyped
<1>6. n # 0
  BY <1>3, JiraIs
<1> HIDE DEF n
<1>7. Running \subseteq Running'
  BY <1>5, Grows
<1>8. r \in Running' /\ r.pc = "made" /\ r.found = n /\ r.refused = run[c].refused
  <2>1. run[c] \in Running'
    BY <1>3, <1>7
  <2>2. QED
    BY <1>5, <2>1 DEF Running
<1> HIDE DEF r
<1>9. run' = [run EXCEPT ![c] = r]
  BY <1>2 DEF To
<1>10. run'[c] = r /\ \A d \in Clone \ {c} : run'[d] = run[d]
  BY <1>3, <1>9 DEF TypeOK
<1>11. run' \in [Clone -> {Idle} \cup Running']
  BY <1>3, <1>7, <1>8, <1>9 DEF TypeOK
<1>12. ASSUME NEW d \in Clone, NEW q \in Posted(d)'
       PROVE  q \in Posted(d) /\ q.try # p.try
  <2>1. d # c
    BY <1>8, <1>10, <1>12 DEF Posted
  <2>2. q \in Posted(d)
    BY <1>10, <1>12, <2>1 DEF Posted
  <2>3. q.try.by = d /\ p.try.by = c
    BY <1>1, <2>2 DEF CreateInvariant, PostInv
  <2>4. QED
    BY <2>1, <2>2, <2>3
<1>13. ASSUME NEW d \in Clone
       PROVE  \/ run'[d] = run[d]
              \/ run[d] # Idle /\ run'[d].pc = "made" /\ run'[d].found # 0 /\ run'[d].refused = run[d].refused
  BY <1>3, <1>6, <1>8, <1>10
<1>14. QED
  BY <1>1, <1>2, <1>4, <1>11, <1>12, <1>13, MakeCase

\* Jira makes nothing, and no POST is new: one ends, or its run is gone.
LEMMA FewerCase ==
  ASSUME CreateInvariant, TypeOK', UNCHANGED <<now, jira, shown, store>>, Pending' \subseteq Pending,
         \A d \in Clone : run'[d] = run[d] \/ run'[d].pc = "idle",
         \A d \in Clone : \A q \in Posted(d)' : \A p \in flight' : q.try # p.try,
         RefusedInv'
  PROVE  CreateInvariant'
<1>1. TypeOK /\ TryInv /\ PostInv /\ TimeInv /\ RefusedInv /\ SearchInv /\ LaterInv /\ OnceInv /\ now \in Nat
  BY Parts
<1>2. JiraMade' = JiraMade /\ JiraId' = JiraId
  BY DEF JiraMade, JiraId
<1>3. Live' \subseteq Live
  BY <1>2 DEF Live
<1>4. TryInv' /\ LaterInv' /\ OnceInv'
  BY <1>1, <1>3, LiveKept
<1>5. TimeInv'
  BY <1>1, <1>2 DEF TimeInv
<1>6. PostInv'
  <2> SUFFICES ASSUME NEW d \in Clone
               PROVE  /\ run'[d].pc = "post" => \E q \in run'[d].post : run'[d].post = {q}
                      /\ run'[d].pc = "made" => run'[d].found # 0
                      /\ \A q \in Posted(d)' : q.try.by = d /\ \A x \in JiraMade' \cup flight' : x.try # q.try
    BY DEF PostInv
  <2>1. /\ run[d].pc = "post" => \E q \in run[d].post : run[d].post = {q}
        /\ run[d].pc = "made" => run[d].found # 0
        /\ \A q \in Posted(d) : q.try.by = d /\ \A x \in JiraMade : x.try # q.try
    BY <1>1 DEF PostInv
  <2>2. Posted(d)' \subseteq Posted(d)
    BY DEF Posted
  <2>3. \A q \in Posted(d)' : q.try.by = d /\ \A x \in JiraMade' \cup flight' : x.try # q.try
    BY <1>2, <2>1, <2>2
  <2>4. QED
    BY <2>1, <2>3
<1>7. SearchInv'
  <2> SUFFICES ASSUME NEW d \in Clone
               PROVE  /\ run'[d].pc = "losers" => run'[d].sought = 0
                      /\ run'[d].pc = "hits" /\ run'[d].sought > 0 => Fresh(d)' /\ (run'[d].found = 0 => NotFound(d)')
    BY DEF SearchInv
  <2>1. CASE run'[d] = run[d]
    <3>1. Fresh(d)' <=> Fresh(d)
      BY <2>1 DEF Fresh
    <3>2. NotFound(d)' <=> NotFound(d)
      BY <1>2, <2>1 DEF NotFound
    <3>3. QED
      BY <1>1, <2>1, <3>1, <3>2 DEF SearchInv
  <2>2. CASE run'[d].pc = "idle"
    BY <2>2
  <2>3. QED
    BY <2>1, <2>2
<1>8. QED
  BY <1>4, <1>5, <1>6, <1>7 DEF CreateInvariant

\* A POST whose run has gone is lost on the way.
LEMMA VanishCase ==
  ASSUME CreateInvariant, NEW p \in flight, Vanish(p)
  PROVE  CreateInvariant'
<1>1. flight' = flight \ {p} /\ UNCHANGED <<now, jira, shown, store, disk, run, left>>
  BY DEF Vanish
<1>2. TypeOK /\ RefusedInv
  BY DEF CreateInvariant
<1>3. TypeOK'
  BY <1>1, <1>2 DEF TypeOK, JiraId, Store, Copy, Running
<1>4. \A d \in Clone : Posted(d)' = Posted(d)
  BY <1>1 DEF Posted
<1>5. Pending' \subseteq Pending
  BY <1>1, <1>4 DEF Pending
<1>6. \A d \in Clone : \A q \in Posted(d)' : \A x \in flight' : q.try # x.try
  BY <1>1, <1>4, FlightIs
<1>7. RefusedInv'
  <2>1. JiraMade' = JiraMade
    BY <1>1 DEF JiraMade, JiraId
  <2>2. Live' \subseteq Live
    BY <1>5, <2>1 DEF Live
  <2>3. QED
    BY <1>1, <1>2, <2>2, SameRefused
<1>8. QED
  BY <1>1, <1>3, <1>5, <1>6, <1>7, FewerCase

\* A run that posts, and its POST.
LEMMA PostedIs ==
  ASSUME CreateInvariant, NEW c \in Clone, NEW p \in Posted(c)
  PROVE  /\ run[c].pc = "post" /\ run[c] \in Running /\ run[c] # Idle
         /\ Posted(c) = {p} /\ p \in Post /\ p.try.by = c
         /\ \A q \in JiraMade \cup flight : q.try # p.try
         /\ \A d \in Clone \ {c} : \A q \in Posted(d) : q.try # p.try
<1>1. TypeOK /\ PostInv
  BY DEF CreateInvariant
<1>2. run[c].pc = "post" /\ p \in run[c].post
  BY DEF Posted
<1>3. run[c] \in Running /\ run[c] # Idle
  BY <1>1, <1>2, RunIs
<1>4. Posted(c) = {p}
  BY <1>1, <1>2 DEF PostInv, Posted
<1>5. p \in Post
  BY <1>1, JiraIs
<1>6. p.try.by = c /\ \A q \in JiraMade \cup flight : q.try # p.try
  BY <1>1 DEF PostInv
<1>7. \A d \in Clone \ {c} : \A q \in Posted(d) : q.try.by = d
  BY <1>1 DEF PostInv
<1>8. QED
  BY <1>2, <1>3, <1>4, <1>5, <1>6, <1>7

\* The run that posted ends.
LEMMA PostEnds ==
  ASSUME CreateInvariant, NEW c \in Clone, To(c, Idle)
  PROVE  /\ run' \in [Clone -> {Idle} \cup Running] /\ run'[c] = Idle /\ run'[c].pc = "idle"
         /\ \A d \in Clone \ {c} : run'[d] = run[d]
         /\ Posted(c)' = {} /\ \A d \in Clone \ {c} : Posted(d)' = Posted(d)
<1>1. run' \in [Clone -> {Idle} \cup Running] /\ run'[c] = Idle /\ \A d \in Clone \ {c} : run'[d] = run[d]
  BY ToTyped DEF CreateInvariant
<1>2. run'[c].pc = "idle"
  BY <1>1 DEF Idle
<1>3. QED
  BY <1>1, <1>2 DEF Posted

\* A clone's state file after a POST.
LEMMA DiskTyped ==
  ASSUME TypeOK, NEW c \in Clone, NEW r \in State, disk' = [disk EXCEPT ![c] = r]
  PROVE  disk' \in [Clone -> State] /\ disk'[c] = r /\ \A d \in Clone \ {c} : disk'[d] = disk[d]
  BY DEF TypeOK

\* Jira refuses a POST.
LEMMA PostRefusedCase ==
  ASSUME CreateInvariant, NEW c \in Clone, PostRefused(c)
  PROVE  CreateInvariant'
<1>1. PICK p \in Posted(c) : \E r \in {disk[c], [at |-> p.try.at, tries |-> store[c].tries]} : disk' = [disk EXCEPT ![c] = r]
  BY DEF PostRefused
<1>2. PICK r \in {disk[c], [at |-> p.try.at, tries |-> store[c].tries]} : disk' = [disk EXCEPT ![c] = r]
  BY <1>1
<1>3. TypeOK /\ TryInv /\ RefusedInv /\ left' \in 0..MaxFaults /\ To(c, Idle) /\ UNCHANGED <<now, jira, shown, flight, store>>
  BY DEF CreateInvariant, PostRefused, Fault, TypeOK
<1>4. p \in Post /\ Posted(c) = {p} /\ p.try.by = c /\ (\A q \in JiraMade \cup flight : q.try # p.try)
      /\ \A d \in Clone \ {c} : \A q \in Posted(d) : q.try # p.try
  BY PostedIs
<1>5. /\ run' \in [Clone -> {Idle} \cup Running] /\ run'[c] = Idle /\ run'[c].pc = "idle"
      /\ \A d \in Clone \ {c} : run'[d] = run[d]
      /\ Posted(c)' = {} /\ \A d \in Clone \ {c} : Posted(d)' = Posted(d)
  BY <1>3, PostEnds
<1>6. p.try = [at |-> p.try.at, by |-> c] /\ p.try.at \in Nat /\ store[c].tries \subseteq Try /\ disk[c] \in State
  BY <1>3, <1>4, TryIs DEF TypeOK
<1>7. r \in State
  BY <1>6 DEF State
<1>8. disk' \in [Clone -> State] /\ disk'[c] = r /\ \A d \in Clone \ {c} : disk'[d] = disk[d]
  BY <1>2, <1>3, <1>7, DiskTyped
<1>9. TypeOK'
  BY <1>3, <1>5, <1>8, StoreSame, TypesKept
<1>10. Pending' \subseteq Pending
  BY <1>3, <1>5 DEF Pending
<1>11. Live' \subseteq Live
  BY <1>3, <1>10 DEF Live, JiraMade, JiraId
<1>12. \A d \in Clone : \A q \in Posted(d)' : \A x \in flight' : q.try # x.try
  <2>1. \A d \in Clone : Posted(d)' \subseteq Posted(d)
    BY <1>5
  <2>2. \A d \in Clone : \A q \in Posted(d) : \A x \in flight : q.try # x.try
    BY FlightIs
  <2>3. flight' = flight
    BY <1>3
  <2>4. QED
    BY <2>1, <2>2, <2>3
<1>13. RefusedInv'
  <2>1. CASE r = disk[c]
    <3>1. \A d \in Clone : disk'[d] = disk[d]
      BY <1>8, <2>1
    <3>2. \A d \in Clone : run'[d] # Idle => run[d] # Idle /\ run'[d].refused = run[d].refused
      BY <1>5
    <3>3. QED
      BY <1>3, <1>11, <3>1, <3>2, RefusedKept
  <2>2. CASE r = [at |-> p.try.at, tries |-> store[c].tries]
    <3>1. r.at = p.try.at
      BY <2>2
    <3>2. p.try \in store[c].tries
      <4>1. p \in Live
        BY DEF Live, Pending
      <4>2. QED
        BY <1>3, <1>4, <4>1 DEF TryInv
    <3>3. \A q \in Live' : q.try # p.try
      <4>1. Live' = JiraMade \cup flight \cup UNION {Posted(d)' : d \in Clone}
        BY <1>3 DEF Live, Pending, JiraMade, JiraId
      <4>2. \A d \in Clone : \A q \in Posted(d)' : q.try # p.try
        BY <1>4, <1>5
      <4>3. QED
        BY <1>4, <4>1, <4>2
    <3>4. Refused(c, r)'
      BY <1>3, <1>6, <3>1, <3>2, <3>3 DEF Refused
    <3>5. ASSUME NEW d \in Clone \ {c}
          PROVE  Refused(d, disk[d])' /\ (run[d] # Idle => Refused(d, run[d].refused)')
      <4>1. Refused(d, disk[d]) /\ (run[d] # Idle => Refused(d, run[d].refused))
        BY <1>3 DEF RefusedInv
      <4>2. disk'[d] = disk[d] /\ run'[d] = run[d] /\ store'[d] = store[d]
        BY <1>3, <1>5, <1>8
      <4>3. QED
        BY <1>11, <4>1, <4>2 DEF Refused
    <3>6. QED
      <4>1. ASSUME NEW d \in Clone
            PROVE  Refused(d, disk[d])' /\ (run'[d] # Idle => Refused(d, run[d].refused)')
        <5>1. CASE d = c
          BY <1>5, <1>8, <3>4, <5>1 DEF Refused
        <5>2. CASE d # c
          BY <1>5, <3>5, <5>2
        <5>3. QED
          BY <5>1, <5>2
      <4>2. QED
        BY <4>1 DEF RefusedInv
  <2>3. QED
    BY <2>1, <2>2
<1>14. \A d \in Clone : run'[d] = run[d] \/ run'[d].pc = "idle"
  BY <1>5
<1>15. QED
  BY <1>3, <1>9, <1>10, <1>12, <1>13, <1>14, FewerCase

\* The answer to a POST is lost: it may land yet.
LEMMA PostLostCase ==
  ASSUME CreateInvariant, NEW c \in Clone, PostLost(c)
  PROVE  CreateInvariant'
<1>1. PICK p \in Posted(c) : flight' = flight \cup {p}
  BY DEF PostLost
<1>2. PICK r \in {disk[c], run[c].refused} : disk' = [disk EXCEPT ![c] = r]
  BY DEF PostLost
<1>3. TypeOK /\ RefusedInv /\ left' \in 0..MaxFaults /\ To(c, Idle) /\ UNCHANGED <<now, jira, shown, store>>
  BY DEF CreateInvariant, PostLost, Fault, TypeOK
<1>4. p \in Post /\ run[c] \in Running /\ run[c] # Idle /\ Posted(c) = {p} /\ p.try.by = c
      /\ (\A q \in JiraMade \cup flight : q.try # p.try)
      /\ \A d \in Clone \ {c} : \A q \in Posted(d) : q.try # p.try
  BY PostedIs
<1>5. /\ run' \in [Clone -> {Idle} \cup Running] /\ run'[c] = Idle /\ run'[c].pc = "idle"
      /\ \A d \in Clone \ {c} : run'[d] = run[d]
      /\ Posted(c)' = {} /\ \A d \in Clone \ {c} : Posted(d)' = Posted(d)
  BY <1>3, PostEnds
<1>6. r \in State
  BY <1>3, <1>4, RunParts DEF TypeOK
<1>7. disk' \in [Clone -> State] /\ disk'[c] = r /\ \A d \in Clone \ {c} : disk'[d] = disk[d]
  BY <1>2, <1>3, <1>6, DiskTyped
<1>8. TypeOK'
  <2>1. JiraId' = JiraId /\ Store' = Store /\ Running' = Running
    BY <1>3 DEF JiraId, Store, Copy, Running
  <2>2. flight' \subseteq Post
    BY <1>1, <1>3, <1>4 DEF TypeOK
  <2>3. QED
    BY <1>3, <1>5, <1>7, <2>1, <2>2 DEF TypeOK
<1>9. Pending' \subseteq Pending
  BY <1>1, <1>5 DEF Pending
<1>10. Live' \subseteq Live
  BY <1>3, <1>9 DEF Live, JiraMade, JiraId
<1>11. \A d \in Clone : \A q \in Posted(d)' : \A x \in flight' : q.try # x.try
  <2>1. ASSUME NEW d \in Clone, NEW q \in Posted(d)', NEW x \in flight'
        PROVE  q.try # x.try
    <3>1. d # c /\ q \in Posted(d)
      BY <1>5
    <3>2. CASE x \in flight
      BY <3>1, <3>2, PostedIs
    <3>3. CASE x = p
      BY <1>4, <3>1, <3>3
    <3>4. QED
      BY <1>1, <3>2, <3>3
  <2>2. QED
    BY <2>1
<1>12. RefusedInv'
  <2>1. \A d \in Clone : disk'[d] = disk[d] \/ (run[d] # Idle /\ disk'[d] = run[d].refused)
    BY <1>4, <1>7
  <2>2. \A d \in Clone : run'[d] # Idle => run[d] # Idle /\ run'[d].refused = run[d].refused
    BY <1>5
  <2>3. QED
    BY <1>3, <1>10, <2>1, <2>2, RefusedKept
<1>13. \A d \in Clone : run'[d] = run[d] \/ run'[d].pc = "idle"
  BY <1>5
<1>14. QED
  BY <1>3, <1>8, <1>9, <1>11, <1>12, <1>13, FewerCase

-----------------------------------------------------------------------------
(* The clock, the search and the exchange.                                 *)

\* Neither Jira nor a POST changes, nor what a clone has tried.
LEMMA SameWorld ==
  ASSUME CreateInvariant, now' \in Nat, now <= now', UNCHANGED <<jira, flight>>,
         \A r \in Clone \cup {Remote} : store'[r].tries = store[r].tries,
         \A d \in Clone : Posted(d)' = Posted(d)
  PROVE  /\ JiraId' = JiraId /\ JiraMade' = JiraMade /\ Pending' = Pending /\ Live' = Live
         /\ TryInv' /\ LaterInv' /\ OnceInv'
<1>1. JiraId' = JiraId /\ JiraMade' = JiraMade
  BY DEF JiraId, JiraMade
<1>2. Pending' = Pending
  BY DEF Pending
<1>3. Live' = Live
  BY <1>1, <1>2 DEF Live
<1>4. TypeOK /\ TryInv /\ LaterInv /\ OnceInv /\ now \in Nat
  BY Parts
<1>5. TryInv' /\ LaterInv' /\ OnceInv'
  BY <1>3, <1>4, LiveKept
<1>6. QED
  BY <1>1, <1>2, <1>3, <1>5

\* The search shows one issue more.
LEMMA ShowCase ==
  ASSUME CreateInvariant, NEW j \in JiraId, Show(j)
  PROVE  CreateInvariant'
<1>1. /\ TypeOK /\ TryInv /\ PostInv /\ TimeInv /\ RefusedInv /\ SearchInv /\ LaterInv /\ OnceInv
      /\ now \in Nat /\ now \in 1..MaxTime
  BY Parts
<1>2. shown' = shown \cup {j} /\ UNCHANGED <<now, jira, flight, store, disk, run, left>>
  BY DEF Show
<1>3. \A d \in Clone : Posted(d)' = Posted(d)
  BY <1>2 DEF Posted
<1>4. /\ JiraId' = JiraId /\ JiraMade' = JiraMade /\ Pending' = Pending /\ Live' = Live
      /\ TryInv' /\ LaterInv' /\ OnceInv'
  BY <1>1, <1>2, <1>3, SameWorld
<1>5. TypeOK'
  <2>1. Store' = Store /\ Running' = Running
    BY <1>4 DEF Store, Copy, Running
  <2>2. QED
    BY <1>1, <1>2, <1>4, <2>1 DEF TypeOK
<1>6. PostInv'
  BY <1>1, <1>2, <1>3, <1>4 DEF PostInv
<1>7. TimeInv'
  BY <1>1, <1>2, <1>4 DEF TimeInv
<1>8. RefusedInv'
  BY <1>1, <1>2, <1>4, SameRefused
<1>9. SearchInv'
  BY <1>1, <1>2, <1>4 DEF SearchInv, Fresh, NotFound
<1>10. QED
  BY <1>4, <1>5, <1>6, <1>7, <1>8, <1>9 DEF CreateInvariant

\* Jira's clock ticks: no POST, no issue and no search is late.
LEMMA TickCase ==
  ASSUME CreateInvariant, Tick
  PROVE  CreateInvariant'
<1>1. /\ TypeOK /\ TryInv /\ PostInv /\ TimeInv /\ RefusedInv /\ SearchInv /\ LaterInv /\ OnceInv
      /\ now \in Nat /\ now \in 1..MaxTime
  BY Parts
<1>2. /\ now < MaxTime /\ now' = now + 1 /\ UNCHANGED <<jira, shown, flight, store, disk, run, left>>
      /\ \A j \in JiraId \ shown : now < jira[j].at + Lag
      /\ \A c \in Clone : run[c].pc = "hits" /\ run[c].sought > 0 => now < run[c].sought + Drag
  BY DEF Tick
<1>3. \A p \in Pending : now < p.try.at + Delay
  BY DEF Tick, Pending
<1>4. now' \in Nat /\ now <= now' /\ now' \in 1..MaxTime
  BY <1>1, <1>2
<1>5. \A d \in Clone : Posted(d)' = Posted(d)
  BY <1>2 DEF Posted
<1>6. /\ JiraId' = JiraId /\ JiraMade' = JiraMade /\ Pending' = Pending /\ Live' = Live
      /\ TryInv' /\ LaterInv' /\ OnceInv'
  BY <1>1, <1>2, <1>4, <1>5, SameWorld
<1>7. TypeOK'
  <2>1. Store' = Store /\ Running' = Running
    BY <1>6 DEF Store, Copy, Running
  <2>2. QED
    BY <1>1, <1>2, <1>4, <1>6, <2>1 DEF TypeOK
<1>8. PostInv'
  BY <1>1, <1>2, <1>5, <1>6 DEF PostInv
<1>9. TimeInv'
  <2>1. ASSUME NEW p \in Pending
        PROVE  p.try.at <= now' /\ now' <= p.try.at + Delay
    <3>1. p.try.at \in Nat
      BY <1>1, JiraIs, TryIs
    <3>2. p.try.at <= now /\ now < p.try.at + Delay
      BY <1>1, <1>3 DEF TimeInv
    <3>3. QED
      BY <1>1, <1>2, <3>1, <3>2
  <2>2. ASSUME NEW j \in JiraId
        PROVE  /\ jira[j].post.try.at <= jira[j].at /\ jira[j].at <= now'
               /\ jira[j].at <= jira[j].post.try.at + Delay
               /\ j \notin shown => now' <= jira[j].at + Lag
    <3>1. jira[j].at \in Nat
      BY <1>1, JiraIs
    <3>2. /\ jira[j].post.try.at <= jira[j].at /\ jira[j].at <= now
          /\ jira[j].at <= jira[j].post.try.at + Delay
      BY <1>1 DEF TimeInv
    <3>3. jira[j].at <= now'
      BY <1>1, <1>2, <3>1, <3>2
    <3>4. j \notin shown => now' <= jira[j].at + Lag
      BY <1>1, <1>2, <3>1
    <3>5. QED
      BY <3>2, <3>3, <3>4
  <2>3. QED
    BY <1>2, <1>6, <2>1, <2>2 DEF TimeInv
<1>10. RefusedInv'
  BY <1>1, <1>2, <1>6, SameRefused
<1>11. SearchInv'
  <2> SUFFICES ASSUME NEW d \in Clone
               PROVE  /\ run[d].pc = "losers" => run[d].sought = 0
                      /\ run[d].pc = "hits" /\ run[d].sought > 0 => Fresh(d)' /\ (run[d].found = 0 => NotFound(d)')
    BY <1>2 DEF SearchInv
  <2>1. run[d].pc = "losers" => run[d].sought = 0
    BY <1>1 DEF SearchInv
  <2>2. ASSUME run[d].pc = "hits", run[d].sought > 0
        PROVE  Fresh(d)' /\ (run[d].found = 0 => NotFound(d)')
    <3>1. Fresh(d) /\ (run[d].found = 0 => NotFound(d))
      BY <1>1, <2>2 DEF SearchInv
    <3>2. NotFound(d)' <=> NotFound(d)
      BY <1>2, <1>6 DEF NotFound
    <3>3. run[d].sought \in Nat
      BY <1>1, <2>2, RunIs, RunParts
    <3>4. run[d].sought <= now /\ now < run[d].sought + Drag
      BY <1>2, <2>2, <3>1 DEF Fresh
    <3>5. run[d].sought <= now' /\ now' <= run[d].sought + Drag
      BY <1>1, <1>2, <3>3, <3>4
    <3>6. Fresh(d)'
      BY <1>2, <3>5 DEF Fresh
    <3>7. QED
      BY <3>1, <3>2, <3>6
  <2>3. QED
    BY <2>1, <2>2
<1>12. QED
  BY <1>6, <1>7, <1>8, <1>9, <1>10, <1>11 DEF CreateInvariant

\* The search for an issue that carries Self's id: what it does not find is
\* too old for it, or Jira does not show it yet.
LEMMA CreatedSearchCase ==
  ASSUME CreateInvariant, NEW c \in Clone, CreatedSearch(c)
  PROVE  CreateInvariant'
<1>1. /\ TypeOK /\ TryInv /\ PostInv /\ TimeInv /\ RefusedInv /\ SearchInv /\ LaterInv /\ OnceInv
      /\ now \in Nat /\ now \in 1..MaxTime
  BY Parts
<1> DEFINE seen == SeenSince(Latest(store[c].tries))
           found == IF seen = {} THEN 0 ELSE Min(seen)
           r == [run[c] EXCEPT !.sought = now, !.found = found]
<1>2. /\ run[c].pc = "hits" /\ run[c] \in Running /\ run[c] # Idle /\ To(c, r)
      /\ UNCHANGED <<now, jira, shown, flight, store, disk, left>>
  <2>1. run[c].pc = "hits" /\ To(c, r) /\ UNCHANGED <<now, jira, shown, flight, store, disk, left>>
    BY DEF CreatedSearch, Turn
  <2>2. QED
    BY <1>1, <2>1, RunIs
<1>3. seen \subseteq shown /\ shown \subseteq JiraId /\ JiraId \subseteq Nat \ {0}
  BY <1>1, JiraIs DEF SeenSince, TypeOK, JiraId
<1>4. \A j \in shown \ seen : jira[j].at + Overlap < Latest(store[c].tries)
  <2>1. Latest(store[c].tries) \in Nat
    <3>1. store[c].tries \in SUBSET Try /\ \A t \in store[c].tries : t.at <= now
      BY <1>1, TryIs DEF TryInv
    <3>2. QED
      BY <1>1, <3>1, LatestIs
  <2>2. ASSUME NEW j \in shown, j \notin seen
        PROVE  jira[j].at + Overlap < Latest(store[c].tries)
    <3>1. ~(jira[j].at + Overlap >= Latest(store[c].tries))
      BY <2>2 DEF SeenSince
    <3>2. jira[j].at \in Nat
      BY <1>1, <1>3, JiraIs
    <3>3. QED
      BY <2>1, <3>1, <3>2
  <2>3. QED
    BY <2>2
<1> HIDE DEF seen
<1>5. found \in {0} \cup JiraId /\ (found = 0 => seen = {})
  BY <1>3, LeastOf
<1> HIDE DEF found
<1>6. /\ r \in Running /\ r.pc = "hits" /\ r.sought = now /\ r.found = found /\ r.refused = run[c].refused
  BY <1>1, <1>2, <1>5 DEF Running
<1> HIDE DEF r
<1>7. run' \in [Clone -> {Idle} \cup Running] /\ run'[c] = r /\ \A d \in Clone \ {c} : run'[d] = run[d]
  BY <1>1, <1>2, <1>6, ToTyped
<1>8. \A d \in Clone : Posted(d)' = Posted(d)
  BY <1>2, <1>6, <1>7 DEF Posted
<1>9. /\ JiraId' = JiraId /\ JiraMade' = JiraMade /\ Pending' = Pending /\ Live' = Live
      /\ TryInv' /\ LaterInv' /\ OnceInv'
  <2>1. now' \in Nat /\ now <= now' /\ \A q \in Clone \cup {Remote} : store'[q].tries = store[q].tries
    BY <1>1, <1>2
  <2>2. QED
    BY <1>2, <1>8, <2>1, SameWorld
<1>10. TypeOK'
  BY <1>1, <1>2, <1>7, TypesKept DEF TypeOK
<1>11. PostInv'
  <2> SUFFICES ASSUME NEW d \in Clone
               PROVE  /\ run'[d].pc = "post" => \E q \in run'[d].post : run'[d].post = {q}
                      /\ run'[d].pc = "made" => run'[d].found # 0
                      /\ \A q \in Posted(d)' : q.try.by = d /\ \A x \in JiraMade' \cup flight' : x.try # q.try
    BY DEF PostInv
  <2>1. /\ run[d].pc = "post" => \E q \in run[d].post : run[d].post = {q}
        /\ run[d].pc = "made" => run[d].found # 0
        /\ \A q \in Posted(d) : q.try.by = d /\ \A x \in JiraMade \cup flight : x.try # q.try
    BY <1>1 DEF PostInv
  <2>2. run'[d].pc \in {"post", "made"} => run'[d] = run[d]
    BY <1>6, <1>7
  <2>3. QED
    BY <1>2, <1>8, <1>9, <2>1, <2>2
<1>12. TimeInv'
  BY <1>1, <1>2, <1>9 DEF TimeInv
<1>13. RefusedInv'
  <2>1. \A d \in Clone : run'[d] # Idle => run[d] # Idle /\ run'[d].refused = run[d].refused
    BY <1>2, <1>6, <1>7
  <2>2. \A q \in Clone \cup {Remote} : store'[q].tries = store[q].tries
    BY <1>2
  <2>3. \A d \in Clone : disk'[d] = disk[d]
    BY <1>2
  <2>4. QED
    BY <1>1, <1>9, <2>1, <2>2, <2>3, RefusedKept
<1>14. SearchInv'
  <2> SUFFICES ASSUME NEW d \in Clone
               PROVE  /\ run'[d].pc = "losers" => run'[d].sought = 0
                      /\ run'[d].pc = "hits" /\ run'[d].sought > 0 => Fresh(d)' /\ (run'[d].found = 0 => NotFound(d)')
    BY DEF SearchInv
  <2>1. CASE d = c
    <3>1. now <= now /\ now <= now + Drag
      BY <1>1
    <3>2. Fresh(c)'
      BY <1>2, <1>6, <1>7, <3>1 DEF Fresh
    <3>3. ASSUME found = 0
          PROVE  NotFound(c)'
      <4>1. ASSUME NEW j \in JiraId
            PROVE  jira[j].at + Overlap < Latest(store[c].tries) \/ now <= jira[j].at + Lag
        <5>1. CASE j \in shown
          BY <1>4, <1>5, <3>3, <5>1
        <5>2. CASE j \notin shown
          BY <1>1, <5>2 DEF TimeInv
        <5>3. QED
          BY <5>1, <5>2
      <4>2. QED
        BY <1>2, <1>6, <1>7, <1>9, <4>1 DEF NotFound
    <3>4. QED
      BY <1>6, <1>7, <2>1, <3>2, <3>3
  <2>2. CASE d # c
    <3>1. run'[d] = run[d]
      BY <1>7, <2>2
    <3>2. (Fresh(d)' <=> Fresh(d)) /\ (NotFound(d)' <=> NotFound(d))
      BY <1>2, <1>9, <3>1 DEF Fresh, NotFound
    <3>3. QED
      BY <1>1, <3>1, <3>2 DEF SearchInv
  <2>3. QED
    BY <2>1, <2>2
<1>15. QED
  BY <1>9, <1>10, <1>11, <1>12, <1>13, <1>14 DEF CreateInvariant

\* What the exchange makes of what two repositories have.
LEMMA MergedIs ==
  ASSUME TypeOK, NEW s \in Store, NEW t \in Store
  PROVE  Merged(s, t) \in Store /\ Merged(s, t).tries = s.tries \cup t.tries
<1> DEFINE first == IF Precedes(s, t) THEN s ELSE t
<1>1. /\ s.has \in BOOLEAN /\ s.tries \subseteq Try /\ s.met \in Nat
      /\ s.copies \subseteq Copy /\ s.archived \subseteq Copy \cup {Self}
      /\ t.has \in BOOLEAN /\ t.tries \subseteq Try /\ t.met \in Nat
      /\ t.copies \subseteq Copy /\ t.archived \subseteq Copy \cup {Self}
  BY StoreParts
<1>2. first.link \in {0} \cup JiraId /\ first.place \in 0..MaxPlace
  BY StoreParts
<1>3. First(s.met, t.met) \in Nat
  BY <1>1, FirstOf
<1>4. Merged(s, t) = [has |-> s.has \/ t.has, tries |-> s.tries \cup t.tries,
                      link |-> first.link, place |-> first.place, met |-> First(s.met, t.met),
                      copies |-> s.copies \cup t.copies, archived |-> s.archived \cup t.archived]
  BY DEF Merged
<1> HIDE DEF first
<1>5. QED
  BY <1>1, <1>2, <1>3, <1>4 DEF Store

\* A clone pushes or pulls: who learns of an attempt learns of those it was
\* made with.
LEMMA ExchangeCase ==
  ASSUME CreateInvariant, NEW from \in Clone \cup {Remote}, NEW to \in Clone \cup {Remote}, Exchange(from, to)
  PROVE  CreateInvariant'
<1>1. /\ TypeOK /\ TryInv /\ PostInv /\ TimeInv /\ RefusedInv /\ SearchInv /\ LaterInv /\ OnceInv
      /\ now \in Nat /\ now \in 1..MaxTime
  BY Parts
<1>2. store' = [store EXCEPT ![to] = Merged(store[from], store[to])]
      /\ UNCHANGED <<now, jira, shown, flight, disk, run, left>>
  BY DEF Exchange
<1>3. Merged(store[from], store[to]) \in Store
      /\ Merged(store[from], store[to]).tries = store[from].tries \cup store[to].tries
  BY <1>1, TryIs, MergedIs
<1>4. /\ store' \in [Clone \cup {Remote} -> Store]
      /\ store'[to].tries = store[from].tries \cup store[to].tries
      /\ \A r \in Clone \cup {Remote} : r # to => store'[r].tries = store[r].tries
  BY <1>1, <1>2, <1>3 DEF TypeOK
<1>5. \A r \in Clone \cup {Remote} : store[r].tries \subseteq store'[r].tries
  BY <1>4
<1>6. JiraId' = JiraId /\ JiraMade' = JiraMade
  BY <1>2 DEF JiraId, JiraMade
<1>7. \A d \in Clone : Posted(d)' = Posted(d)
  BY <1>2 DEF Posted
<1>8. Pending' = Pending
  BY <1>2, <1>7 DEF Pending
<1>9. Live' = Live
  BY <1>6, <1>8 DEF Live
<1>10. TypeOK'
  BY <1>1, <1>2, <1>4, TypesKept DEF TypeOK
<1>11. TryInv'
  <2>1. ASSUME NEW r \in Clone \cup {Remote}, NEW t \in store'[r].tries
        PROVE  t \in store'[t.by].tries /\ 0 < t.at /\ t.at <= now
    <3>1. PICK q \in Clone \cup {Remote} : t \in store[q].tries
      BY <1>4
    <3>2. t \in store[t.by].tries /\ 0 < t.at /\ t.at <= now
      BY <1>1, <3>1 DEF TryInv
    <3>3. t.by \in Clone
      BY <1>1, <3>1, TryIs
    <3>4. QED
      BY <1>5, <3>2, <3>3
  <2>2. ASSUME NEW p \in Live
        PROVE  p.try \in store'[p.try.by].tries /\ p.knew \subseteq store'[p.try.by].tries
    <3>1. p.try.by \in Clone
      BY <1>1, JiraIs, TryIs
    <3>2. p.try \in store[p.try.by].tries /\ p.knew \subseteq store[p.try.by].tries
      BY <1>1 DEF TryInv
    <3>3. QED
      BY <1>5, <3>1, <3>2
  <2>3. QED
    BY <1>2, <1>9, <2>1, <2>2 DEF TryInv
<1>12. PostInv'
  BY <1>1, <1>2, <1>6, <1>7 DEF PostInv
<1>13. TimeInv'
  BY <1>1, <1>2, <1>6, <1>8 DEF TimeInv
<1>14. RefusedInv'
  <2>1. ASSUME NEW d \in Clone, NEW r, Refused(d, r)
        PROVE  Refused(d, r)'
    BY <1>5, <1>9, <2>1 DEF Refused
  <2>2. ASSUME NEW d \in Clone
        PROVE  Refused(d, disk[d])' /\ (run'[d] # Idle => Refused(d, run[d].refused)')
    <3>1. Refused(d, disk[d]) /\ (run[d] # Idle => Refused(d, run[d].refused))
      BY <1>1 DEF RefusedInv
    <3>2. store[d].tries \subseteq store'[d].tries
      BY <1>5
    <3>3. QED
      BY <1>2, <1>9, <3>1, <3>2 DEF Refused
  <2>3. QED
    BY <2>2 DEF RefusedInv
<1>15. SearchInv'
  <2> SUFFICES ASSUME NEW d \in Clone
               PROVE  /\ run[d].pc = "losers" => run[d].sought = 0
                      /\ run[d].pc = "hits" /\ run[d].sought > 0 => Fresh(d)' /\ (run[d].found = 0 => NotFound(d)')
    BY <1>2 DEF SearchInv
  <2>1. Latest(store[d].tries) <= Latest(store'[d].tries) /\ Latest(store[d].tries) \in Nat /\ Latest(store'[d].tries) \in Nat
    <3>1. store[d].tries \in SUBSET Try /\ store'[d].tries \in SUBSET Try
      BY <1>1, <1>4, TryIs, StoreParts
    <3>2. (\A t \in store[d].tries : t.at <= now) /\ (\A t \in store'[d].tries : t.at <= now)
      BY <1>1, <1>2, <1>11 DEF TryInv
    <3>3. /\ Latest(store[d].tries) \in 0..now
          /\ Latest(store[d].tries) # 0 => \E t \in store[d].tries : t.at = Latest(store[d].tries)
      BY <1>1, <3>1, <3>2, LatestIs
    <3>4. Latest(store'[d].tries) \in 0..now /\ \A t \in store'[d].tries : t.at <= Latest(store'[d].tries)
      BY <1>1, <3>1, <3>2, LatestIs
    <3>5. CASE Latest(store[d].tries) = 0
      BY <1>1, <3>3, <3>4, <3>5
    <3>6. CASE Latest(store[d].tries) # 0
      <4>1. PICK t \in store[d].tries : t.at = Latest(store[d].tries)
        BY <3>3, <3>6
      <4>2. t.at <= Latest(store'[d].tries)
        BY <1>5, <3>4, <4>1
      <4>3. QED
        BY <1>1, <3>3, <3>4, <4>1, <4>2
    <3>7. QED
      BY <3>5, <3>6
  <2>2. NotFound(d) => NotFound(d)'
    <3>1. ASSUME NEW j \in JiraId, jira[j].at + Overlap < Latest(store[d].tries)
          PROVE  jira[j].at + Overlap < Latest(store'[d].tries)
      <4>1. jira[j].at \in Nat
        BY <1>1, JiraIs
      <4>2. QED
        BY <2>1, <3>1, <4>1
    <3>2. QED
      BY <1>2, <1>6, <3>1 DEF NotFound
  <2>3. Fresh(d)' <=> Fresh(d)
    BY <1>2 DEF Fresh
  <2>4. QED
    BY <1>1, <2>2, <2>3 DEF SearchInv
<1>16. LaterInv'
  <2>1. ASSUME NEW r \in Clone \cup {Remote}, NEW p \in Live, NEW t \in store'[r].tries,
               t.by = p.try.by, t.at > p.try.at
        PROVE  Overtaken(r, p)'
    <3>1. PICK q \in Clone \cup {Remote} : t \in store[q].tries /\ store[q].tries \subseteq store'[r].tries
      BY <1>4
    <3>2. Overtaken(q, p)
      BY <1>1, <2>1, <3>1 DEF LaterInv
    <3>3. QED
      BY <3>1, <3>2 DEF Overtaken
  <2>2. QED
    BY <1>9, <2>1 DEF LaterInv
<1>17. OnceInv'
  BY <1>1, <1>9 DEF OnceInv
<1>18. QED
  BY <1>10, <1>11, <1>12, <1>13, <1>14, <1>15, <1>16, <1>17 DEF CreateInvariant

-----------------------------------------------------------------------------
(* A new attempt.                                                          *)

\* What a run that makes a new attempt may conclude of a POST whose attempt it
\* knows: that it is another's, and the latest of all was refused; or that a
\* later attempt of another has hidden it.
LEMMA Decided ==
  ASSUME CreateInvariant, NEW c \in Clone, Free(c), Ready(c), NEW p \in Live, p.try \in store[c].tries
  PROVE  (~Doubts(c) /\ p.try.by # c) \/ Overtaken(c, p)
<1> DEFINE tries == store[c].tries
           L == Latest(tries)
           R == run[c].refused
<1>1. /\ TypeOK /\ TryInv /\ PostInv /\ TimeInv /\ RefusedInv /\ SearchInv /\ LaterInv /\ OnceInv
      /\ now \in Nat /\ now \in 1..MaxTime
  BY Parts
<1>2. run[c].pc = "hits" /\ run[c] \in Running /\ run[c] # Idle
  <2>1. run[c].pc = "hits"
    BY DEF Free, Turn
  <2>2. QED
    BY <1>1, <2>1, RunIs
<1>3. R \in State /\ R.at \in Nat /\ run[c].sought \in Nat /\ run[c].found \in {0} \cup JiraId
  BY <1>2, RunParts DEF State
<1>4. tries \in SUBSET Try /\ \A t \in tries : t.at \in Nat /\ t.by \in Clone /\ 0 < t.at /\ t.at <= now
  BY <1>1, TryIs DEF TryInv
<1>5. /\ L \in 0..now /\ L \in Nat /\ \A t \in tries : t.at <= L
      /\ L # 0 => \E t \in tries : t.at = L
  BY <1>1, <1>4, LatestIs
<1>6. p \in Post /\ p.try \in Try /\ p.try = [at |-> p.try.at, by |-> p.try.by] /\ p.try.at \in Nat
      /\ 0 < p.try.at /\ p.try.at <= L
  BY <1>1, <1>4, <1>5, JiraIs, TryIs
<1>7. ASSUME NEW t \in tries, t.at > p.try.at
      PROVE  Overtaken(c, p)
  <2>1. CASE t.by # p.try.by
    BY <1>7, <2>1 DEF Overtaken
  <2>2. CASE t.by = p.try.by
    BY <1>1, <1>7, <2>2 DEF LaterInv
  <2>3. QED
    BY <2>1, <2>2
<1>8. CASE ~Doubts(c)
  <2>1. L <= R.at
    BY <1>3, <1>5, <1>8 DEF Doubts, InDoubt
  <2>2. CASE p.try.by # c
    BY <1>8, <2>2
  <2>3. CASE p.try.by = c
    <3>1. Refused(c, R) /\ R.at # 0
      <4>1. Refused(c, R)
        BY <1>1, <1>2 DEF RefusedInv
      <4>2. R.at # 0
        BY <1>3, <1>5, <1>6, <2>1
      <4>3. QED
        BY <4>1, <4>2
    <3>2. [at |-> R.at, by |-> c] \in tries /\ p.try # [at |-> R.at, by |-> c]
      BY <3>1 DEF Refused
    <3>3. p.try.at # R.at
      BY <1>6, <2>3, <3>2
    <3>4. R.at > p.try.at
      BY <1>3, <1>5, <1>6, <2>1, <3>3
    <3>5. QED
      BY <1>7, <3>2, <3>4
  <2>4. QED
    BY <2>2, <2>3
<1>9. CASE Doubts(c)
  <2>1. run[c].sought > 0 /\ run[c].found = 0 /\ now >= L + Settle
    BY <1>9 DEF Ready, Missing
  <2>2. run[c].sought <= now /\ now <= run[c].sought + Drag /\ NotFound(c)
    BY <1>1, <1>2, <2>1 DEF SearchInv, Fresh
  <2>3. CASE p.try.at = L
    <3>1. ASSUME p \in Pending
          PROVE  FALSE
      <4>1. now <= L + Delay
        BY <1>1, <2>3, <3>1 DEF TimeInv
      <4>2. L + Delay < L + Settle
        BY <1>5
      <4>3. QED
        BY <1>1, <1>5, <2>1, <4>1, <4>2
    <3>2. ASSUME NEW j \in JiraId, p = jira[j].post
          PROVE  FALSE
      <4>1. jira[j].at \in Nat
        BY <1>1, JiraIs
      <4>2. L <= jira[j].at /\ jira[j].at <= L + Delay
        BY <1>1, <2>3, <3>2 DEF TimeInv
      <4>3. jira[j].at + Overlap < L \/ run[c].sought <= jira[j].at + Lag
        BY <2>2 DEF NotFound
      <4>4. run[c].sought <= jira[j].at + Lag
        BY <1>5, <4>1, <4>2, <4>3
      <4>5. now <= L + Delay + Lag + Drag
        BY <1>1, <1>3, <1>5, <2>2, <4>1, <4>2, <4>4
      <4>6. QED
        BY <1>1, <1>5, <2>1, <4>5
    <3>3. QED
      BY <3>1, <3>2 DEF Live, JiraMade
  <2>4. CASE p.try.at # L
    <3>1. PICK t \in tries : t.at = L
      BY <1>5, <1>6, <2>4
    <3>2. t.at > p.try.at
      BY <1>5, <1>6, <2>4, <3>1
    <3>3. QED
      BY <1>7, <3>2
  <2>5. QED
    BY <2>3, <2>4
<1>10. QED
  BY <1>8, <1>9

\* An attempt is committed, and its POST is under way.
LEMMA AttemptCase ==
  ASSUME CreateInvariant, NEW c \in Clone, Attempt(c)
  PROVE  CreateInvariant'
<1>1. /\ TypeOK /\ TryInv /\ PostInv /\ TimeInv /\ RefusedInv /\ SearchInv /\ LaterInv /\ OnceInv
      /\ now \in Nat /\ now \in 1..MaxTime
  BY Parts
<1> DEFINE tries == store[c].tries
           q == [try |-> [at |-> now, by |-> c], knew |-> tries, refused |-> tries # {} /\ ~Doubts(c)]
           r == [run[c] EXCEPT !.pc = "post", !.refused = NoRefusal, !.post = {q}]
           s == [store[c] EXCEPT !.tries = @ \cup {q.try}]
<1>2. /\ Free(c) /\ Ready(c) /\ \A t \in tries : t.by = c => t.at < now
      /\ store' = [store EXCEPT ![c] = s] /\ To(c, r)
      /\ UNCHANGED <<now, jira, shown, flight, disk, left>>
  BY DEF Attempt
<1>3. run[c].pc = "hits" /\ run[c] \in Running /\ run[c] # Idle
  <2>1. run[c].pc = "hits"
    BY <1>2 DEF Free, Turn
  <2>2. QED
    BY <1>1, <2>1, RunIs
<1>4. tries \subseteq Try /\ [at |-> now, by |-> c] \in Try /\ store[c] \in Store
  BY <1>1, TryIs DEF Try
<1>5. /\ q \in Post /\ q.try = [at |-> now, by |-> c] /\ q.try.at = now /\ q.try.by = c /\ q.knew = tries
      /\ (q.refused <=> tries # {} /\ ~Doubts(c))
  <2>1. (tries # {} /\ ~Doubts(c)) \in BOOLEAN
    OBVIOUS
  <2>2. QED
    BY <1>4, <2>1 DEF Post
<1> HIDE DEF q
<1>6. s \in Store /\ s.tries = tries \cup {q.try}
  BY <1>4, <1>5 DEF Store
<1>7. r \in Running /\ r.pc = "post" /\ r.refused = NoRefusal /\ r.post = {q} /\ NoRefusal.at = 0
  <2>1. NoRefusal \in State /\ NoRefusal.at = 0
    BY DEF NoRefusal, State
  <2>2. QED
    BY <1>3, <1>5, <2>1 DEF Running
<1> HIDE DEF r, s
<1>8. run' \in [Clone -> {Idle} \cup Running] /\ run'[c] = r /\ \A d \in Clone \ {c} : run'[d] = run[d]
  BY <1>1, <1>2, <1>7, ToTyped
<1>9. /\ store' \in [Clone \cup {Remote} -> Store] /\ store'[c].tries = tries \cup {q.try}
      /\ \A d \in Clone \cup {Remote} : d # c => store'[d].tries = store[d].tries
  BY <1>1, <1>2, <1>6 DEF TypeOK
<1>10. \A d \in Clone \cup {Remote} : store[d].tries \subseteq store'[d].tries
  BY <1>9
<1>11. JiraId' = JiraId /\ JiraMade' = JiraMade
  BY <1>2 DEF JiraId, JiraMade
<1>12. Posted(c) = {} /\ Posted(c)' = {q} /\ \A d \in Clone \ {c} : Posted(d)' = Posted(d)
  BY <1>3, <1>7, <1>8 DEF Posted
<1>13. Pending' = Pending \cup {q}
  BY <1>2, <1>12 DEF Pending
<1>14. Live' = Live \cup {q}
  BY <1>11, <1>13 DEF Live
<1>15. \A d \in Clone \cup {Remote} : q.try \notin store[d].tries
  <2>1. ASSUME NEW d \in Clone \cup {Remote}, q.try \in store[d].tries
        PROVE  FALSE
    <3>1. q.try \in tries
      BY <1>1, <1>5, <2>1 DEF TryInv
    <3>2. now < now
      BY <1>2, <1>5, <3>1
    <3>3. QED
      BY <1>1, <3>2
  <2>2. QED
    BY <2>1
<1>16. ASSUME NEW p \in Live
       PROVE  /\ p \in Post /\ p.try.by \in Clone /\ p.try \in store[p.try.by].tries /\ p.knew \subseteq store[p.try.by].tries
              /\ p.try # q.try /\ q.try \notin p.knew
  <2>1. p \in Post /\ p.try.by \in Clone
    BY <1>1, JiraIs, TryIs
  <2>2. p.try \in store[p.try.by].tries /\ p.knew \subseteq store[p.try.by].tries
    BY <1>1 DEF TryInv
  <2>3. QED
    BY <1>15, <2>1, <2>2
<1>17. TypeOK'
  BY <1>1, <1>2, <1>8, <1>9, TypesKept DEF TypeOK
<1>18. TryInv'
  <2>1. ASSUME NEW d \in Clone \cup {Remote}, NEW t \in store'[d].tries
        PROVE  t \in store'[t.by].tries /\ 0 < t.at /\ t.at <= now
    <3>1. CASE t = q.try
      BY <1>1, <1>5, <1>9, <3>1
    <3>2. CASE t # q.try
      <4>1. t \in store[d].tries
        BY <1>9, <3>2
      <4>2. t \in store[t.by].tries /\ 0 < t.at /\ t.at <= now /\ t.by \in Clone
        BY <1>1, <4>1, TryIs DEF TryInv
      <4>3. QED
        BY <1>10, <4>2
    <3>3. QED
      BY <3>1, <3>2
  <2>2. ASSUME NEW p \in Live'
        PROVE  p.try \in store'[p.try.by].tries /\ p.knew \subseteq store'[p.try.by].tries
    <3>1. CASE p \in Live
      BY <1>10, <1>16, <3>1
    <3>2. CASE p = q
      BY <1>5, <1>9, <3>2
    <3>3. QED
      BY <1>14, <3>1, <3>2
  <2>3. QED
    BY <1>2, <2>1, <2>2 DEF TryInv
<1>19. PostInv'
  <2> SUFFICES ASSUME NEW d \in Clone
               PROVE  /\ run'[d].pc = "post" => \E p \in run'[d].post : run'[d].post = {p}
                      /\ run'[d].pc = "made" => run'[d].found # 0
                      /\ \A p \in Posted(d)' : p.try.by = d /\ \A x \in JiraMade' \cup flight' : x.try # p.try
    BY DEF PostInv
  <2>1. CASE d = c
    <3>1. \A x \in JiraMade \cup flight : x \in Live
      BY DEF Live, Pending
    <3>2. QED
      BY <1>2, <1>5, <1>7, <1>8, <1>11, <1>12, <1>16, <2>1, <3>1
  <2>2. CASE d # c
    <3>1. /\ run[d].pc = "post" => \E p \in run[d].post : run[d].post = {p}
          /\ run[d].pc = "made" => run[d].found # 0
          /\ \A p \in Posted(d) : p.try.by = d /\ \A x \in JiraMade \cup flight : x.try # p.try
      BY <1>1 DEF PostInv
    <3>2. QED
      BY <1>2, <1>8, <1>11, <1>12, <2>2, <3>1
  <2>3. QED
    BY <2>1, <2>2
<1>20. TimeInv'
  <2>1. q.try.at <= now /\ now <= q.try.at + Delay
    BY <1>1, <1>5
  <2>2. \A p \in Pending : p.try.at <= now /\ now <= p.try.at + Delay
    BY <1>1 DEF TimeInv
  <2>3. \A p \in Pending' : p.try.at <= now' /\ now' <= p.try.at + Delay
    BY <1>2, <1>13, <2>1, <2>2
  <2>4. QED
    BY <1>1, <1>2, <1>11, <2>3 DEF TimeInv
<1>21. RefusedInv'
  <2>1. ASSUME NEW d \in Clone, NEW x, Refused(d, x)
        PROVE  x.at # 0 => /\ [at |-> x.at, by |-> d] \in store'[d].tries
                           /\ \A p \in Live' : p.try # [at |-> x.at, by |-> d]
    <3>1. SUFFICES ASSUME x.at # 0
                   PROVE  /\ [at |-> x.at, by |-> d] \in store'[d].tries
                          /\ \A p \in Live' : p.try # [at |-> x.at, by |-> d]
      OBVIOUS
    <3>2. [at |-> x.at, by |-> d] \in store[d].tries /\ \A p \in Live : p.try # [at |-> x.at, by |-> d]
      BY <2>1, <3>1 DEF Refused
    <3>3. q.try # [at |-> x.at, by |-> d]
      BY <1>15, <3>2
    <3>4. QED
      BY <1>10, <1>14, <3>2, <3>3
  <2>2. ASSUME NEW d \in Clone
        PROVE  Refused(d, disk[d])' /\ (run'[d] # Idle => Refused(d, run[d].refused)')
    <3>1. Refused(d, disk[d]) /\ (run[d] # Idle => Refused(d, run[d].refused))
      BY <1>1 DEF RefusedInv
    <3>2. Refused(d, disk[d])'
      <4>1. disk'[d] = disk[d]
        BY <1>2
      <4>2. disk[d].at # 0 => /\ [at |-> disk[d].at, by |-> d] \in store'[d].tries
                              /\ \A p \in Live' : p.try # [at |-> disk[d].at, by |-> d]
        BY <2>1, <3>1
      <4>3. QED
        BY <4>1, <4>2 DEF Refused
    <3>3. CASE d = c
      BY <1>7, <1>8, <3>2, <3>3 DEF Refused
    <3>4. CASE d # c
      <4>1. run'[d] = run[d]
        BY <1>8, <3>4
      <4>2. run[d] # Idle => (run[d].refused.at # 0 =>
                               /\ [at |-> run[d].refused.at, by |-> d] \in store'[d].tries
                               /\ \A p \in Live' : p.try # [at |-> run[d].refused.at, by |-> d])
        BY <2>1, <3>1
      <4>3. QED
        BY <3>2, <4>1, <4>2 DEF Refused
    <3>5. QED
      BY <3>3, <3>4
  <2>3. QED
    BY <2>2 DEF RefusedInv
<1>22. SearchInv'
  <2> SUFFICES ASSUME NEW d \in Clone
               PROVE  /\ run'[d].pc = "losers" => run'[d].sought = 0
                      /\ run'[d].pc = "hits" /\ run'[d].sought > 0 => Fresh(d)' /\ (run'[d].found = 0 => NotFound(d)')
    BY DEF SearchInv
  <2>1. CASE d = c
    BY <1>7, <1>8, <2>1
  <2>2. CASE d # c
    <3>1. run'[d] = run[d] /\ store'[d].tries = store[d].tries
      BY <1>8, <1>9, <2>2
    <3>2. (Fresh(d)' <=> Fresh(d)) /\ (NotFound(d)' <=> NotFound(d))
      BY <1>2, <1>11, <3>1 DEF Fresh, NotFound
    <3>3. QED
      BY <1>1, <3>1, <3>2 DEF SearchInv
  <2>3. QED
    BY <2>1, <2>2
<1>23. LaterInv'
  <2>1. ASSUME NEW d \in Clone \cup {Remote}, NEW p \in Live', NEW t \in store'[d].tries,
               t.by = p.try.by, t.at > p.try.at
        PROVE  Overtaken(d, p)'
    <3>1. CASE p = q
      <4>1. t.at <= now /\ t.at \in Nat
        <5>1. t.at <= now
          BY <1>2, <1>18 DEF TryInv
        <5>2. t \in Try
          BY <1>4, <1>5, <1>9, TryIs, <1>1
        <5>3. QED
          BY <5>1, <5>2 DEF Try
      <4>2. t.at > now
        BY <1>5, <2>1, <3>1
      <4>3. QED
        BY <1>1, <4>1, <4>2
    <3>2. CASE p \in Live /\ t \in store[d].tries
      <4>1. Overtaken(d, p)
        BY <1>1, <2>1, <3>2 DEF LaterInv
      <4>2. QED
        BY <1>10, <4>1 DEF Overtaken
    <3>3. CASE p \in Live /\ t \notin store[d].tries
      <4>1. d = c /\ t = q.try
        BY <1>9, <3>3
      <4>2. p.try.by = c
        BY <1>5, <2>1, <4>1
      <4>3. p.try \in store[c].tries
        BY <1>16, <3>3, <4>2
      <4>4. Overtaken(c, p)
        BY <1>2, <3>3, <4>2, <4>3, Decided
      <4>5. QED
        BY <1>10, <4>1, <4>4 DEF Overtaken
    <3>4. QED
      BY <1>14, <3>1, <3>2, <3>3
  <2>2. QED
    BY <2>1 DEF LaterInv
<1>24. OnceInv'
  <2>1. ASSUME NEW p \in Live', NEW x \in Live', Known(p, x)
        PROVE  Hidden(p, x)
    <3>1. CASE p \in Live /\ x \in Live
      BY <1>1, <2>1, <3>1 DEF OnceInv
    <3>2. CASE p \in Live /\ x = q
      <4>1. p.try \in tries
        BY <1>5, <2>1, <3>2 DEF Known
      <4>2. (~Doubts(c) /\ p.try.by # c) \/ Overtaken(c, p)
        BY <1>2, <3>2, <4>1, Decided
      <4>3. CASE ~Doubts(c) /\ p.try.by # c
        BY <1>5, <3>2, <4>1, <4>3 DEF Hidden
      <4>4. CASE Overtaken(c, p)
        BY <1>5, <3>2, <4>4 DEF Hidden, Overtaken
      <4>5. QED
        BY <4>2, <4>3, <4>4
    <3>3. CASE p = q /\ x \in Live
      BY <1>16, <2>1, <3>3 DEF Known
    <3>4. CASE p = q /\ x = q
      BY <1>5, <1>15, <2>1, <3>4 DEF Known
    <3>5. QED
      BY <1>14, <3>1, <3>2, <3>3, <3>4
  <2>2. QED
    BY <2>1 DEF OnceInv
<1>25. QED
  BY <1>17, <1>18, <1>19, <1>20, <1>21, <1>22, <1>23, <1>24 DEF CreateInvariant

-----------------------------------------------------------------------------
(* Theorems.                                                               *)

\* Nothing has been tried, and Jira has nothing.
LEMMA InitInvariant ==
  ASSUME Init
  PROVE  CreateInvariant
<1>1. /\ now = 1 /\ jira = <<>> /\ shown = {} /\ flight = {}
      /\ store = [r \in Clone \cup {Remote} |-> [has |-> r = Home, tries |-> {}, link |-> 0, place |-> 0, met |-> 0, copies |-> {}, archived |-> {}]]
      /\ disk = [c \in Clone |-> NoRefusal] /\ run = [c \in Clone |-> Idle] /\ left = MaxFaults
  BY DEF Init
<1>2. JiraId = {} /\ JiraMade = {}
  BY <1>1 DEF JiraId, JiraMade
<1>3. \A c \in Clone : run[c] = Idle /\ run[c].pc = "idle" /\ Posted(c) = {}
  BY <1>1 DEF Idle, Posted
<1>4. Pending = {} /\ Live = {}
  BY <1>1, <1>2, <1>3 DEF Pending, Live
<1>5. \A r \in Clone \cup {Remote} : store[r].tries = {}
  BY <1>1
<1>6. TypeOK
  <2>1. store \in [Clone \cup {Remote} -> Store]
    BY <1>1 DEF Store
  <2>2. disk \in [Clone -> State]
    BY <1>1 DEF State, NoRefusal
  <2>3. jira \in Seq([at : Nat, post : Post])
    BY <1>1
  <2>4. now \in 1..MaxTime /\ left \in 0..MaxFaults /\ run \in [Clone -> {Idle} \cup Running]
    BY <1>1
  <2>5. QED
    BY <1>1, <2>1, <2>2, <2>3, <2>4 DEF TypeOK
<1>7. TryInv /\ LaterInv /\ OnceInv
  BY <1>4, <1>5 DEF TryInv, LaterInv, OnceInv
<1>8. PostInv /\ SearchInv
  BY <1>3 DEF PostInv, SearchInv
<1>9. TimeInv
  BY <1>2, <1>4 DEF TimeInv
<1>10. RefusedInv
  <2>1. NoRefusal.at = 0
    BY DEF NoRefusal
  <2>2. QED
    BY <1>1, <1>3, <2>1 DEF RefusedInv, Refused
<1>11. QED
  BY <1>6, <1>7, <1>8, <1>9, <1>10 DEF CreateInvariant

\* Every step of a run keeps the invariant.
LEMMA RunStepInvariant ==
  ASSUME CreateInvariant, NEW c \in Clone, RunStep(c)
  PROVE  CreateInvariant'
<1>1. CASE Begin(c)
  BY <1>1, BeginCase
<1>2. CASE Consolidate(c)
  BY <1>2, ConsolidateCase
<1>3. CASE Search(c)
  BY <1>3, SearchCase
<1>4. CASE \E j \in JiraId : Adopt(c, j) \/ Orphan(c, j) \/ LinkHit(c, j)
  BY <1>4, AdoptCase, OrphanCase, LinkHitCase
<1>5. CASE TurnSkipped(c) \/ Wait(c) \/ FoundKept(c)
  BY <1>5, IdleTurnCase
<1>6. CASE CreatedSearch(c)
  BY <1>6, CreatedSearchCase
<1>7. CASE FoundTaken(c)
  BY <1>7, FoundTakenCase
<1>8. CASE LinkFound(c) \/ Link(c)
  BY <1>8, LinkCase
<1>9. CASE Attempt(c)
  BY <1>9, AttemptCase
<1>10. CASE PostMade(c)
  BY <1>10, PostMadeCase
<1>11. CASE PostRefused(c)
  BY <1>11, PostRefusedCase
<1>12. CASE PostLost(c)
  BY <1>12, PostLostCase
<1>13. QED
  BY <1>1, <1>2, <1>3, <1>4, <1>5, <1>6, <1>7, <1>8, <1>9, <1>10, <1>11, <1>12 DEF RunStep

\* Every step keeps the invariant.
LEMMA StepInvariant ==
  ASSUME CreateInvariant, [Next]_vars
  PROVE  CreateInvariant'
<1>1. CASE Tick
  BY <1>1, TickCase
<1>2. CASE Showing
  BY <1>2, ShowCase DEF Showing
<1>3. CASE \E p \in flight : Land(p) \/ Vanish(p)
  BY <1>3, LandCase, VanishCase
<1>4. ASSUME NEW c \in Clone, Push(c) \/ Pull(c)
      PROVE  CreateInvariant'
  BY <1>4, ExchangeCase DEF Push, Pull
<1>5. ASSUME NEW c \in Clone, RunStep(c)
      PROVE  CreateInvariant'
  BY <1>5, RunStepInvariant
<1>6. ASSUME NEW c \in Clone, Stop(c) \/ Lose(c)
      PROVE  CreateInvariant'
  BY <1>6, StopCase, LoseCase
<1>7. CASE UNCHANGED vars
  <2>1. /\ TypeOK /\ TryInv /\ PostInv /\ TimeInv /\ RefusedInv /\ SearchInv /\ LaterInv /\ OnceInv
        /\ now \in Nat /\ now \in 1..MaxTime
    BY Parts
  <2>2. UNCHANGED <<now, jira, shown, flight, store, disk, run, left>>
    BY <1>7 DEF vars
  <2>3. \A d \in Clone : Posted(d)' = Posted(d)
    BY <2>2 DEF Posted
  <2>4. /\ JiraId' = JiraId /\ JiraMade' = JiraMade /\ Pending' = Pending /\ Live' = Live
        /\ TryInv' /\ LaterInv' /\ OnceInv'
    BY <2>1, <2>2, <2>3, SameWorld
  <2>5. TypeOK'
    BY <2>1, <2>2, TypesKept DEF TypeOK
  <2>6. PostInv' /\ TimeInv'
    BY <2>1, <2>2, <2>3, <2>4 DEF PostInv, TimeInv
  <2>7. RefusedInv'
    BY <2>1, <2>2, <2>4, SameRefused
  <2>8. SearchInv'
    BY <2>1, <2>2, <2>4 DEF SearchInv, Fresh, NotFound
  <2>9. QED
    BY <2>4, <2>5, <2>6, <2>7, <2>8 DEF CreateInvariant
<1>8. QED
  BY <1>1, <1>2, <1>3, <1>4, <1>5, <1>6, <1>7 DEF Next

\* What a run that repeats an attempt, or takes one for refused, may conclude,
\* holds throughout (jira/create.go, create, inDoubt, findCreated).
THEOREM CreateInvariance == Spec => []CreateInvariant
<1>1. Init => CreateInvariant
  BY InitInvariant
<1>2. CreateInvariant /\ [Next]_vars => CreateInvariant'
  BY StepInvariant
<1>3. QED
  BY <1>1, <1>2, PTL DEF Spec

\* The variables keep their types: a link, a hit and a found issue are of
\* issues that Jira has.
THEOREM CreateTyped == Spec => []TypeOK
<1>1. CreateInvariant => TypeOK
  BY DEF CreateInvariant
<1>2. QED
  BY <1>1, CreateInvariance, PTL

\* No Jira issue is made by a run that knew of the attempt which made another,
\* unless a later attempt hid it (jira/create.go, create).
THEOREM CreatedOnceOnly == Spec => []CreatedOnce
<1>1. CreateInvariant => CreatedOnce
  <2> SUFFICES ASSUME CreateInvariant, NEW i \in JiraId, NEW j \in JiraId, Known(jira[i].post, jira[j].post)
               PROVE  Hidden(jira[i].post, jira[j].post)
    BY DEF CreatedOnce
  <2>1. jira[i].post \in Live /\ jira[j].post \in Live
    BY DEF Live, JiraMade
  <2>2. QED
    BY <2>1 DEF CreateInvariant, OnceInv
<1>2. QED
  BY <1>1, CreateInvariance, PTL

-----------------------------------------------------------------------------
(* Why Self is never archived, with two clones.                            *)

\* The parts of the invariant.
LEMMA StayParts ==
  ASSUME SelfStays
  PROVE  AbsentInv /\ CopyInv /\ IndexInv /\ LinkInv /\ SelfInv
  BY DEF SelfStays

\* The lesser of two is no later than either.
LEMMA FirstLeast ==
  ASSUME NEW m \in Nat, NEW n \in Nat
  PROVE  /\ m # 0 => First(m, n) # 0 /\ First(m, n) <= m
         /\ n # 0 => First(m, n) # 0 /\ First(m, n) <= n
<1>1. CASE m = 0 \/ n = 0
  BY <1>1 DEF First
<1>2. CASE m # 0 /\ n # 0
  <2>1. {m, n} \in SUBSET Nat /\ {m, n} # {}
    OBVIOUS
  <2>2. Min({m, n}) \in {m, n} /\ Min({m, n}) <= m /\ Min({m, n}) <= n
    BY <2>1, LeastOf
  <2>3. QED
    BY <1>2, <2>2 DEF First
<1>3. QED
  BY <1>1, <1>2

\* Who learns of attempts, or of an earlier marker, still knows that Self was
\* first.
LEMMA EarlyKept ==
  ASSUME NEW s \in Store, NEW t \in Store, NEW x, x.at \in Nat, s.tries \subseteq t.tries,
         s.met # 0 => t.met # 0 /\ t.met <= s.met, Early(s, x)
  PROVE  Early(t, x)
<1>1. CASE \E u \in s.tries : u.at <= x.at
  BY <1>1 DEF Early
<1>2. CASE s.met # 0 /\ s.met < x.at
  <2>1. s.met \in Nat /\ t.met \in Nat
    BY StoreParts
  <2>2. t.met # 0 /\ t.met < x.at
    BY <1>2, <2>1
  <2>3. QED
    BY <2>2 DEF Early
<1>3. QED
  BY <1>1, <1>2 DEF Early

\* That Self is before a copy is what Early says.
LEMMA EarlyIs ==
  ASSUME NEW s \in Store, NEW x \in Copy, x.at # 0, \A t \in s.tries : t.at # 0
  PROVE  /\ Before(s, Self, x) <=> Early(s, x)
         /\ ~(Before(s, Self, x) /\ Before(s, x, Self))
<1> DEFINE tried == {t.at : t \in s.tries}
           all == tried \cup ({s.met} \ {0})
           a == Contact(s, Self).at
           e == Contact(s, Self).export
<1>1. s.tries \subseteq Try /\ s.met \in Nat /\ x.at \in Nat
  BY StoreParts, CopyIs
<1>2. tried \subseteq Nat /\ all \subseteq Nat /\ 0 \notin all
  BY <1>1 DEF Try
<1>3. Contact(s, Self) = IF all = {} THEN [at |-> 0, export |-> FALSE]
                         ELSE [at |-> Min(all), export |-> Min(all) \in tried]
  BY DEF Contact
<1>4. Early(s, x) <=> (\E t \in tried : t <= x.at) \/ (s.met # 0 /\ s.met < x.at)
  BY DEF Early
<1>5. a \in Nat /\ e \in BOOLEAN
  BY ContactIs
<1>6. /\ Before(s, Self, x) <=> \/ x.at # a /\ (x.at = 0 \/ (a # 0 /\ a < x.at))
                                \/ x.at = a /\ e
      /\ Before(s, x, Self) <=> \/ x.at # a /\ (a = 0 \/ (x.at # 0 /\ x.at < a))
                                \/ x.at = a /\ ~e
  BY BeforeIs
<1>7. ~(Before(s, Self, x) /\ Before(s, x, Self))
  BY <1>1, <1>5, <1>6
<1>8. CASE all = {}
  <2>1. a = 0 /\ e = FALSE
    BY <1>3, <1>8
  <2>2. tried = {} /\ s.met = 0
    BY <1>8
  <2>3. QED
    BY <1>4, <1>6, <1>7, <2>1, <2>2
<1>9. CASE all # {}
  <2>1. Min(all) \in all /\ \A b \in all : Min(all) <= b
    BY <1>2, <1>9, LeastOf
  <2>2. a = Min(all) /\ (e <=> Min(all) \in tried)
    <3>1. Contact(s, Self) = [at |-> Min(all), export |-> Min(all) \in tried]
      BY <1>3, <1>9
    <3> HIDE DEF all, tried
    <3>2. a = Min(all) /\ e = (Min(all) \in tried)
      BY <3>1
    <3>3. QED
      BY <3>2
  <2>3. a \in all /\ a # 0 /\ (\A b \in all : a <= b) /\ (e <=> a \in tried)
    BY <1>2, <2>1, <2>2
  <2>4. \A b \in all : b \in tried \/ (s.met # 0 /\ b = s.met)
    OBVIOUS
  <2>5. tried \subseteq all /\ (s.met # 0 => s.met \in all)
    OBVIOUS
  <2> HIDE DEF all, tried, a, e
  <2>6. ASSUME Before(s, Self, x)
        PROVE  Early(s, x)
    <3>1. \/ a < x.at
          \/ x.at = a /\ e
      BY <1>6, <2>3, <2>6
    <3>2. a <= x.at
      BY <1>1, <1>5, <3>1
    <3>3. CASE a \in tried
      BY <1>4, <3>2, <3>3
    <3>4. CASE s.met # 0 /\ a = s.met /\ a \notin tried
      BY <1>4, <2>3, <3>1, <3>4
    <3>5. QED
      BY <2>3, <2>4, <3>3, <3>4
  <2>7. ASSUME Early(s, x)
        PROVE  Before(s, Self, x)
    <3>1. CASE \E t \in tried : t <= x.at
      <4>1. PICK t \in tried : t <= x.at
        BY <3>1
      <4>2. t \in Nat /\ a <= t
        BY <1>2, <2>3, <2>5, <4>1
      <4>3. a < x.at \/ (a = x.at /\ a = t)
        BY <1>1, <1>5, <4>1, <4>2
      <4>4. QED
        BY <1>5, <1>6, <2>3, <4>1, <4>3
    <3>2. CASE s.met # 0 /\ s.met < x.at
      <4>1. a <= s.met
        BY <2>3, <2>5, <3>2
      <4>2. a < x.at
        BY <1>1, <1>5, <3>2, <4>1
      <4>3. QED
        BY <1>1, <1>5, <1>6, <2>3, <4>2
    <3>3. QED
      BY <1>4, <2>7, <3>1, <3>2
  <2>8. QED
    BY <1>7, <2>6, <2>7
<1>10. QED
  BY <1>8, <1>9

\* A copy's Jira issue was made after its attempt, which Home knows of, and so
\* does whoever knows of the attempt know that Self was first.
LEMMA CopyLater ==
  ASSUME CreateInvariant, SelfStays, NEW r \in Clone \cup {Remote}, NEW x \in store[r].copies
  PROVE  /\ x \in Copy /\ x.at \in Nat /\ x.at # 0 /\ x.jira \in JiraId /\ x.by \in Clone
         /\ jira[x.jira].post.try \in store[Home].tries
         /\ \A q \in Clone \cup {Remote} : jira[x.jira].post.try \in store[q].tries => Early(store[q], x)
<1>1. TypeOK /\ TryInv /\ TimeInv
  BY Parts
<1>2. x \in Copy /\ x.at \in Nat /\ x.jira \in JiraId /\ x.by \in Clone
  <2>1. x \in Copy
    BY <1>1, TryIs, StoreParts
  <2>2. QED
    BY <2>1 DEF Copy
<1> DEFINE p == jira[x.jira].post
<1>3. x.at = jira[x.jira].at /\ p.try.by = Home
  BY StayParts DEF CopyInv
<1>4. p \in Live /\ p \in Post
  BY <1>1, <1>2, JiraIs DEF Live, JiraMade
<1>5. p.try.at <= x.at
  BY <1>2, <1>3, <1>1 DEF TimeInv
<1> HIDE DEF p
<1>6. p.try \in store[Home].tries
  BY <1>1, <1>3, <1>4 DEF TryInv
<1>7. 0 < p.try.at /\ p.try.at \in Nat
  <2>1. p.try \in Try
    BY <1>1, <1>4, TryIs
  <2>2. QED
    BY <1>1, <1>6, <2>1, TryIs DEF TryInv
<1>8. x.at # 0
  BY <1>2, <1>5, <1>7
<1>9. \A q \in Clone \cup {Remote} : p.try \in store[q].tries => Early(store[q], x)
  BY <1>5 DEF Early
<1>10. QED
  BY <1>2, <1>6, <1>8, <1>9 DEF p

\* Jira's issues stay what they are.
JiraGrows == JiraId \subseteq JiraId' /\ \A j \in JiraId : jira'[j] = jira[j]

\* A step that teaches no repository anything, nor archives Self: what is left
\* is what becomes of the run.
LEMMA NothingLearnt ==
  ASSUME CreateInvariant, SelfStays, JiraGrows, NEW c \in Clone,
         \A r \in Clone \cup {Remote} :
            /\ store'[r].has = store[r].has /\ store'[r].tries = store[r].tries /\ store'[r].link = store[r].link
            /\ store'[r].met = store[r].met /\ store'[r].copies = store[r].copies /\ Self \notin store'[r].archived,
         \A d \in Clone \ {c} : run'[d] = run[d],
         run'[c] # Idle => Indexed(c)' /\ IF run'[c].self = "absent" THEN Absent(c) ELSE store[c].has
  PROVE  SelfStays'
<1>1. AbsentInv /\ CopyInv /\ IndexInv /\ LinkInv /\ TypeOK /\ PostInv
  BY StayParts, Parts
<1>2. \A d \in Clone : Absent(d)' => Absent(d)
  BY DEF Absent
<1>3. AbsentInv'
  <2>1. \A d \in Clone : run'[d] # Idle /\ run'[d].self # "absent" => store'[d].has
    BY <1>1 DEF AbsentInv
  <2>2. QED
    BY <1>1, <1>2, <2>1 DEF AbsentInv
<1>4. CopyInv'
  <2>1. ASSUME NEW r \in Clone \cup {Remote}, NEW x \in store[r].copies
        PROVE  /\ x \in store'[x.by].copies /\ x.by # Home
               /\ x.at = jira'[x.jira].at /\ jira'[x.jira].post.try.by = Home
    <3>1. x.by \in Clone /\ x.jira \in JiraId
      BY CopyLater
    <3>2. jira'[x.jira] = jira[x.jira]
      BY <3>1 DEF JiraGrows
    <3>3. /\ x \in store[x.by].copies /\ x.by # Home
          /\ x.at = jira[x.jira].at /\ jira[x.jira].post.try.by = Home
      BY <1>1 DEF CopyInv
    <3>4. QED
      BY <3>1, <3>2, <3>3
  <2>2. QED
    BY <2>1 DEF CopyInv
<1>5. IndexInv'
  <2>1. ASSUME NEW d \in Clone \ {c}, run[d] # Idle
        PROVE  Indexed(d)'
    <3>1. Indexed(d) /\ run'[d] = run[d]
      BY <1>1, <2>1 DEF IndexInv
    <3>2. run[d].pc = "made" => run[d].found \in JiraId
      <4>1. run[d] \in Running
        BY <1>1, <2>1, RunIs
      <4>2. QED
        BY <1>1, <4>1, RunParts DEF PostInv
    <3>3. run[d].pc = "made" => jira'[run[d].found] = jira[run[d].found]
      BY <3>2 DEF JiraGrows
    <3>4. QED
      BY <3>1, <3>3 DEF Indexed, Early
  <2>2. QED
    BY <2>1 DEF IndexInv
<1>6. LinkInv'
  <2>1. ASSUME NEW r \in Clone \cup {Remote}, store'[r].link # 0
        PROVE  /\ \/ jira'[store'[r].link].post.try \in store'[r].tries
                  \/ \A d \in Clone : ~Absent(d)'
               /\ \A q \in Clone \cup {Remote} : \A x \in store'[q].copies :
                     x.jira = store'[r].link => Early(store[r], x)'
    <3>1. store[r].link \in JiraId
      BY <1>1, <2>1, TryIs, StoreParts
    <3>2. jira'[store[r].link] = jira[store[r].link]
      BY <3>1 DEF JiraGrows
    <3>3. QED
      BY <1>1, <1>2, <2>1, <3>2 DEF LinkInv, Early
  <2>2. QED
    BY <2>1 DEF LinkInv
<1>7. SelfInv'
  BY DEF SelfInv
<1>8. QED
  BY <1>3, <1>4, <1>5, <1>6, <1>7 DEF SelfStays

\* What remains of a run that goes on with less to do.
Fewer(r, s) ==
    /\ r.self = s.self /\ r.ix = s.ix /\ r.losers \subseteq s.losers /\ r.hits \subseteq s.hits
    /\ r.pc = "made" => s.pc = "made" /\ r.found = s.found

\* A step that teaches nothing, of a run that has less to do after it, or ends.
LEMMA LessToDo ==
  ASSUME CreateInvariant, SelfStays, JiraGrows, NEW c \in Clone,
         \A r \in Clone \cup {Remote} :
            /\ store'[r].has = store[r].has /\ store'[r].tries = store[r].tries /\ store'[r].link = store[r].link
            /\ store'[r].met = store[r].met /\ store'[r].copies = store[r].copies /\ Self \notin store'[r].archived,
         \A d \in Clone \ {c} : run'[d] = run[d],
         run'[c] # Idle => run[c] # Idle /\ Fewer(run'[c], run[c])
  PROVE  SelfStays'
<1>1. ASSUME run'[c] # Idle
      PROVE  Indexed(c)' /\ IF run'[c].self = "absent" THEN Absent(c) ELSE store[c].has
  <2>1. run[c] # Idle /\ Fewer(run'[c], run[c]) /\ Indexed(c)
    BY <1>1, StayParts DEF IndexInv
  <2>2. IF run'[c].self = "absent" THEN Absent(c) ELSE store[c].has
    BY <2>1, StayParts DEF Fewer, Absent, AbsentInv
  <2>3. run[c].pc = "made" => run[c].found \in JiraId
    <3>1. run[c] \in Running
      BY <2>1, Parts, RunIs
    <3>2. QED
      BY <3>1, Parts, RunParts DEF PostInv
  <2>4. run[c].pc = "made" => jira'[run[c].found] = jira[run[c].found]
    BY <2>3 DEF JiraGrows
  <2>5. Indexed(c)'
    BY <2>1, <2>4 DEF Indexed, Fewer, Early
  <2>6. QED
    BY <2>2, <2>5
<1>2. QED
  BY <1>1, NothingLearnt

\* The same, of a step that changes nothing of what the repositories have.
LEMMA StoreStays ==
  ASSUME SelfStays, UNCHANGED store
  PROVE  \A r \in Clone \cup {Remote} :
            /\ store'[r].has = store[r].has /\ store'[r].tries = store[r].tries /\ store'[r].link = store[r].link
            /\ store'[r].met = store[r].met /\ store'[r].copies = store[r].copies /\ Self \notin store'[r].archived
  BY StayParts DEF SelfInv

\* The issues that Jira has stay, or one comes last.
LEMMA Growing ==
  ASSUME TypeOK
  PROVE  /\ UNCHANGED jira => JiraGrows
         /\ \A p \in Post : Make(p) => JiraGrows
<1>1. UNCHANGED jira => JiraGrows
  BY DEF JiraGrows, JiraId
<1>2. QED
  BY <1>1, MakeTyped DEF JiraGrows

\* Of another issue than Self, that it is archived.
LEMMA ArchivesOther ==
  ASSUME CreateInvariant, SelfStays, NEW c \in Clone, NEW x, x # Self,
         store' = [store EXCEPT ![c].archived = @ \cup {x}]
  PROVE  \A r \in Clone \cup {Remote} :
            /\ store'[r].has = store[r].has /\ store'[r].tries = store[r].tries /\ store'[r].link = store[r].link
            /\ store'[r].met = store[r].met /\ store'[r].copies = store[r].copies /\ Self \notin store'[r].archived
<1>1. TypeOK /\ SelfInv
  BY Parts, StayParts
<1>2. store[c] \in Store
  BY <1>1, TryIs
<1> DEFINE t == [store[c] EXCEPT !.archived = @ \cup {x}]
<1>3. /\ t.has = store[c].has /\ t.tries = store[c].tries /\ t.link = store[c].link
      /\ t.met = store[c].met /\ t.copies = store[c].copies /\ t.archived = store[c].archived \cup {x}
  BY <1>2 DEF Store
<1>4. store' = [store EXCEPT ![c] = t]
  OBVIOUS
<1> HIDE DEF t
<1>5. store'[c] = t /\ \A r \in (Clone \cup {Remote}) \ {c} : store'[r] = store[r]
  BY <1>1, <1>4 DEF TypeOK
<1>6. QED
  BY <1>1, <1>3, <1>5 DEF SelfInv

\* A run ends with nothing done.
LEMMA EndStays ==
  ASSUME CreateInvariant, SelfStays, NEW c \in Clone, To(c, Idle), UNCHANGED <<jira, store>>
  PROVE  SelfStays'
<1>1. TypeOK
  BY Parts
<1>2. run'[c] = Idle /\ \A d \in Clone \ {c} : run'[d] = run[d]
  BY <1>1, ToTyped
<1>3. QED
  BY <1>1, <1>2, Growing, StoreStays, LessToDo

\* A run goes on with less to do, or ends.
LEMMA ProceedStays ==
  ASSUME CreateInvariant, SelfStays, NEW c \in Clone, run[c] # Idle, NEW r \in Running, Proceed(c, r),
         Fewer(r, run[c]), UNCHANGED <<jira, store>>
  PROVE  SelfStays'
<1>1. TypeOK
  BY Parts
<1>2. run'[c] \in {Idle, r} /\ \A d \in Clone \ {c} : run'[d] = run[d]
  BY <1>1, ProceedTyped
<1>3. run'[c] # Idle => run[c] # Idle /\ Fewer(run'[c], run[c])
  BY <1>2
<1>4. QED
  BY <1>1, <1>2, <1>3, Growing, StoreStays, LessToDo

\* Self is no loser: who comes before it would be a copy, and Self was there
\* before the copies of what it is linked to.
LEMMA SelfNoLoser ==
  ASSUME CreateInvariant, SelfStays, NEW c \in Clone
  PROVE  Self \notin Losers(store[c])
<1> DEFINE s == store[c]
<1>1. TypeOK /\ TryInv /\ LinkInv
  BY Parts, StayParts
<1>2. s \in Store /\ s.copies \subseteq Copy
  BY <1>1, TryIs, StoreParts
<1> SUFFICES ASSUME NEW j \in JiraId, Self \in Paired(s, j), Winner(s, j) # Self
             PROVE  FALSE
  BY DEF Losers
<1> DEFINE w == Winner(s, j)
<1>3. w \in Paired(s, j) /\ Before(s, w, Self)
  BY <1>2, WinnerIs
<1>4. s.link = j /\ j # 0
  <2>1. \A x \in s.copies : x # Self
    BY <1>2, CopyIs
  <2>2. QED
    BY <1>2, <2>1 DEF Paired, JiraId
<1>5. w \in s.copies /\ w.jira = j
  BY <1>3 DEF Paired
<1> HIDE DEF w
<1>6. w \in Copy /\ w.at # 0
  BY <1>5, CopyLater
<1>7. Early(s, w)
  BY <1>1, <1>4, <1>5 DEF LinkInv
<1>8. \A t \in s.tries : t.at # 0
  <2>1. \A t \in s.tries : 0 < t.at /\ t.at \in Nat
    BY <1>1, TryIs DEF TryInv
  <2>2. QED
    BY <2>1
<1>9. QED
  BY <1>2, <1>3, <1>6, <1>7, <1>8, EarlyIs

\* The index of a run knows its clone's copies, but for those that Self keeps
\* the issue from.
LEMMA IndexKnows ==
  ASSUME CreateInvariant, TwoClones, SelfStays, NEW c \in Clone, NEW x \in store[c].copies, x.by = c
  PROVE  [jira |-> x.jira, is |-> x] \in Index(store[c]) \/ Early(store[c], x)
<1> DEFINE s == store[c]
           w == Winner(s, x.jira)
<1>1. TypeOK /\ TryInv /\ CopyInv
  BY Parts, StayParts
<1>2. s \in Store /\ x \in Copy /\ x.at # 0 /\ x.jira \in JiraId
  BY <1>1, TryIs, CopyLater
<1>3. x \in Paired(s, x.jira)
  BY DEF Paired
<1>4. w \in Paired(s, x.jira) /\ (w # x => Before(s, w, x))
  BY <1>2, <1>3, WinnerIs
<1>5. CASE w = x
  BY <1>2, <1>3, <1>5 DEF Index
<1>6. CASE w = Self /\ w # x
  <2>1. \A t \in s.tries : t.at # 0
    <3>1. \A t \in s.tries : 0 < t.at /\ t.at \in Nat
      BY <1>1, TryIs DEF TryInv
    <3>2. QED
      BY <3>1
  <2>2. Before(s, Self, x)
    BY <1>4, <1>6
  <2>3. QED
    BY <1>2, <2>1, <2>2, EarlyIs
<1>7. CASE w # Self
  <2>1. w \in s.copies /\ w.jira = x.jira
    BY <1>4, <1>7 DEF Paired
  <2> HIDE DEF w
  <2>2. w \in Copy /\ w.by \in Clone
    BY <2>1, CopyLater
  <2>3. w.by # Home /\ w.at = jira[x.jira].at /\ x.by # Home /\ x.at = jira[x.jira].at
    BY <1>1, <2>1 DEF CopyInv
  <2>4. w.by = x.by
    BY <2>2, <2>3 DEF TwoClones
  <2>5. w = x
    BY <1>2, <2>1, <2>2, <2>3, <2>4, CopyIs
  <2>6. QED
    BY <1>5, <2>5 DEF w
<1>8. QED
  BY <1>5, <1>6, <1>7

\* What a search makes of a run.
LEMMA SearchedIs ==
  ASSUME TypeOK, NEW r \in Running, NEW next \in Searched(r)
  PROVE  /\ next.pc = "hits" /\ next.ix = r.ix /\ next.self = r.self /\ next.losers = r.losers
         /\ \A j \in next.hits, e \in next.ix : e.jira # j
<1>1. PICK found \in SUBSET shown : next = [r EXCEPT !.pc = "hits", !.hits = ToHandle(r, found)]
  BY DEF Searched
<1>2. next.pc = "hits" /\ next.ix = r.ix /\ next.self = r.self /\ next.losers = r.losers
      /\ next.hits = ToHandle(r, found)
  BY <1>1 DEF Running
<1>3. QED
  BY <1>2 DEF ToHandle

\* A run begins: Self is no loser, and its index knows the clone's copies.
LEMMA BeginStays ==
  ASSUME CreateInvariant, TwoClones, SelfStays, NEW c \in Clone, Begin(c)
  PROVE  SelfStays'
<1>1. TypeOK /\ UNCHANGED <<jira, store>>
  BY Parts DEF Begin
<1> DEFINE r == Scanned(c)
<1>2. r \in Running
  BY <1>1, ScannedTyped
<1>3. r.pc = "losers" /\ r.hits = {} /\ r.ix = Index(store[c]) /\ r.losers = Losers(store[c])
      /\ r.self = IF ~store[c].has THEN "absent" ELSE IF store[c].link = 0 THEN "unlinked" ELSE "linked"
  BY DEF Scanned
<1>4. PICK next \in IF r.losers # {} THEN {r} ELSE Searched(r) : To(c, next)
  BY DEF Begin
<1> HIDE DEF r
<1>5. /\ next \in Running /\ next.pc # "made" /\ next.ix = r.ix /\ next.self = r.self /\ next.losers = r.losers
      /\ \A j \in next.hits, e \in next.ix : e.jira # j
  <2>1. CASE next = r
    BY <1>2, <1>3, <2>1
  <2>2. CASE next \in Searched(r)
    BY <1>1, <1>2, <2>2, SearchedTyped, SearchedIs
  <2>3. QED
    BY <1>4, <2>1, <2>2
<1>6. run'[c] = next /\ \A d \in Clone \ {c} : run'[d] = run[d]
  BY <1>1, <1>4, <1>5, ToTyped
<1>7. Self \notin next.losers
  BY <1>3, <1>5, SelfNoLoser
<1>8. \A x \in store[c].copies : x.by = c => [jira |-> x.jira, is |-> x] \in next.ix \/ Early(store[c], x)
  BY <1>3, <1>5, IndexKnows
<1>9. Indexed(c)'
  BY <1>1, <1>5, <1>6, <1>7, <1>8 DEF Indexed, Early
<1>10. IF next.self = "absent" THEN Absent(c) ELSE store[c].has
  BY <1>3, <1>5 DEF Absent
<1>11. QED
  BY <1>1, <1>6, <1>9, <1>10, Growing, StoreStays, NothingLearnt

\* The search, once the losers are done.
LEMMA SearchStays ==
  ASSUME CreateInvariant, SelfStays, NEW c \in Clone, Search(c)
  PROVE  SelfStays'
<1>1. TypeOK /\ UNCHANGED <<jira, store>> /\ run[c].pc = "losers"
  BY Parts DEF Search
<1>2. run[c] # Idle /\ run[c] \in Running
  BY <1>1, RunIs
<1>3. PICK r \in Searched(run[c]) : Proceed(c, r)
  BY DEF Search
<1>4. /\ r \in Running /\ r.pc = "hits" /\ r.ix = run[c].ix /\ r.self = run[c].self /\ r.losers = run[c].losers
      /\ \A j \in r.hits, e \in r.ix : e.jira # j
  BY <1>1, <1>2, <1>3, SearchedTyped, SearchedIs
<1>5. run'[c] \in {Idle, r} /\ \A d \in Clone \ {c} : run'[d] = run[d]
  BY <1>1, <1>3, <1>4, ProceedTyped
<1>6. Indexed(c)
  BY <1>2, StayParts DEF IndexInv
<1>7. run'[c] # Idle => Indexed(c)'
  BY <1>1, <1>4, <1>5, <1>6 DEF Indexed, Early
<1>8. run'[c] # Idle => IF run'[c].self = "absent" THEN Absent(c) ELSE store[c].has
  BY <1>2, <1>4, <1>5, StayParts DEF Absent, AbsentInv
<1>9. QED
  BY <1>1, <1>5, <1>7, <1>8, Growing, StoreStays, NothingLearnt

\* A loser is consolidated, which Self is not.
LEMMA ConsolidateStays ==
  ASSUME CreateInvariant, SelfStays, NEW c \in Clone, Consolidate(c)
  PROVE  SelfStays'
<1>1. TypeOK /\ run[c].pc = "losers" /\ run[c] \in Running /\ run[c] # Idle /\ UNCHANGED jira
  BY Parts, RunIs DEF Consolidate
<1>2. PICK x \in run[c].losers :
        /\ To(c, [run[c] EXCEPT !.losers = @ \ {x}])
        /\ \/ store' = [store EXCEPT ![c].archived = @ \cup {x}] /\ UNCHANGED left
           \/ Fault /\ UNCHANGED store
  BY DEF Consolidate
<1>3. x # Self
  BY <1>1, StayParts DEF IndexInv, Indexed
<1> DEFINE next == [run[c] EXCEPT !.losers = @ \ {x}]
<1>4. next \in Running /\ Fewer(next, run[c])
  BY <1>1 DEF Running, Fewer
<1> HIDE DEF next
<1>5. run'[c] = next /\ \A d \in Clone \ {c} : run'[d] = run[d]
  BY <1>1, <1>2, <1>4, ToTyped DEF next
<1>6. CASE store' = [store EXCEPT ![c].archived = @ \cup {x}]
  BY <1>1, <1>3, <1>4, <1>5, <1>6, Growing, ArchivesOther, LessToDo
<1>7. CASE UNCHANGED store
  BY <1>1, <1>4, <1>5, <1>7, Growing, StoreStays, LessToDo
<1>8. QED
  BY <1>2, <1>6, <1>7

\* A hit is left for an orphan, or its import fails.
LEMMA OrphanStays ==
  ASSUME CreateInvariant, SelfStays, NEW c \in Clone, NEW j \in JiraId, Orphan(c, j)
  PROVE  SelfStays'
<1>1. Hit(c, j) /\ Proceed(c, Handled(c, j)) /\ UNCHANGED <<jira, store>>
  BY DEF Orphan
<1>2. run[c] \in Running /\ run[c].pc = "hits" /\ Handled(c, j) \in Running
  BY <1>1, HandledIs
<1>3. run[c] # Idle
  BY <1>2, Parts, RunIs
<1>4. Fewer(Handled(c, j), run[c])
  BY <1>2 DEF Handled, Fewer, Running
<1>5. QED
  BY <1>1, <1>2, <1>3, <1>4, ProceedStays

\* A run ends, with Self's turn having come to nothing, a POST without success,
\* or a failure.
LEMMA IdleStays ==
  ASSUME CreateInvariant, SelfStays, NEW c \in Clone,
         \/ TurnSkipped(c) \/ Wait(c) \/ FoundKept(c)
         \/ PostRefused(c) \/ PostLost(c) \/ Stop(c)
  PROVE  SelfStays'
<1>1. CASE TurnSkipped(c) \/ Wait(c) \/ FoundKept(c)
  BY <1>1, EndStays DEF TurnSkipped, Wait, FoundKept, End
<1>2. CASE PostRefused(c) \/ PostLost(c) \/ Stop(c)
  BY <1>2, EndStays DEF PostRefused, PostLost, Stop
<1>3. QED
  BY <1>1, <1>2

\* The created search.
LEMMA CreatedSearchStays ==
  ASSUME CreateInvariant, SelfStays, NEW c \in Clone, CreatedSearch(c)
  PROVE  SelfStays'
<1>1. TypeOK /\ UNCHANGED <<jira, store>> /\ run[c].pc = "hits"
  BY Parts DEF CreatedSearch, Turn
<1>2. run[c] \in Running /\ run[c] # Idle
  BY <1>1, RunIs
<1> DEFINE seen == SeenSince(Latest(store[c].tries))
           found == IF seen = {} THEN 0 ELSE Min(seen)
           next == [run[c] EXCEPT !.sought = now, !.found = found]
<1>3. run' = [run EXCEPT ![c] = next]
  BY DEF CreatedSearch, To
<1> HIDE DEF seen, found
<1>4. next.pc = "hits" /\ Fewer(next, run[c])
  BY <1>1, <1>2 DEF Running, Fewer
<1> HIDE DEF next
<1>5. run'[c] = next /\ \A d \in Clone \ {c} : run'[d] = run[d]
  BY <1>1, <1>3 DEF TypeOK
<1>6. QED
  BY <1>1, <1>2, <1>4, <1>5, Growing, StoreStays, LessToDo

\* Another's copy is consolidated first: the run no longer knows the issue by
\* it, but knows that Self was there before it.
LEMMA FoundTakenStays ==
  ASSUME CreateInvariant, SelfStays, NEW c \in Clone, FoundTaken(c)
  PROVE  SelfStays'
<1>1. TypeOK /\ TryInv /\ UNCHANGED jira /\ run[c].pc = "hits" /\ run[c].self = "unlinked"
  BY Parts DEF FoundTaken, Found, Free, Turn
<1>2. run[c] \in Running /\ run[c] # Idle /\ Indexed(c)
  BY <1>1, RunIs, StayParts DEF IndexInv
<1>3. PICK x \in Others(c) :
        /\ Before(store[c], Self, x)
        /\ store' = [store EXCEPT ![c].archived = @ \cup {x}]
        /\ To(c, [run[c] EXCEPT !.ix = @ \ {[jira |-> x.jira, is |-> x]}])
  BY DEF FoundTaken
<1>4. x # Self
  BY DEF Others
<1>5. \A r \in Clone \cup {Remote} :
         /\ store'[r].has = store[r].has /\ store'[r].tries = store[r].tries /\ store'[r].link = store[r].link
         /\ store'[r].met = store[r].met /\ store'[r].copies = store[r].copies /\ Self \notin store'[r].archived
  BY <1>3, <1>4, ArchivesOther
<1> DEFINE e == [jira |-> x.jira, is |-> x]
           next == [run[c] EXCEPT !.ix = @ \ {e}]
<1>6. next \in Running /\ next.pc = "hits" /\ next.self = run[c].self /\ next.losers = run[c].losers
      /\ next.hits = run[c].hits /\ next.ix = run[c].ix \ {e}
  BY <1>1, <1>2 DEF Running
<1>7. run'[c] = next /\ \A d \in Clone \ {c} : run'[d] = run[d]
  <2>1. To(c, next)
    BY <1>3
  <2> HIDE DEF next
  <2>2. QED
    BY <1>1, <1>6, <2>1, ToTyped
<1> HIDE DEF next
<1>8. ASSUME NEW y \in store[c].copies, y.by = c
      PROVE  [jira |-> y.jira, is |-> y] \in next.ix \/ Early(store[c], y)
  <2>1. [jira |-> y.jira, is |-> y] \in run[c].ix \/ Early(store[c], y)
    BY <1>1, <1>2, <1>8 DEF Indexed
  <2>2. CASE y = x
    <3>1. \A t \in store[c].tries : t.at # 0
      <4>1. \A t \in store[c].tries : 0 < t.at /\ t.at \in Nat
        BY <1>1, TryIs DEF TryInv
      <4>2. QED
        BY <4>1
    <3>2. y \in Copy /\ y.at # 0 /\ store[c] \in Store
      BY <1>1, CopyLater, TryIs
    <3>3. Early(store[c], y)
      BY <1>3, <2>2, <3>1, <3>2, EarlyIs
    <3>4. QED
      BY <3>3
  <2>3. CASE y # x
    BY <1>6, <2>1, <2>3
  <2>4. QED
    BY <2>2, <2>3
<1>9. Indexed(c)'
  <2>1. Self \notin next.losers /\ \A j \in next.hits, d \in next.ix : d.jira # j
    BY <1>2, <1>6 DEF Indexed
  <2>2. QED
    BY <1>5, <1>6, <1>7, <1>8, <2>1 DEF Indexed, Early
<1>10. store[c].has /\ next.self # "absent"
  BY <1>1, <1>2, <1>6, StayParts DEF AbsentInv
<1>11. QED
  BY <1>1, <1>5, <1>7, <1>9, <1>10, Growing, NothingLearnt

\* Jira answers a POST: its attempt is one that the clone knows of.
LEMMA PostMadeStays ==
  ASSUME CreateInvariant, SelfStays, NEW c \in Clone, PostMade(c)
  PROVE  SelfStays'
<1>1. TypeOK /\ TryInv /\ PostInv /\ UNCHANGED store
  BY Parts DEF PostMade
<1>2. PICK p \in Posted(c) : Make(p)
  BY DEF PostMade
<1>3. run[c].pc = "post"
  BY DEF Posted
<1>4. run[c] \in Running /\ run[c] # Idle /\ p \in Post /\ p \in Live
  BY <1>1, <1>3, RunIs, JiraIs DEF Live, Pending
<1>5. JiraGrows /\ jira'[Len(jira) + 1].post = p
  <2>1. JiraGrows
    BY <1>1, <1>2, <1>4, Growing
  <2>2. jira'[Len(jira) + 1] = [at |-> now, post |-> p]
    BY <1>1, <1>2, <1>4, MakeTyped
  <2>3. QED
    BY <2>1, <2>2
<1>6. p.try \in store[c].tries
  BY <1>1, <1>4 DEF TryInv, PostInv
<1> DEFINE next == [run[c] EXCEPT !.pc = "made", !.found = Len(jira) + 1]
<1>7. next.pc = "made" /\ next.self = run[c].self /\ next.losers = run[c].losers
      /\ next.hits = run[c].hits /\ next.ix = run[c].ix /\ next.found = Len(jira) + 1
  BY <1>4 DEF Running
<1>8. run' = [run EXCEPT ![c] = next]
  BY DEF PostMade, To
<1> HIDE DEF next
<1>9. run'[c] = next /\ \A d \in Clone \ {c} : run'[d] = run[d]
  BY <1>1, <1>8 DEF TypeOK
<1>10. Indexed(c)
  BY <1>4, StayParts DEF IndexInv
<1>11. Indexed(c)'
  BY <1>1, <1>5, <1>6, <1>7, <1>9, <1>10 DEF Indexed, Early
<1>12. IF next.self = "absent" THEN Absent(c) ELSE store[c].has
  BY <1>4, <1>7, StayParts DEF AbsentInv, Absent
<1>13. QED
  BY <1>1, <1>5, <1>9, <1>11, <1>12, StoreStays, NothingLearnt

\* Jira and its clock go on, and a state file is lost.
LEMMA WorldStays ==
  ASSUME CreateInvariant, SelfStays,
         \/ Tick \/ UNCHANGED vars
         \/ \E j \in JiraId : Show(j)
         \/ \E p \in flight : Land(p) \/ Vanish(p)
         \/ \E c \in Clone : Lose(c)
  PROVE  SelfStays'
<1>1. UNCHANGED <<store, run>>
  BY DEF Tick, vars, Show, Land, Vanish, Lose
<1>2. UNCHANGED jira \/ \E p \in flight : Make(p)
  BY DEF Tick, vars, Show, Land, Vanish, Lose
<1>3. TypeOK /\ flight \subseteq Post
  BY Parts DEF TypeOK
<1>4. JiraGrows
  BY <1>2, <1>3, Growing
<1>5. Home \in Clone /\ Fewer(run[Home], run[Home])
  BY DEF Fewer
<1>6. QED
  BY <1>1, <1>4, <1>5, StoreStays, LessToDo

\* A hit is adopted: whoever is linked to the issue knows of its attempt, since
\* the clone is still absent, and so knows that Self was there before the copy.
LEMMA AdoptStays ==
  ASSUME CreateInvariant, TwoClones, SelfStays, NEW c \in Clone, NEW j \in JiraId, Adopt(c, j)
  PROVE  SelfStays'
<1>1. TypeOK /\ TryInv /\ TimeInv /\ Hit(c, j) /\ run[c].self = "absent" /\ UNCHANGED jira
  BY Parts DEF Adopt
<1>2. AbsentInv /\ CopyInv /\ IndexInv /\ LinkInv /\ SelfInv
  BY StayParts
<1>3. run[c] \in Running /\ run[c] # Idle /\ Handled(c, j) \in Running /\ Indexed(c) /\ run[c].pc = "hits"
  BY <1>1, <1>2, HandledIs, RunIs DEF IndexInv
<1>4. Absent(c) /\ c # Home
  BY <1>1, <1>2, <1>3 DEF Absent, AbsentInv
<1> DEFINE x == [by |-> c, jira |-> j, at |-> jira[j].at]
           r == [Handled(c, j) EXCEPT !.ix = @ \cup {[jira |-> j, is |-> x]}]
           t == [store[c] EXCEPT !.copies = @ \cup {x}]
<1>5. x \in Copy /\ x.by = c /\ x.jira = j /\ x.at = jira[j].at
  BY <1>1, JiraIs DEF Copy
<1>6. store' = [store EXCEPT ![c] = t] /\ Proceed(c, r)
  BY DEF Adopt
<1> HIDE DEF x
<1>7. /\ t.has = store[c].has /\ t.tries = store[c].tries /\ t.link = store[c].link
      /\ t.met = store[c].met /\ t.copies = store[c].copies \cup {x} /\ t.archived = store[c].archived
  <2>1. store[c] \in Store
    BY <1>1, TryIs
  <2>2. QED
    BY <2>1 DEF Store
<1>8. /\ r \in Running /\ r.pc = "hits" /\ r.self = run[c].self /\ r.losers = run[c].losers
      /\ r.hits = run[c].hits \ {j} /\ r.ix = run[c].ix \cup {[jira |-> j, is |-> x]}
  <2> DEFINE h == Handled(c, j)
             e == [jira |-> j, is |-> x]
  <2>1. h \in Running /\ h.pc = "hits" /\ h.self = run[c].self /\ h.losers = run[c].losers
        /\ h.hits = run[c].hits \ {j} /\ h.ix = run[c].ix
    BY <1>3 DEF Handled, Running
  <2>2. e \in [jira : JiraId, is : Copy \cup {Self}]
    BY <1>5
  <2> HIDE DEF h, e
  <2>3. [h EXCEPT !.ix = @ \cup {e}] \in Running
    BY <2>1, <2>2 DEF Running
  <2>4. r = [h EXCEPT !.ix = @ \cup {e}]
    BY DEF h, e
  <2> HIDE DEF r
  <2>5. r.pc = h.pc /\ r.self = h.self /\ r.losers = h.losers /\ r.hits = h.hits /\ r.ix = h.ix \cup {e}
    BY <2>1, <2>4 DEF Running
  <2>6. QED
    BY <2>1, <2>3, <2>4, <2>5 DEF e
<1> HIDE DEF t, r
<1>9. run'[c] \in {Idle, r} /\ \A d \in Clone \ {c} : run'[d] = run[d]
  BY <1>1, <1>6, <1>8, ProceedTyped
<1>10. store'[c] = t /\ \A q \in (Clone \cup {Remote}) \ {c} : store'[q] = store[q]
  BY <1>1, <1>6 DEF TypeOK
<1>11. \A q \in Clone \cup {Remote} :
          /\ store'[q].has = store[q].has /\ store'[q].tries = store[q].tries /\ store'[q].link = store[q].link
          /\ store'[q].met = store[q].met /\ store'[q].archived = store[q].archived
          /\ store[q].copies \subseteq store'[q].copies /\ store'[q].copies \subseteq store[q].copies \cup {x}
  BY <1>7, <1>10
<1>12. \A d \in Clone : Absent(d)' => Absent(d)
  BY <1>4, <1>9, <1>11 DEF Absent
<1>13. AbsentInv'
  <2>1. \A d \in Clone : run'[d] # Idle /\ run'[d].self # "absent" => store'[d].has
    BY <1>1, <1>2, <1>8, <1>9, <1>11 DEF AbsentInv
  <2>2. QED
    BY <1>2, <1>11, <1>12, <2>1 DEF AbsentInv
<1> DEFINE p == jira[j].post
<1>14. p \in Post /\ p \in Live /\ p.try.by \in Clone /\ p.try \in store[p.try.by].tries
  <2>1. p \in Post /\ p \in Live
    BY <1>1, JiraIs DEF Live, JiraMade
  <2>2. QED
    BY <1>1, <2>1, TryIs DEF TryInv
<1>15. p.try.by = Home
  <2>1. p.try.by # c
    BY <1>2, <1>4, <1>14 DEF AbsentInv
  <2>2. QED
    BY <1>4, <1>14, <2>1 DEF TwoClones
<1>16. p.try.at <= x.at
  BY <1>1, <1>5 DEF TimeInv
<1> HIDE DEF p
<1>17. CopyInv'
  <2>1. ASSUME NEW q \in Clone \cup {Remote}, NEW y \in store'[q].copies
        PROVE  /\ y \in store'[y.by].copies /\ y.by # Home
               /\ y.at = jira[y.jira].at /\ jira[y.jira].post.try.by = Home
    <3>1. CASE y = x
      <4>1. x \in store'[c].copies
        BY <1>7, <1>10
      <4>2. QED
        BY <1>4, <1>5, <1>15, <3>1, <4>1 DEF p
    <3>2. CASE y # x
      <4>1. y \in store[q].copies
        BY <1>11, <3>2
      <4>2. /\ y \in store[y.by].copies /\ y.by # Home
            /\ y.at = jira[y.jira].at /\ jira[y.jira].post.try.by = Home
        BY <1>2, <4>1 DEF CopyInv
      <4>3. y.by \in Clone
        BY <4>1, CopyLater
      <4>4. QED
        BY <1>11, <4>2, <4>3
    <3>3. QED
      BY <3>1, <3>2
  <2>2. QED
    BY <1>1, <2>1 DEF CopyInv
<1>18. IndexInv'
  <2>1. ASSUME NEW d \in Clone, run'[d] # Idle
        PROVE  Indexed(d)'
    <3>1. CASE d = c
      <4>1. run'[c] = r
        BY <1>9, <2>1, <3>1
      <4>2. \A i \in r.hits, e \in r.ix : e.jira # i
        BY <1>3, <1>8 DEF Indexed
      <4>3. QED
        BY <1>1, <1>3, <1>8, <3>1, <4>1, <4>2 DEF Indexed
    <3>2. CASE d # c
      <4>1. run'[d] = run[d] /\ store'[d] = store[d]
        BY <1>9, <1>10, <3>2
      <4>2. QED
        BY <1>1, <1>2, <2>1, <4>1 DEF IndexInv, Indexed, Early
    <3>3. QED
      BY <3>1, <3>2
  <2>2. QED
    BY <2>1 DEF IndexInv
<1>19. LinkInv'
  <2>1. ASSUME NEW q \in Clone \cup {Remote}, store[q].link # 0
        PROVE  /\ \/ jira[store[q].link].post.try \in store[q].tries
                  \/ \A d \in Clone : ~Absent(d)'
               /\ \A z \in Clone \cup {Remote} : \A y \in store'[z].copies :
                     y.jira = store[q].link => Early(store[q], y)
    <3>1. /\ \/ jira[store[q].link].post.try \in store[q].tries
             \/ \A d \in Clone : ~Absent(d)
          /\ \A z \in Clone \cup {Remote} : \A y \in store[z].copies :
                y.jira = store[q].link => Early(store[q], y)
      BY <1>2, <2>1 DEF LinkInv
    <3>2. jira[store[q].link].post.try \in store[q].tries
      BY <1>4, <3>1
    <3>3. x.jira = store[q].link => Early(store[q], x)
      BY <1>5, <1>16, <3>2 DEF Early, p
    <3>4. \A z \in Clone \cup {Remote} : \A y \in store'[z].copies :
             y.jira = store[q].link => Early(store[q], y)
      BY <1>11, <3>1, <3>3
    <3>5. QED
      BY <3>2, <3>4
  <2>2. \A q \in Clone \cup {Remote} : \A y : Early(store[q], y)' <=> Early(store[q], y)
    BY <1>11 DEF Early
  <2>3. QED
    BY <1>1, <1>11, <2>1, <2>2, ZenonT(40) DEF LinkInv
<1>20. SelfInv'
  BY <1>2, <1>11 DEF SelfInv
<1>21. QED
  BY <1>13, <1>17, <1>18, <1>19, <1>20 DEF SelfStays

\* An attempt is committed: the clone has Self, and is not the one to have none.
LEMMA AttemptStays ==
  ASSUME CreateInvariant, CreateInvariant', SelfStays, NEW c \in Clone, Attempt(c)
  PROVE  SelfStays'
<1>1. TypeOK /\ TypeOK' /\ UNCHANGED jira /\ run[c].pc = "hits" /\ run[c].self = "unlinked"
  BY Parts DEF Attempt, Free, Turn, CreateInvariant
<1>2. AbsentInv /\ CopyInv /\ IndexInv /\ LinkInv /\ SelfInv
  BY StayParts
<1>3. run[c] \in Running /\ run[c] # Idle /\ Indexed(c)
  BY <1>1, <1>2, RunIs DEF IndexInv
<1>4. store[c].has /\ ~Absent(c)
  BY <1>1, <1>2, <1>3 DEF AbsentInv, Absent
<1>5. PICK p : /\ store' = [store EXCEPT ![c].tries = @ \cup {p.try}]
               /\ To(c, [run[c] EXCEPT !.pc = "post", !.refused = NoRefusal, !.post = {p}])
  BY DEF Attempt
<1> DEFINE t == [store[c] EXCEPT !.tries = @ \cup {p.try}]
           r == [run[c] EXCEPT !.pc = "post", !.refused = NoRefusal, !.post = {p}]
<1>6. /\ t.has = store[c].has /\ t.tries = store[c].tries \cup {p.try} /\ t.link = store[c].link
      /\ t.met = store[c].met /\ t.copies = store[c].copies /\ t.archived = store[c].archived
  <2>1. store[c] \in Store
    BY <1>1, TryIs
  <2>2. QED
    BY <2>1 DEF Store
<1>7. r.pc = "post" /\ r.self = run[c].self /\ r.losers = run[c].losers /\ r.hits = run[c].hits /\ r.ix = run[c].ix
  BY <1>3 DEF Running
<1>8. store' = [store EXCEPT ![c] = t] /\ run' = [run EXCEPT ![c] = r]
  BY <1>5 DEF To
<1> HIDE DEF t, r
<1>9. /\ store'[c] = t /\ \A q \in (Clone \cup {Remote}) \ {c} : store'[q] = store[q]
      /\ run'[c] = r /\ \A d \in Clone \ {c} : run'[d] = run[d]
  BY <1>1, <1>8 DEF TypeOK
<1>10. \A q \in Clone \cup {Remote} :
          /\ store'[q].has = store[q].has /\ store[q].tries \subseteq store'[q].tries /\ store'[q].link = store[q].link
          /\ store'[q].met = store[q].met /\ store'[q].archived = store[q].archived
          /\ store'[q].copies = store[q].copies
          /\ q # c => store'[q].tries = store[q].tries
  BY <1>6, <1>9
<1>11. \A q \in Clone \cup {Remote} : \A y : Early(store[q], y) => Early(store[q], y)'
  BY <1>10 DEF Early
<1>12. \A d \in Clone : Absent(d)' => Absent(d) /\ d # c
  <2>1. ~Absent(c)'
    BY <1>1, <1>4, <1>7, <1>9, <1>10 DEF Absent
  <2>2. \A d \in Clone \ {c} : Absent(d)' => Absent(d)
    BY <1>9, <1>10 DEF Absent
  <2>3. QED
    BY <2>1, <2>2
<1>13. AbsentInv'
  <2>1. \A d \in Clone : run'[d] # Idle /\ run'[d].self # "absent" => store'[d].has
    BY <1>2, <1>4, <1>9, <1>10 DEF AbsentInv
  <2>2. QED
    BY <1>2, <1>10, <1>12, <2>1 DEF AbsentInv
<1>14. CopyInv'
  <2>1. ASSUME NEW q \in Clone \cup {Remote}, NEW y \in store[q].copies
        PROVE  /\ y \in store'[y.by].copies /\ y.by # Home
               /\ y.at = jira[y.jira].at /\ jira[y.jira].post.try.by = Home
    <3>1. /\ y \in store[y.by].copies /\ y.by # Home
          /\ y.at = jira[y.jira].at /\ jira[y.jira].post.try.by = Home
      BY <1>2 DEF CopyInv
    <3>2. y.by \in Clone
      BY CopyLater
    <3>3. QED
      BY <1>10, <3>1, <3>2
  <2>2. QED
    BY <1>1, <1>10, <2>1 DEF CopyInv
<1>15. IndexInv'
  <2>1. ASSUME NEW d \in Clone, run'[d] # Idle
        PROVE  Indexed(d)'
    <3>1. CASE d = c
      <4>1. /\ Self \notin r.losers
            /\ \A j \in r.hits, e \in r.ix : e.jira # j
            /\ \A x \in store[c].copies : x.by = c => [jira |-> x.jira, is |-> x] \in r.ix \/ Early(store[c], x)
        BY <1>1, <1>3, <1>7 DEF Indexed
      <4>2. QED
        BY <1>7, <1>9, <1>10, <1>11, <3>1, <4>1 DEF Indexed
    <3>2. CASE d # c
      <4>1. run'[d] = run[d] /\ store'[d] = store[d]
        BY <1>9, <3>2
      <4>2. QED
        BY <1>1, <1>2, <2>1, <4>1 DEF IndexInv, Indexed, Early
    <3>3. QED
      BY <3>1, <3>2
  <2>2. QED
    BY <2>1 DEF IndexInv
<1>16. LinkInv'
  BY <1>1, <1>2, <1>10, <1>11, <1>12 DEF LinkInv
<1>17. SelfInv'
  BY <1>2, <1>10 DEF SelfInv
<1>18. QED
  BY <1>13, <1>14, <1>15, <1>16, <1>17 DEF SelfStays

\* A link is committed, to an issue whose copies Self was there before, and of
\* which no clone makes a copy any more that who is linked to it might not be
\* before.
LEMMA LinkStays ==
  ASSUME CreateInvariant, CreateInvariant', SelfStays, NEW c \in Clone, NEW j \in JiraId, CommitLink(c, j),
         To(c, Idle), UNCHANGED jira,
         jira[j].post.try \in store[c].tries \/ \A d \in Clone : ~Absent(d),
         \A q \in Clone \cup {Remote} : \A x \in store[q].copies : x.jira = j => Early(store[c], x)
  PROVE  SelfStays'
<1>1. TypeOK /\ TypeOK' /\ now \in Nat
  BY Parts DEF CreateInvariant
<1>2. AbsentInv /\ CopyInv /\ IndexInv /\ LinkInv /\ SelfInv
  BY StayParts
<1>3. run'[c] = Idle /\ \A d \in Clone \ {c} : run'[d] = run[d]
  BY <1>1, ToTyped
<1> DEFINE l == IF store[c].link = 0 THEN j ELSE store[c].link
           m == First(store[c].met, now)
           place(p) == IF store[c].link = 0 THEN p ELSE store[c].place
<1>0. PICK p \in Places(j) : store' = [store EXCEPT ![c] = [store[c] EXCEPT !.link = l, !.place = place(p), !.met = m]]
  BY DEF CommitLink
<1> HIDE DEF l, m, place
<1> DEFINE t == [store[c] EXCEPT !.link = l, !.place = place(p), !.met = m]
<1>4. store' = [store EXCEPT ![c] = t]
  BY <1>0
<1>5. store[c] \in Store /\ store[c].met \in Nat
  BY <1>1, TryIs, StoreParts
<1>6. store[c].met # 0 => m # 0 /\ m <= store[c].met
  BY <1>1, <1>5, FirstLeast DEF m
<1>7. /\ t.has = store[c].has /\ t.tries = store[c].tries /\ t.link = l
      /\ t.met = m /\ t.copies = store[c].copies /\ t.archived = store[c].archived
  BY <1>5 DEF Store
<1> HIDE DEF t
<1>8. store'[c] = t /\ \A q \in (Clone \cup {Remote}) \ {c} : store'[q] = store[q]
  BY <1>1, <1>4 DEF TypeOK
<1>9. \A q \in Clone \cup {Remote} :
         /\ store'[q].has = store[q].has /\ store'[q].tries = store[q].tries
         /\ store'[q].copies = store[q].copies /\ store'[q].archived = store[q].archived
         /\ store[q].met # 0 => store'[q].met # 0 /\ store'[q].met <= store[q].met
         /\ q # c => store'[q].link = store[q].link
  <2>1. ASSUME NEW q \in Clone \cup {Remote}, q # c
        PROVE  /\ store'[q] = store[q]
               /\ store[q].met # 0 => store[q].met <= store[q].met
    <3>1. store'[q] = store[q]
      BY <1>8, <2>1
    <3>2. store[q].met \in Nat
      BY <1>1, TryIs, StoreParts
    <3>3. store[q].met <= store[q].met
      BY <3>2
    <3>4. QED
      BY <3>1, <3>3
  <2>2. QED
    BY <1>6, <1>7, <1>8, <2>1
<1>10. ASSUME NEW q \in Clone \cup {Remote}, NEW x, x.at \in Nat, Early(store[q], x)
       PROVE  Early(store'[q], x)
  <2>1. store[q] \in Store /\ store'[q] \in Store
    BY <1>1, TryIs DEF TypeOK, Store, JiraId, Copy
  <2>2. QED
    BY <1>9, <1>10, <2>1, EarlyKept
<1>11. \A d \in Clone : Absent(d)' => Absent(d)
  BY <1>3, <1>9 DEF Absent
<1>12. AbsentInv'
  BY <1>2, <1>3, <1>9, <1>11 DEF AbsentInv
<1>13. CopyInv'
  <2>1. ASSUME NEW q \in Clone \cup {Remote}, NEW y \in store[q].copies
        PROVE  /\ y \in store'[y.by].copies /\ y.by # Home
               /\ y.at = jira[y.jira].at /\ jira[y.jira].post.try.by = Home
    <3>1. /\ y \in store[y.by].copies /\ y.by # Home
          /\ y.at = jira[y.jira].at /\ jira[y.jira].post.try.by = Home
      BY <1>2 DEF CopyInv
    <3>2. y.by \in Clone
      BY CopyLater
    <3>3. QED
      BY <1>9, <3>1, <3>2
  <2>2. QED
    BY <1>9, <2>1 DEF CopyInv
<1>14. IndexInv'
  <2>1. ASSUME NEW d \in Clone, run'[d] # Idle
        PROVE  Indexed(d)'
    <3>1. d # c
      BY <1>3, <2>1
    <3>2. run'[d] = run[d] /\ store'[d] = store[d]
      BY <1>3, <1>8, <3>1
    <3>3. QED
      BY <1>2, <2>1, <3>2 DEF IndexInv, Indexed, Early
  <2>2. QED
    BY <2>1 DEF IndexInv
<1>15. LinkInv'
  <2>1. ASSUME NEW q \in Clone \cup {Remote}, store'[q].link # 0
        PROVE  /\ \/ jira[store'[q].link].post.try \in store[q].tries
                  \/ \A d \in Clone : ~Absent(d)
               /\ \A z \in Clone \cup {Remote} : \A y \in store[z].copies :
                     y.jira = store'[q].link => Early(store[q], y)
    <3>1. CASE q = c /\ store[c].link = 0
      <4>1. store'[q].link = j
        BY <1>7, <1>8, <3>1 DEF l
      <4>2. QED
        BY <3>1, <4>1
    <3>2. CASE ~(q = c /\ store[c].link = 0)
      <4>1. store'[q].link = store[q].link
        BY <1>7, <1>8, <1>9, <3>2 DEF l
      <4>2. QED
        BY <1>2, <2>1, <4>1 DEF LinkInv
    <3>3. QED
      BY <3>1, <3>2
  <2>2. ASSUME NEW q \in Clone \cup {Remote}, NEW z \in Clone \cup {Remote}, NEW y \in store[z].copies,
               Early(store[q], y)
        PROVE  Early(store[q], y)'
    <3>1. y.at \in Nat
      BY CopyLater
    <3>2. Early(store'[q], y)
      BY <1>10, <2>2, <3>1
    <3>3. QED
      BY <3>2 DEF Early
  <2>3. ASSUME NEW q \in Clone \cup {Remote}, store'[q].link # 0
        PROVE  /\ \/ jira'[store'[q].link].post.try \in store'[q].tries
                  \/ \A d \in Clone : ~Absent(d)'
               /\ \A z \in Clone \cup {Remote} : \A y \in store'[z].copies :
                     y.jira = store'[q].link => Early(store[q], y)'
    <3>1. \/ jira'[store'[q].link].post.try \in store'[q].tries
          \/ \A d \in Clone : ~Absent(d)'
      BY <1>9, <1>11, <2>1, <2>3
    <3>2. \A z \in Clone \cup {Remote} : \A y \in store'[z].copies :
             y.jira = store'[q].link => Early(store[q], y)'
      BY <1>9, <2>1, <2>2, <2>3
    <3>3. QED
      BY <3>1, <3>2
  <2>4. QED
    BY <2>3 DEF LinkInv
<1>16. SelfInv'
  BY <1>2, <1>9 DEF SelfInv
<1>17. QED
  BY <1>12, <1>13, <1>14, <1>15, <1>16 DEF SelfStays

\* A run that has Self links it to an issue that its index does not know: either
\* Self is Home's, which knows of its attempts, or there is no clone without it.
LEMMA UnlinkedStays ==
  ASSUME CreateInvariant, CreateInvariant', TwoClones, SelfStays, NEW c \in Clone, NEW j \in JiraId, CommitLink(c, j),
         run[c] # Idle, run[c].self # "absent", \A x \in Copy : [jira |-> j, is |-> x] \notin run[c].ix,
         To(c, Idle), UNCHANGED jira
  PROVE  SelfStays'
<1>1. TypeOK /\ TryInv
  BY Parts
<1>2. AbsentInv /\ CopyInv /\ Indexed(c)
  BY StayParts DEF IndexInv
<1> DEFINE p == jira[j].post
<1>3. p \in Post /\ p \in Live /\ p.try.by \in Clone /\ p.try \in store[p.try.by].tries
  <2>1. p \in Post /\ p \in Live
    BY <1>1, JiraIs DEF Live, JiraMade
  <2>2. QED
    BY <1>1, <2>1, TryIs DEF TryInv
<1>4. ~Absent(c) /\ ~Absent(Home) /\ ~Absent(p.try.by)
  <2>1. ~Absent(c) /\ ~Absent(Home)
    BY <1>2 DEF AbsentInv, Absent
  <2>2. ~Absent(p.try.by)
    BY <1>2, <1>3 DEF AbsentInv
  <2>3. QED
    BY <2>1, <2>2
<1> HIDE DEF p
<1>5. p.try \in store[c].tries \/ \A d \in Clone : ~Absent(d)
  <2>1. CASE p.try.by = c
    BY <1>3, <2>1
  <2>2. CASE p.try.by # c
    <3>1. \E b \in {c, p.try.by} : b \in Clone \ {Home}
      BY <1>3, <2>2
    <3>2. \A d \in Clone \ {Home} : d \in {c, p.try.by}
      BY <3>1 DEF TwoClones
    <3>3. QED
      BY <1>4, <3>2
  <2>3. QED
    BY <2>1, <2>2
<1>6. ASSUME NEW q \in Clone \cup {Remote}, NEW x \in store[q].copies, x.jira = j
      PROVE  Early(store[c], x)
  <2>1. x \in Copy /\ x.by \in Clone /\ p.try \in store[Home].tries
        /\ \A r \in Clone \cup {Remote} : p.try \in store[r].tries => Early(store[r], x)
    BY <1>6, CopyLater DEF p
  <2>2. x \in store[x.by].copies /\ x.by # Home
    BY <1>2 DEF CopyInv
  <2>3. CASE c = Home
    BY <2>1, <2>3
  <2>4. CASE c # Home
    <3>1. x.by = c
      BY <2>1, <2>2, <2>4 DEF TwoClones
    <3>2. [jira |-> j, is |-> x] \in run[c].ix \/ Early(store[c], x)
      BY <1>2, <1>6, <2>2, <3>1 DEF Indexed
    <3>3. QED
      BY <2>1, <3>2
  <2>5. QED
    BY <2>3, <2>4
<1>7. QED
  BY <1>5, <1>6, LinkStays DEF p

\* A hit is linked, what the created search found, or what Jira has just made.
LEMMA LinkedStays ==
  ASSUME CreateInvariant, CreateInvariant', TwoClones, SelfStays, NEW c \in Clone,
         \/ \E j \in JiraId : LinkHit(c, j)
         \/ LinkFound(c) \/ Link(c)
  PROVE  SelfStays'
<1>1. TypeOK /\ PostInv /\ IndexInv
  BY Parts, StayParts
<1>2. ASSUME NEW j \in JiraId, LinkHit(c, j)
      PROVE  SelfStays'
  <2>1. Hit(c, j) /\ run[c].self = "unlinked" /\ CommitLink(c, j) /\ To(c, Idle) /\ UNCHANGED jira
    BY <1>2 DEF LinkHit, End
  <2>2. run[c] # Idle /\ j \in run[c].hits
    BY <1>1, <2>1, RunIs DEF Hit
  <2>3. \A e \in run[c].ix : e.jira # j
    BY <1>1, <2>2 DEF IndexInv, Indexed
  <2>4. \A x \in Copy : [jira |-> j, is |-> x] \notin run[c].ix
    BY <2>3
  <2>5. QED
    BY <2>1, <2>2, <2>4, UnlinkedStays
<1>3. CASE LinkFound(c)
  <2>1. run[c].pc = "hits" /\ run[c].self = "unlinked" /\ run[c].found > 0 /\ Others(c) = {}
        /\ CommitLink(c, run[c].found) /\ To(c, Idle) /\ UNCHANGED jira
    BY <1>3 DEF LinkFound, Found, Free, Turn, End
  <2>2. run[c] # Idle /\ run[c].found \in JiraId
    <3>1. run[c] \in Running /\ run[c] # Idle
      BY <1>1, <2>1, RunIs
    <3>2. QED
      BY <2>1, <3>1, RunParts
  <2>3. ASSUME NEW x \in Copy, [jira |-> run[c].found, is |-> x] \in run[c].ix
        PROVE  FALSE
    <3> DEFINE e == [jira |-> run[c].found, is |-> x]
    <3>1. e \in {d \in run[c].ix : d.jira = run[c].found}
      BY <2>3
    <3>2. e.is \in {d.is : d \in {d \in run[c].ix : d.jira = run[c].found}}
      BY <3>1
    <3>3. x # Self
      BY CopyIs
    <3>4. x \in Others(c)
      BY <3>2, <3>3 DEF Others
    <3>5. QED
      BY <2>1, <3>4
  <2>4. QED
    BY <2>1, <2>2, <2>3, UnlinkedStays
<1>4. CASE Link(c)
  <2>1. run[c].pc = "made" /\ CommitLink(c, run[c].found) /\ To(c, Idle) /\ UNCHANGED jira
    BY <1>4 DEF Link, End
  <2>2. run[c] # Idle /\ run[c].found \in JiraId
    <3>1. run[c] \in Running /\ run[c] # Idle
      BY <1>1, <2>1, RunIs
    <3>2. QED
      BY <1>1, <2>1, <3>1, RunParts DEF PostInv
  <2>3. jira[run[c].found].post.try \in store[c].tries
    BY <1>1, <2>1, <2>2 DEF IndexInv, Indexed
  <2>4. \A q \in Clone \cup {Remote} : \A x \in store[q].copies : x.jira = run[c].found => Early(store[c], x)
    BY <2>3, CopyLater
  <2>5. QED
    BY <2>1, <2>2, <2>3, <2>4, LinkStays
<1>5. QED
  BY <1>2, <1>3, <1>4

\* A clone pushes or pulls: of what it learns, no attempt is its own.
LEMMA ExchangeStays ==
  ASSUME CreateInvariant, CreateInvariant', SelfStays,
         NEW from \in Clone \cup {Remote}, NEW to \in Clone \cup {Remote}, Exchange(from, to)
  PROVE  SelfStays'
<1>1. TypeOK /\ TypeOK' /\ TryInv /\ UNCHANGED <<jira, run>>
  BY Parts DEF CreateInvariant, Exchange
<1>2. AbsentInv /\ CopyInv /\ IndexInv /\ LinkInv /\ SelfInv
  BY StayParts
<1> DEFINE s == store[from]
           t == store[to]
           m == Merged(s, t)
<1>3. s \in Store /\ t \in Store /\ s.met \in Nat /\ t.met \in Nat /\ s.link \in Nat /\ t.link \in Nat
  <2>1. {0} \cup JiraId \subseteq Nat
    BY <1>1, JiraIs DEF JiraId
  <2>2. s \in Store /\ t \in Store
    BY <1>1, TryIs
  <2>3. s.met \in Nat /\ t.met \in Nat /\ s.link \in {0} \cup JiraId /\ t.link \in {0} \cup JiraId
    BY <2>2, StoreParts
  <2>4. QED
    BY <2>1, <2>2, <2>3
<1>4. store' = [store EXCEPT ![to] = m]
  BY DEF Exchange
<1>5. store'[to] = m /\ \A q \in (Clone \cup {Remote}) \ {to} : store'[q] = store[q]
  BY <1>1, <1>4 DEF TypeOK
<1>6. /\ m.has = (s.has \/ t.has) /\ m.tries = s.tries \cup t.tries /\ m.link \in {s.link, t.link}
      /\ m.met = First(s.met, t.met) /\ m.copies = s.copies \cup t.copies /\ m.archived = s.archived \cup t.archived
  BY DEF Merged
<1>8. /\ s.met # 0 => m.met # 0 /\ m.met <= s.met
      /\ t.met # 0 => m.met # 0 /\ m.met <= t.met
  BY <1>3, <1>6, FirstLeast
<1>9. m \in Store
  BY <1>1, <1>3, MergedIs
<1> HIDE DEF m
<1>10. ASSUME NEW x, x.at \in Nat, Early(s, x) \/ Early(t, x)
       PROVE  Early(store'[to], x)
  <2>1. CASE Early(s, x)
    BY <1>3, <1>5, <1>6, <1>8, <1>9, <1>10, <2>1, EarlyKept
  <2>2. CASE Early(t, x)
    BY <1>3, <1>5, <1>6, <1>8, <1>9, <1>10, <2>2, EarlyKept
  <2>3. QED
    BY <1>10, <2>1, <2>2
<1>11. ASSUME NEW q \in Clone \cup {Remote}, NEW x, x.at \in Nat, Early(store[q], x)
       PROVE  Early(store'[q], x)
  BY <1>5, <1>10, <1>11
<1>12. \A q \in Clone \cup {Remote} :
          /\ store[q].has => store'[q].has
          /\ store[q].tries \subseteq store'[q].tries /\ store[q].copies \subseteq store'[q].copies
  BY <1>5, <1>6
<1>13. \A d \in Clone : Absent(d)' => Absent(d)
  BY <1>1, <1>12 DEF Absent
<1>14. AbsentInv'
  <2>1. ~Absent(Home)'
    BY <1>2, <1>13 DEF AbsentInv
  <2>2. ASSUME NEW d \in Clone, Absent(d)', NEW u \in store'[d].tries
        PROVE  u.by # d
    <3>1. Absent(d) /\ u \in store[d].tries => u.by # d
      BY <1>2 DEF AbsentInv
    <3>2. u \in store[d].tries \/ u \in s.tries
      BY <1>5, <1>6
    <3>3. u \in s.tries => u \in store[u.by].tries
      BY <1>1 DEF TryInv
    <3>4. QED
      BY <1>13, <2>2, <3>1, <3>2, <3>3
  <2>3. \A d \in Clone : run'[d] # Idle /\ run'[d].self # "absent" => store'[d].has
    BY <1>1, <1>2, <1>12 DEF AbsentInv
  <2>4. QED
    BY <2>1, <2>2, <2>3 DEF AbsentInv
<1>15. ASSUME NEW q \in Clone \cup {Remote}, NEW x \in store'[q].copies
       PROVE  \E z \in Clone \cup {Remote} : x \in store[z].copies
  BY <1>5, <1>6
<1>16. CopyInv'
  <2>1. ASSUME NEW q \in Clone \cup {Remote}, NEW y \in store'[q].copies
        PROVE  /\ y \in store'[y.by].copies /\ y.by # Home
               /\ y.at = jira[y.jira].at /\ jira[y.jira].post.try.by = Home
    <3>1. PICK z \in Clone \cup {Remote} : y \in store[z].copies
      BY <1>15
    <3>2. /\ y \in store[y.by].copies /\ y.by # Home
          /\ y.at = jira[y.jira].at /\ jira[y.jira].post.try.by = Home
      BY <1>2, <3>1 DEF CopyInv
    <3>3. y.by \in Clone
      BY <3>1, CopyLater
    <3>4. QED
      BY <1>12, <3>2, <3>3
  <2>2. QED
    BY <1>1, <2>1 DEF CopyInv
<1>17. IndexInv'
  <2>1. ASSUME NEW d \in Clone, run[d] # Idle
        PROVE  Indexed(d)'
    <3>1. Indexed(d)
      BY <1>2, <2>1 DEF IndexInv
    <3>2. ASSUME run[d].self # "absent", NEW x \in store'[d].copies, x.by = d
          PROVE  [jira |-> x.jira, is |-> x] \in run[d].ix \/ Early(store'[d], x)
      <4>1. PICK z \in Clone \cup {Remote} : x \in store[z].copies
        BY <1>15
      <4>2. x \in store[d].copies
        BY <1>2, <3>2, <4>1 DEF CopyInv
      <4>3. x.at \in Nat
        BY <4>1, CopyLater
      <4>4. [jira |-> x.jira, is |-> x] \in run[d].ix \/ Early(store[d], x)
        BY <3>1, <3>2, <4>2 DEF Indexed
      <4>5. QED
        BY <1>11, <4>3, <4>4
    <3>3. run[d].pc = "made" => jira[run[d].found].post.try \in store'[d].tries
      BY <1>12, <3>1 DEF Indexed
    <3>4. Self \notin run[d].losers /\ \A j \in run[d].hits, e \in run[d].ix : e.jira # j
      BY <3>1 DEF Indexed
    <3>5. QED
      BY <1>1, <3>2, <3>3, <3>4 DEF Indexed, Early
  <2>2. QED
    BY <1>1, <2>1 DEF IndexInv
<1>18. LinkInv'
  <2>1. ASSUME NEW q \in Clone \cup {Remote}, store'[q].link # 0
        PROVE  /\ \/ jira[store'[q].link].post.try \in store'[q].tries
                  \/ \A d \in Clone : ~Absent(d)'
               /\ \A z \in Clone \cup {Remote} : \A y \in store'[z].copies :
                     y.jira = store'[q].link => Early(store'[q], y)
    <3>1. PICK r \in {q, from} : /\ store[r].link = store'[q].link /\ store[r].tries \subseteq store'[q].tries
                                 /\ \A x : x.at \in Nat /\ Early(store[r], x) => Early(store'[q], x)
      <4>1. CASE q = to
        <5>1. s.tries \subseteq store'[q].tries /\ t.tries \subseteq store'[q].tries
          BY <1>5, <1>6, <4>1
        <5>2. s.link = store'[q].link \/ t.link = store'[q].link
          BY <1>5, <1>6, <4>1
        <5>3. \A x : x.at \in Nat /\ (Early(s, x) \/ Early(t, x)) => Early(store'[q], x)
          BY <1>10, <4>1
        <5>4. QED
          BY <4>1, <5>1, <5>2, <5>3
      <4>2. CASE q # to
        BY <1>5, <1>11, <4>2
      <4>3. QED
        BY <4>1, <4>2
    <3>2. r \in Clone \cup {Remote} /\ store[r].link # 0
      BY <2>1, <3>1
    <3>3. /\ \/ jira[store[r].link].post.try \in store[r].tries
             \/ \A d \in Clone : ~Absent(d)
          /\ \A z \in Clone \cup {Remote} : \A y \in store[z].copies :
                y.jira = store[r].link => Early(store[r], y)
      BY <1>2, <3>2 DEF LinkInv
    <3>4. \/ jira[store'[q].link].post.try \in store'[q].tries
          \/ \A d \in Clone : ~Absent(d)'
      BY <1>13, <3>1, <3>3
    <3>5. ASSUME NEW z \in Clone \cup {Remote}, NEW y \in store'[z].copies, y.jira = store'[q].link
          PROVE  Early(store'[q], y)
      <4>1. PICK w \in Clone \cup {Remote} : y \in store[w].copies
        BY <1>15
      <4>2. y.at \in Nat
        BY <4>1, CopyLater
      <4>3. Early(store[r], y)
        BY <3>1, <3>3, <3>5, <4>1
      <4>4. QED
        BY <3>1, <4>2, <4>3
    <3>6. QED
      BY <3>4, <3>5
  <2>2. \A q \in Clone \cup {Remote} : \A y : Early(store'[q], y) => Early(store[q], y)'
    BY DEF Early
  <2>3. QED
    BY <1>1, <2>1, <2>2 DEF LinkInv
<1>19. SelfInv'
  BY <1>2, <1>5, <1>6 DEF SelfInv
<1>20. QED
  BY <1>14, <1>16, <1>17, <1>18, <1>19 DEF SelfStays

\* At first only Home has Self, and nobody knows anything.
LEMMA InitStays == Init => SelfStays
<1> SUFFICES ASSUME Init
             PROVE  SelfStays
  OBVIOUS
<1>1. \A r \in Clone \cup {Remote} :
         store[r].has = (r = Home) /\ store[r].tries = {} /\ store[r].link = 0
         /\ store[r].copies = {} /\ store[r].archived = {}
  BY DEF Init
<1>2. \A c \in Clone : run[c] = Idle
  BY DEF Init
<1>3. AbsentInv /\ IndexInv
  BY <1>1, <1>2 DEF AbsentInv, Absent, IndexInv
<1>4. CopyInv /\ LinkInv /\ SelfInv
  BY <1>1 DEF CopyInv, LinkInv, SelfInv
<1>5. QED
  BY <1>3, <1>4 DEF SelfStays

\* Every step of a run keeps Self.
LEMMA RunStepStays ==
  ASSUME CreateInvariant, CreateInvariant', TwoClones, SelfStays, NEW c \in Clone, RunStep(c)
  PROVE  SelfStays'
<1>1. CASE Begin(c) \/ Consolidate(c) \/ Search(c)
  BY <1>1, BeginStays, ConsolidateStays, SearchStays
<1>2. ASSUME NEW j \in JiraId, Adopt(c, j) \/ Orphan(c, j) \/ LinkHit(c, j)
      PROVE  SelfStays'
  BY <1>2, AdoptStays, OrphanStays, LinkedStays
<1>3. CASE TurnSkipped(c) \/ Wait(c) \/ FoundKept(c) \/ PostRefused(c) \/ PostLost(c)
  BY <1>3, IdleStays
<1>4. CASE CreatedSearch(c) \/ FoundTaken(c) \/ Attempt(c) \/ PostMade(c)
  BY <1>4, CreatedSearchStays, FoundTakenStays, AttemptStays, PostMadeStays
<1>5. CASE LinkFound(c) \/ Link(c)
  BY <1>5, LinkedStays
<1>6. QED
  BY <1>1, <1>2, <1>3, <1>4, <1>5 DEF RunStep

\* Every step keeps Self.
LEMMA StepStays ==
  ASSUME CreateInvariant, CreateInvariant', TwoClones, SelfStays, [Next]_vars
  PROVE  SelfStays'
<1>1. CASE Tick \/ Showing \/ UNCHANGED vars \/ \E p \in flight : Land(p) \/ Vanish(p)
  BY <1>1, WorldStays DEF Showing
<1>2. ASSUME NEW c \in Clone, Push(c) \/ Pull(c)
      PROVE  SelfStays'
  BY <1>2, ExchangeStays DEF Push, Pull
<1>3. ASSUME NEW c \in Clone, RunStep(c)
      PROVE  SelfStays'
  BY <1>3, RunStepStays
<1>4. ASSUME NEW c \in Clone, Stop(c) \/ Lose(c)
      PROVE  SelfStays'
  BY <1>4, IdleStays, WorldStays
<1>5. QED
  BY <1>1, <1>2, <1>3, <1>4 DEF Next

\* With two clones Self is never archived: who is linked to a Jira issue was
\* there before every copy of it (jira/index.go, firstToSync; jira/create.go,
\* linkCreated; jira/candidates.go, consolidate).
THEOREM KeptInvariance == Spec => []KeptInvariant
<1>1. Init => KeptInvariant
  BY InitInvariant, InitStays DEF KeptInvariant
<1>2. KeptInvariant /\ [Next]_vars => KeptInvariant'
  <2> SUFFICES ASSUME KeptInvariant, [Next]_vars
               PROVE  KeptInvariant'
    OBVIOUS
  <2>1. CreateInvariant /\ CreateInvariant'
    BY StepInvariant DEF KeptInvariant
  <2>2. ASSUME TwoClones
        PROVE  SelfStays'
    BY <2>1, <2>2, StepStays DEF KeptInvariant
  <2>3. (TwoClones => SelfStays)'
    BY <2>2 DEF TwoClones
  <2>4. QED
    BY <2>1, <2>3 DEF KeptInvariant
<1>3. QED
  BY <1>1, <1>2, PTL DEF Spec

\* Two clones never archive everything that stands for a Jira issue
\* (jira/index.go, firstToSync: "every clone holding both agrees").
THEOREM OneIsKept ==
  ASSUME TwoClones
  PROVE  Spec => []OneKept
<1>1. KeptInvariant => OneKept
  <2> SUFFICES ASSUME KeptInvariant, NEW r \in Clone \cup {Remote}
               PROVE  Self \notin store[r].archived
    BY DEF OneKept
  <2>1. SelfStays
    BY DEF KeptInvariant
  <2>2. QED
    BY <2>1, StayParts DEF SelfInv
<1>2. QED
  BY <1>1, KeptInvariance, PTL

=============================================================================
