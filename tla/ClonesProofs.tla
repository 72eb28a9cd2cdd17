--------------------------- MODULE ClonesProofs ---------------------------
(***************************************************************************)
(* Proofs about Clones, for any number of clones, operations and orders of *)
(* pack ids: ClonesInvariant is inductive, so no ref moves but forward, no *)
(* operation is forgotten, compiling by edit time follows the history, and *)
(* the walk and the sort of the reader, loops and all, order any history   *)
(* that the clones can make.                                               *)
(***************************************************************************)
EXTENDS ClonesInv, FiniteSetTheorems, WellFoundedInduction, TLAPS

USE ClonesAssumption DEF None, Merge, Hash, Op

-----------------------------------------------------------------------------
(* Loops and recursion.                                                    *)

\* A set of natural numbers that is not empty has a least one.
LEMMA LeastNat ==
  ASSUME NEW T \in SUBSET Nat, T # {}
  PROVE  \E x \in T : \A y \in T : x <= y
<1> DEFINE R == OpToRel(<, Nat)
<1>1. IsWellFoundedOn(R, Nat)
  BY NatLessThanWellFounded, Zenon
<1>2. PICK x \in T : \A y \in T : <<y, x>> \notin R
  <2> HIDE DEF R
  <2>1. QED
    BY <1>1, WFMin
<1>3. \A y \in T : ~(y < x)
  BY <1>2 DEF OpToRel
<1>4. QED
  BY <1>3

\* Induction up to a bound: a set of numbers that has 0, and with every number
\* the next one.
LEMMA UpTo ==
  ASSUME NEW n \in Nat, NEW T, 0 \in T,
         \A k \in 1..n : k - 1 \in T => k \in T
  PROVE  0..n \subseteq T
<1> SUFFICES ASSUME (0..n) \ T # {} PROVE FALSE
  OBVIOUS
<1>1. PICK m \in (0..n) \ T : \A y \in (0..n) \ T : m <= y
  <2> DEFINE B == (0..n) \ T
  <2>1. B \subseteq Nat /\ B # {}
    OBVIOUS
  <2> HIDE DEF B
  <2>2. \E m \in B : \A y \in B : m <= y
    BY <2>1, LeastNat
  <2>3. QED
    BY <2>2 DEF B
<1>2. m \in 1..n /\ m - 1 \in 0..n /\ m - 1 \in T
  BY <1>1
<1>3. QED
  BY <1>2

\* The values of a loop of n turns, of which F[k] is the k-th.
Loop(S, F, s, n) ==
  {g \in [0..n -> S] : g[0] = s /\ \A k \in 1..n : g[k] = F[k][g[k - 1]]}

\* What is defined by recursion from the number before is defined.
LEMMA Recursion ==
  ASSUME NEW S, NEW F \in [Nat -> [S -> S]], NEW s \in S, NEW n \in Nat
  PROVE  Loop(S, F, s, n) # {}
<1> DEFINE T == {m \in Nat : \E g \in [0..m -> S] :
                   g[0] = s /\ \A k \in 1..m : g[k] = F[k][g[k - 1]]}
<1>1. 0 \in T
  <2>1. [k \in 0..0 |-> s] \in [0..0 -> S] /\ [k \in 0..0 |-> s][0] = s /\ 1..0 = {}
    OBVIOUS
  <2>2. QED
    BY <2>1
<1>2. ASSUME NEW m \in 1..n, m - 1 \in T
      PROVE  m \in T
  <2>1. PICK g \in [0..(m - 1) -> S] :
               g[0] = s /\ \A k \in 1..(m - 1) : g[k] = F[k][g[k - 1]]
    BY <1>2
  <2> DEFINE h == [k \in 0..m |-> IF k = m THEN F[m][g[m - 1]] ELSE g[k]]
  <2>2. F[m][g[m - 1]] \in S
    BY <2>1
  <2>3. h \in [0..m -> S]
    BY <2>1, <2>2
  <2>4. ASSUME NEW k \in 1..m
        PROVE  h[k] = F[k][h[k - 1]]
    <3>1. h[k - 1] = g[k - 1]
      OBVIOUS
    <3>2. CASE k = m
      <4>1. h[m] = F[m][g[m - 1]]
        OBVIOUS
      <4> HIDE DEF h
      <4>2. QED
        BY <3>1, <3>2, <4>1
    <3>3. CASE k # m
      <4>1. k \in 1..(m - 1) /\ h[k] = g[k]
        BY <3>3
      <4> HIDE DEF h
      <4>2. QED
        BY <2>1, <3>1, <4>1
    <3>4. QED
      BY <3>2, <3>3
  <2>5. h[0] = s /\ m \in Nat
    BY <2>1
  <2> HIDE DEF h
  <2>6. \E g_1 \in [0..m -> S] : g_1[0] = s /\ \A k \in 1..m : g_1[k] = F[k][g_1[k - 1]]
    BY <2>3, <2>4, <2>5
  <2>7. QED
    BY <2>5, <2>6
<1>3. n \in T
  <2> HIDE DEF T
  <2>1. \A k \in 1..n : k - 1 \in T => k \in T
    BY <1>2
  <2>2. 0..n \subseteq T
    BY <1>1, <2>1, UpTo
  <2>3. QED
    BY <2>2
<1>4. QED
  BY <1>3 DEF Loop

-----------------------------------------------------------------------------
(* Sequences.                                                              *)

\* What is in a sequence.
LEMMA InRange ==
  ASSUME NEW A, NEW s \in Seq(A)
  PROVE  \A x : x \in Range(s) <=> \E i \in 1..Len(s) : x = s[i]
<1>1. DOMAIN s = 1..Len(s)
  OBVIOUS
<1>2. QED
  BY <1>1, Zenon DEF Range

\* A sequence with one more at its end.
LEMMA Lengthened ==
  ASSUME NEW A, NEW r \in Seq(A), NEW x \in A
  PROVE  /\ Append(r, x) \in Seq(A) /\ Len(Append(r, x)) = Len(r) + 1
         /\ \A j \in 1..Len(r) : Append(r, x)[j] = r[j]
         /\ Append(r, x)[Len(r) + 1] = x
         /\ Range(Append(r, x)) = Range(r) \cup {x}
         /\ IsInjective(r) /\ x \notin Range(r) => IsInjective(Append(r, x))
<1> DEFINE n == Len(r)
           a == Append(r, x)
<1>0. n \in Nat
  OBVIOUS
<1>1. /\ a \in Seq(A) /\ Len(a) = n + 1 /\ \A j \in 1..n : a[j] = r[j]
      /\ a[n + 1] = x
  OBVIOUS
<1>2. DOMAIN a = 1..(n + 1) /\ DOMAIN r = 1..n
  OBVIOUS
<1> HIDE DEF a, n
<1>3. \A j \in 1..(n + 1) : j \in 1..n \/ j = n + 1
  BY <1>0
<1>4. 1..n \subseteq 1..(n + 1) /\ n + 1 \in 1..(n + 1) /\ n + 1 \notin 1..n
  BY <1>0
<1>5. Range(a) = Range(r) \cup {x}
  <2>1. \A j \in 1..(n + 1) : a[j] \in Range(r) \cup {x}
    BY <1>1, <1>2, <1>3 DEF Range
  <2>2. \A j \in 1..n : r[j] \in Range(a)
    BY <1>1, <1>2, <1>4 DEF Range
  <2>3. x \in Range(a)
    BY <1>1, <1>2, <1>4 DEF Range
  <2>4. QED
    BY <1>2, <2>1, <2>2, <2>3, Zenon DEF Range
<1>6. ASSUME IsInjective(r), x \notin Range(r)
      PROVE  IsInjective(a)
  <2>1. \A j \in 1..n : r[j] # x
    BY <1>2, <1>6 DEF Range
  <2>2. \A i, j \in 1..n : r[i] = r[j] => i = j
    BY <1>2, <1>6 DEF IsInjective
  <2>3. \A i, j \in 1..(n + 1) : a[i] = a[j] => i = j
    <3>1. SUFFICES ASSUME NEW i \in 1..(n + 1), NEW j \in 1..(n + 1), a[i] = a[j]
                   PROVE  i = j
      OBVIOUS
    <3>2. (i \in 1..n /\ a[i] = r[i]) \/ (i = n + 1 /\ a[i] = x)
      BY <1>1, <1>3
    <3>3. (j \in 1..n /\ a[j] = r[j]) \/ (j = n + 1 /\ a[j] = x)
      BY <1>1, <1>3
    <3>4. QED
      BY <2>1, <2>2, <3>1, <3>2, <3>3
  <2>4. QED
    BY <1>2, <2>3 DEF IsInjective
<1>7. QED
  BY <1>1, <1>5, <1>6 DEF a, n

\* Two sequences, one after the other.
LEMMA Joined ==
  ASSUME NEW A, NEW t \in Seq(A), NEW r \in Seq(A)
  PROVE  /\ t \o r \in Seq(A) /\ Len(t \o r) = Len(t) + Len(r)
         /\ \A i \in 1..(Len(t) + Len(r)) :
              (t \o r)[i] = IF i <= Len(t) THEN t[i] ELSE r[i - Len(t)]
  OBVIOUS

\* A queue whose first is taken off, and to which others are added.
LEMMA Queued ==
  ASSUME NEW A, NEW q \in Seq(A), q # <<>>, NEW r \in Seq(A),
         IsInjective(q), IsInjective(r), Range(q) \cap Range(r) = {}
  PROVE  /\ Head(q) \in A
         /\ Tail(q) \o r \in Seq(A)
         /\ Range(q) = {Head(q)} \cup Range(Tail(q)) /\ Head(q) \notin Range(Tail(q))
         /\ Range(Tail(q) \o r) = Range(Tail(q)) \cup Range(r)
         /\ IsInjective(Tail(q) \o r)
<1> DEFINE m == Len(q) - 1
           n == Len(r)
           t == Tail(q)
           a == t \o r
<1>0. m \in Nat /\ n \in Nat /\ Head(q) = q[1]
  OBVIOUS
<1>1. q[1] \in A /\ t \in Seq(A) /\ Len(t) = m /\ \A i \in 1..m : t[i] = q[i + 1]
  OBVIOUS
<1>2. /\ a \in Seq(A) /\ Len(a) = m + n
      /\ \A i \in 1..(m + n) : a[i] = IF i <= m THEN t[i] ELSE r[i - m]
  <2>1. r \in Seq(A) /\ n = Len(r)
    OBVIOUS
  <2>2. Len(t) = m /\ t \in Seq(A)
    BY <1>1
  <2> HIDE DEF t, m, n
  <2>3. /\ a \in Seq(A) /\ Len(a) = Len(t) + Len(r)
        /\ \A i \in 1..(Len(t) + Len(r)) : a[i] = IF i <= Len(t) THEN t[i] ELSE r[i - Len(t)]
    BY <2>1, <2>2, Joined
  <2> HIDE DEF a
  <2>4. QED
    BY <2>1, <2>2, <2>3
<1>3. /\ DOMAIN q = 1..(m + 1) /\ DOMAIN r = 1..n /\ DOMAIN t = 1..m /\ DOMAIN a = 1..(m + n)
  <2>1. DOMAIN q = 1..(m + 1) /\ DOMAIN r = 1..n
    OBVIOUS
  <2> HIDE DEF t, m, n, a
  <2>2. QED
    BY <1>1, <1>2, <2>1
<1> HIDE DEF t, m, n, a
<1>4. Range(q) = {q[1]} \cup Range(t)
  <2>1. ASSUME NEW i \in 1..(m + 1)
        PROVE  q[i] \in {q[1]} \cup Range(t)
    <3>1. i = 1 \/ (i - 1 \in 1..m /\ t[i - 1] = q[i])
      BY <1>0, <1>1
    <3>2. QED
      BY <1>3, <3>1 DEF Range
  <2>2. ASSUME NEW i \in 1..m
        PROVE  t[i] \in Range(q)
    <3>1. i + 1 \in 1..(m + 1) /\ t[i] = q[i + 1]
      BY <1>0, <1>1
    <3>2. QED
      BY <1>3, <3>1 DEF Range
  <2>3. q[1] \in Range(q)
    BY <1>0, <1>3 DEF Range
  <2>4. QED
    BY <1>3, <2>1, <2>2, <2>3, Zenon DEF Range
<1>5. q[1] \notin Range(t)
  <2>1. \A i \in 1..m : i + 1 \in DOMAIN q /\ 1 \in DOMAIN q /\ i + 1 # 1
    BY <1>0, <1>3
  <2>2. ASSUME NEW i \in 1..m, q[i + 1] = q[1]
        PROVE  FALSE
    <3>1. i + 1 = 1
      BY <2>1, <2>2, Zenon DEF IsInjective
    <3>2. QED
      BY <2>1, <3>1
  <2>3. QED
    BY <1>1, <1>3, <2>2 DEF Range
<1>6. Range(a) = Range(t) \cup Range(r)
  <2> HIDE DEF a, t, m, n
  <2>0. \A i \in 1..(m + n) : a[i] = IF i <= m THEN t[i] ELSE r[i - m]
    BY <1>2, Zenon
  <2>1. ASSUME NEW i \in 1..(m + n)
        PROVE  a[i] \in Range(t) \cup Range(r)
    <3>1. (i \in 1..m /\ a[i] = t[i]) \/ (i - m \in 1..n /\ a[i] = r[i - m])
      BY <1>0, <2>0, SMTT(30)
    <3>2. QED
      BY <1>3, <3>1 DEF Range
  <2>2. ASSUME NEW i \in 1..m
        PROVE  t[i] \in Range(a)
    <3>1. i \in 1..(m + n) /\ a[i] = t[i]
      BY <1>0, <2>0
    <3>2. QED
      BY <1>3, <3>1 DEF Range
  <2>3. ASSUME NEW i \in 1..n
        PROVE  r[i] \in Range(a)
    <3>1. i + m \in 1..(m + n) /\ a[i + m] = r[i]
      BY <1>0, <2>0
    <3>2. QED
      BY <1>3, <3>1 DEF Range
  <2>4. QED
    BY <1>3, <2>1, <2>2, <2>3, Zenon DEF Range
<1>7. IsInjective(a)
  <2> HIDE DEF a, t, m, n
  <2>0. \A i \in 1..(m + n) : a[i] = IF i <= m THEN t[i] ELSE r[i - m]
    BY <1>2, Zenon
  <2>1. SUFFICES ASSUME NEW i \in 1..(m + n), NEW j \in 1..(m + n), a[i] = a[j]
                 PROVE  i = j
    BY <1>3 DEF IsInjective
  <2>2. \A k, l \in 1..m : t[k] = t[l] => k = l
    <3>1. \A k, l \in 1..(m + 1) : q[k] = q[l] => k = l
      BY <1>3 DEF IsInjective
    <3>2. \A k \in 1..m : k + 1 \in 1..(m + 1)
      BY <1>0
    <3>3. ASSUME NEW k \in 1..m, NEW l \in 1..m, t[k] = t[l]
          PROVE  k = l
      <4>1. q[k + 1] = q[l + 1]
        BY <1>1, <3>3
      <4>2. k + 1 = l + 1
        BY <3>1, <3>2, <4>1
      <4>3. QED
        BY <1>0, <4>2
    <3>4. QED
      BY <3>3
  <2>3. \A k, l \in 1..n : r[k] = r[l] => k = l
    BY <1>3 DEF IsInjective
  <2>4. \A k \in 1..m, l \in 1..n : t[k] # r[l]
    <3>1. \A k \in 1..m : t[k] \in Range(q)
      BY <1>3, <1>4 DEF Range
    <3>2. \A l \in 1..n : r[l] \in Range(r)
      BY <1>3 DEF Range
    <3>3. QED
      BY <3>1, <3>2
  <2>5. CASE i <= m /\ j <= m
    BY <1>0, <2>0, <2>1, <2>2, <2>5
  <2>6. CASE i <= m /\ ~(j <= m)
    <3>1. i \in 1..m /\ j - m \in 1..n /\ a[i] = t[i] /\ a[j] = r[j - m]
      BY <1>0, <2>0, <2>6
    <3>2. QED
      BY <2>1, <2>4, <3>1
  <2>7. CASE ~(i <= m) /\ j <= m
    <3>1. j \in 1..m /\ i - m \in 1..n /\ a[j] = t[j] /\ a[i] = r[i - m]
      BY <1>0, <2>0, <2>7
    <3>2. QED
      BY <2>1, <2>4, <3>1
  <2>8. CASE ~(i <= m) /\ ~(j <= m)
    <3>1. i - m \in 1..n /\ j - m \in 1..n /\ a[i] = r[i - m] /\ a[j] = r[j - m]
      BY <1>0, <2>0, <2>8
    <3>2. i - m = j - m
      BY <2>1, <2>3, <3>1
    <3>3. QED
      BY <1>0, <3>2
  <2>9. QED
    BY <2>5, <2>6, <2>7, <2>8
<1>8. QED
  BY <1>0, <1>1, <1>2, <1>4, <1>5, <1>6, <1>7 DEF t, a

\* A sequence reversed.
LEMMA TurnedRound ==
  ASSUME NEW A, NEW s \in Seq(A)
  PROVE  /\ Reverse(s) \in Seq(A) /\ Range(Reverse(s)) = Range(s)
         /\ IsInjective(s) => IsInjective(Reverse(s))
<1> DEFINE n == Len(s)
           r == Reverse(s)
<1>1. n \in Nat /\ r = [i \in 1..n |-> s[(n - i) + 1]] /\ DOMAIN s = 1..n
  BY DEF Reverse
<1>2. \A i \in 1..n : s[i] \in A
  OBVIOUS
<1> HIDE DEF n, r
<1>3. \A i \in 1..n : (n - i) + 1 \in 1..n /\ (n - ((n - i) + 1)) + 1 = i
  BY <1>1
<1>4. DOMAIN r = 1..n /\ \A i \in 1..n : r[i] = s[(n - i) + 1]
  BY <1>1
<1>5. r \in Seq(A)
  BY <1>1, <1>2, <1>3
<1>6. Range(r) = Range(s)
  <2>1. ASSUME NEW i \in 1..n
        PROVE  r[i] \in Range(s)
    BY <1>1, <1>3, <1>4 DEF Range
  <2>2. ASSUME NEW i \in 1..n
        PROVE  s[i] \in Range(r)
    <3> DEFINE j == (n - i) + 1
    <3>1. j \in 1..n /\ r[j] = s[(n - j) + 1] /\ (n - j) + 1 = i
      BY <1>3, <1>4
    <3> HIDE DEF j
    <3>2. r[j] = s[i] /\ r[j] \in Range(r)
      BY <1>4, <3>1 DEF Range
    <3>3. QED
      BY <3>2
  <2>3. DOMAIN s = 1..n /\ DOMAIN r = 1..n
    BY <1>1, <1>4
  <2>4. QED
    BY <2>1, <2>2, <2>3, Zenon DEF Range
<1>7. ASSUME IsInjective(s)
      PROVE  IsInjective(r)
  <2>1. ASSUME NEW i \in 1..n, NEW j \in 1..n, r[i] = r[j]
        PROVE  i = j
    <3>1. s[(n - i) + 1] = s[(n - j) + 1]
      BY <1>4, <2>1
    <3>2. (n - i) + 1 = (n - j) + 1
      BY <1>1, <1>3, <1>7, <3>1 DEF IsInjective
    <3>3. QED
      BY <1>1, <3>2
  <2>2. QED
    BY <1>4, <2>1 DEF IsInjective
<1>8. QED
  BY <1>5, <1>6, <1>7 DEF r

\* As many as there are, without repetition, are all of them.
LEMMA AllOfThem ==
  ASSUME NEW n \in Nat, NEW s \in Seq(1..n), IsInjective(s), Len(s) = n
  PROVE  Range(s) = 1..n
<1>1. IsFiniteSet(1..n) /\ Cardinality(1..n) = n
  BY FS_Interval
<1>2. s \in [1..n -> 1..n] /\ DOMAIN s = 1..n
  OBVIOUS
<1>3. s \in Injection(1..n, 1..n)
  BY <1>2 DEF Injection, IsInjective
<1>4. s \in Surjection(1..n, 1..n)
  BY <1>1, <1>3, FS_Injection
<1>5. QED
  BY <1>2, <1>4 DEF Surjection, Range

\* The members of S in a sequence are a sequence of them, without repetition
\* if it has none.
LEMMA OnlyThose ==
  ASSUME NEW A, NEW s \in Seq(A), NEW S
  PROVE  /\ Only(s, S) \in Seq(A)
         /\ Range(Only(s, S)) = Range(s) \cap S
         /\ IsInjective(s) => IsInjective(Only(s, S))
<1> DEFINE n == Len(s)
           Turn(i, r) == IF s[i] \in S THEN Append(r, s[i]) ELSE r
           F == [i \in Nat |-> [r \in Seq(A) |-> IF i \in 1..n THEN Turn(i, r) ELSE r]]
           only[i \in 0..n] ==
             IF i = 0 THEN <<>>
             ELSE IF s[i] \in S THEN Append(only[i - 1], s[i]) ELSE only[i - 1]
<1>1. n \in Nat /\ \A i \in 1..n : s[i] \in A
  OBVIOUS
<1>2. PICK g \in [0..n -> Seq(A)] : g[0] = <<>> /\ \A k \in 1..n : g[k] = F[k][g[k - 1]]
  <2>1. F \in [Nat -> [Seq(A) -> Seq(A)]]
    <3>1. \A i \in Nat, r \in Seq(A) : (IF i \in 1..n THEN Turn(i, r) ELSE r) \in Seq(A)
      BY <1>1
    <3>2. QED
      BY <3>1
  <2>2. <<>> \in Seq(A)
    OBVIOUS
  <2>3. n \in Nat
    OBVIOUS
  <2> DEFINE Q == Seq(A)
             e == <<>>
  <2>4. F \in [Nat -> [Q -> Q]] /\ e \in Q
    BY <2>1, <2>2
  <2> HIDE DEF F, n, Q, e
  <2>5. Loop(Q, F, e, n) # {}
    BY <2>3, <2>4, Recursion
  <2>6. QED
    BY <2>5 DEF Q, e, Loop
<1>3. ASSUME NEW k \in 1..n
      PROVE  g[k] = Turn(k, g[k - 1])
  <2>1. g[k - 1] \in Seq(A) /\ k \in Nat
    <3>1. n \in Nat
      OBVIOUS
    <3> HIDE DEF n, F
    <3>2. k - 1 \in 0..n /\ k \in Nat
      BY <3>1
    <3>3. QED
      BY <1>2, <3>2
  <2>2. g[k] = F[k][g[k - 1]]
    BY <1>2
  <2>3. QED
    BY <2>1, <2>2
<1>4. g = [i \in 0..n |-> IF i = 0 THEN <<>>
                          ELSE IF s[i] \in S THEN Append(g[i - 1], s[i]) ELSE g[i - 1]]
  <2>1. \A i \in 0..n : i = 0 \/ i \in 1..n
    BY <1>1
  <2>2. \A i \in 0..n : g[i] = IF i = 0 THEN <<>>
                               ELSE IF s[i] \in S THEN Append(g[i - 1], s[i]) ELSE g[i - 1]
    BY <1>2, <1>3, <2>1, Zenon
  <2>3. QED
    BY <1>2, <2>2
<1>5. only = [i \in 0..n |-> IF i = 0 THEN <<>>
                             ELSE IF s[i] \in S THEN Append(only[i - 1], s[i]) ELSE only[i - 1]]
  <2> HIDE DEF F, n
  <2>1. QED
    BY <1>4, Zenon
<1>6. Only(s, S) = only[n]
  BY DEF Only
<1>7. only[0] = <<>> /\ \A i \in 1..n : only[i] = Turn(i, only[i - 1])
  <2>1. 0 \in 0..n /\ \A i \in 1..n : i \in 0..n /\ i # 0
    BY <1>1
  <2> HIDE DEF only, n, F
  <2>2. \A i \in 0..n : only[i] = IF i = 0 THEN <<>>
               ELSE IF s[i] \in S THEN Append(only[i - 1], s[i]) ELSE only[i - 1]
    BY <1>5, Zenon
  <2>3. QED
    BY <2>1, <2>2, Zenon
<1> DEFINE P(r, i) == /\ r \in Seq(A)
                      /\ \A x : x \in Range(r) <=> \E j \in 1..i : x = s[j] /\ x \in S
                      /\ IsInjective(s) => IsInjective(r)
           T == {i \in 0..n : P(only[i], i)}
<1>8. 0 \in T
  <2>1. <<>> \in Seq(A) /\ Range(<<>>) = {} /\ IsInjective(<<>>) /\ 1..0 = {}
    BY DEF Range, IsInjective
  <2>2. P(<<>>, 0)
    BY <2>1
  <2> HIDE DEF only, P
  <2>3. QED
    BY <1>1, <1>7, <2>2
<1>9. ASSUME NEW i \in 1..n, i - 1 \in T
      PROVE  i \in T
  <2> HIDE DEF only
  <2> DEFINE r == only[i - 1]
  <2>1. P(r, i - 1) /\ only[i] = Turn(i, r)
    BY <1>7, <1>9
  <2> HIDE DEF r
  <2>2. CASE s[i] \notin S
    <3>1. only[i] = r
      BY <2>1, <2>2
    <3>2. \A x : (\E j \in 1..i : x = s[j] /\ x \in S)
                   <=> (\E j \in 1..(i - 1) : x = s[j] /\ x \in S)
      BY <2>2
    <3>3. QED
      BY <2>1, <3>1, <3>2
  <2>3. CASE s[i] \in S
    <3>1. only[i] = Append(r, s[i]) /\ r \in Seq(A) /\ s[i] \in A
      BY <1>1, <2>1, <2>3
    <3>2. \A x : (\E j \in 1..i : x = s[j] /\ x \in S)
                   <=> x = s[i] \/ (\E j \in 1..(i - 1) : x = s[j] /\ x \in S)
      BY <2>3
    <3>3. ASSUME IsInjective(s)
          PROVE  s[i] \notin Range(r)
      <4>1. \A j \in 1..(i - 1) : s[j] # s[i]
        BY <1>1, <3>3 DEF IsInjective
      <4>2. QED
        BY <2>1, <4>1
    <3>4. /\ Append(r, s[i]) \in Seq(A)
          /\ Range(Append(r, s[i])) = Range(r) \cup {s[i]}
          /\ IsInjective(r) /\ s[i] \notin Range(r) => IsInjective(Append(r, s[i]))
      BY <3>1, Lengthened
    <3>5. P(Append(r, s[i]), i)
      <4> DEFINE a == Append(r, s[i])
      <4>1. a \in Seq(A)
        BY <3>4
      <4>2. \A x : x \in Range(a) <=> \E j \in 1..i : x = s[j] /\ x \in S
        <5> HIDE DEF a
        <5>1. \A x : x \in Range(a) <=> x \in Range(r) \/ x = s[i]
          BY <3>4 DEF a
        <5>2. \A x : x \in Range(r) <=> \E j \in 1..(i - 1) : x = s[j] /\ x \in S
          BY <2>1
        <5>3. QED
          BY <3>2, <5>1, <5>2, Zenon
      <4>3. IsInjective(s) => IsInjective(a)
        BY <2>1, <3>3, <3>4
      <4> HIDE DEF a
      <4>4. P(a, i)
        BY <4>1, <4>2, <4>3
      <4>5. QED
        BY <4>4 DEF a
    <3>6. i \in 0..n
      BY <1>1
    <3> HIDE DEF P
    <3>7. QED
      BY <3>1, <3>5, <3>6
  <2>4. QED
    BY <2>2, <2>3
<1>10. n \in T
  <2>1. n \in Nat
    OBVIOUS
  <2> HIDE DEF T, n
  <2>2. \A k \in 1..n : k - 1 \in T => k \in T
    BY <1>9
  <2>3. 0..n \subseteq T
    BY <1>8, <2>1, <2>2, UpTo
  <2>4. QED
    BY <2>1, <2>3
<1>11. P(only[n], n)
  BY <1>10
<1>12. \A x : x \in Range(s) <=> \E j \in 1..n : x = s[j]
  BY DEF Range
<1> HIDE DEF only, n
<1>13. QED
  BY <1>6, <1>11, <1>12

-----------------------------------------------------------------------------
(* The loops of the reader.                                                *)

\* Evaluating a turn of the walk once is evaluating it.
LEMMA WalkOnce ==
  ASSUME NEW s
  PROVE  With(WalkTurn, s) = WalkTurn(s)
<1>1. {WalkTurn(z) : z \in {s}} = {WalkTurn(s)}
  OBVIOUS
<1>2. (CHOOSE y \in {WalkTurn(s)} : TRUE) = WalkTurn(s)
  OBVIOUS
<1>3. QED
  BY <1>1, <1>2, Zenon DEF With

\* The states of the walk, turn after turn.
IsWalk(g, s, n) == g = [k \in 0..n |-> IF k = 0 THEN s ELSE With(WalkTurn, g[k - 1])]

LEMMA WalkStates ==
  ASSUME NEW s, NEW n \in Nat
  PROVE  \E g : IsWalk(g, s, n)
<1> DEFINE T == {m \in Nat : \E g : IsWalk(g, s, m)}
<1>1. 0 \in T
  <2> DEFINE g == [k \in 0..0 |-> s]
  <2>1. \A k \in 0..0 : s = IF k = 0 THEN s ELSE With(WalkTurn, g[k - 1])
    OBVIOUS
  <2>2. g = [k \in 0..0 |-> IF k = 0 THEN s ELSE With(WalkTurn, g[k - 1])]
    BY <2>1
  <2>3. IsWalk(g, s, 0)
    BY <2>2, Zenon DEF IsWalk
  <2> HIDE DEF g
  <2>4. QED
    BY <2>3
<1>2. ASSUME NEW m \in 1..n, m - 1 \in T
      PROVE  m \in T
  <2>1. PICK g : IsWalk(g, s, m - 1)
    BY <1>2
  <2> DEFINE h == [k \in 0..m |-> IF k = m THEN With(WalkTurn, g[m - 1]) ELSE g[k]]
  <2>2. \A k \in 0..m : h[k] = IF k = 0 THEN s ELSE With(WalkTurn, h[k - 1])
    BY <2>1 DEF IsWalk
  <2>3. h = [k \in 0..m |-> IF k = 0 THEN s ELSE With(WalkTurn, h[k - 1])]
    BY <2>2
  <2> HIDE DEF h
  <2>4. m \in Nat /\ IsWalk(h, s, m)
    BY <2>3 DEF IsWalk
  <2>5. QED
    BY <2>4
<1>3. 0..n \subseteq T
  <2> HIDE DEF T
  <2>1. \A k \in 1..n : k - 1 \in T => k \in T
    BY <1>2
  <2>2. QED
    BY <1>1, <2>1, UpTo
<1>4. n \in T
  <2> HIDE DEF T
  <2>1. QED
    BY <1>3
<1>5. QED
  BY <1>4

\* What the walk keeps at each turn, it has at its end.
LEMMA WalkTurns ==
  ASSUME NEW s, NEW n \in Nat, NEW T, <<0, s>> \in T,
         \A k \in 1..n : \A t : <<k - 1, t>> \in T => <<k, WalkTurn(t)>> \in T
  PROVE  <<n, Turns(WalkTurn, s, n)>> \in T
<1> DEFINE at[k \in 0..n] == IF k = 0 THEN s ELSE With(WalkTurn, at[k - 1])
<1>1. at = [k \in 0..n |-> IF k = 0 THEN s ELSE With(WalkTurn, at[k - 1])]
  <2>1. PICK g : IsWalk(g, s, n)
    BY WalkStates
  <2>2. QED
    BY <2>1, Zenon DEF IsWalk
<1>2. Turns(WalkTurn, s, n) = at[n]
  BY DEF Turns
<1> HIDE DEF at
<1>3. \A k \in 0..n : at[k] = IF k = 0 THEN s ELSE With(WalkTurn, at[k - 1])
  BY <1>1, Zenon
<1>4. at[0] = s /\ \A k \in 1..n : at[k] = WalkTurn(at[k - 1])
  <2>1. 0 \in 0..n /\ \A k \in 1..n : k \in 0..n /\ k # 0
    OBVIOUS
  <2>2. ASSUME NEW k \in 1..n
        PROVE  at[k] = WalkTurn(at[k - 1])
    <3>1. at[k] = With(WalkTurn, at[k - 1])
      BY <1>3, <2>1
    <3>2. With(WalkTurn, at[k - 1]) = WalkTurn(at[k - 1])
      BY WalkOnce
    <3>3. QED
      BY <3>1, <3>2
  <2>3. QED
    BY <1>3, <2>1, <2>2
<1> DEFINE U == {k \in Nat : <<k, at[k]>> \in T}
<1>5. 0 \in U
  BY <1>4
<1>6. ASSUME NEW k \in 1..n, k - 1 \in U
      PROVE  k \in U
  <2>1. <<k - 1, at[k - 1]>> \in T
    BY <1>6
  <2>2. <<k, WalkTurn(at[k - 1])>> \in T
    BY <2>1
  <2>3. k \in Nat /\ at[k] = WalkTurn(at[k - 1])
    BY <1>4
  <2>4. <<k, at[k]>> \in T
    BY <2>2, <2>3, Zenon
  <2>5. QED
    BY <2>3, <2>4
<1>7. n \in U
  <2> HIDE DEF U
  <2>1. \A k \in 1..n : k - 1 \in U => k \in U
    BY <1>6
  <2>2. 0..n \subseteq U
    BY <1>5, <2>1, UpTo
  <2>3. QED
    BY <2>2
<1>8. QED
  BY <1>2, <1>7

\* Evaluating a turn of the sort once is evaluating it.
LEMMA SortOnce ==
  ASSUME NEW s
  PROVE  With(SortTurn, s) = SortTurn(s)
<1>1. {SortTurn(z) : z \in {s}} = {SortTurn(s)}
  OBVIOUS
<1>2. (CHOOSE y \in {SortTurn(s)} : TRUE) = SortTurn(s)
  OBVIOUS
<1>3. QED
  BY <1>1, <1>2, Zenon DEF With

\* The states of the sort, turn after turn.
IsSort(g, s, n) == g = [k \in 0..n |-> IF k = 0 THEN s ELSE With(SortTurn, g[k - 1])]

LEMMA SortStates ==
  ASSUME NEW s, NEW n \in Nat
  PROVE  \E g : IsSort(g, s, n)
<1> DEFINE T == {m \in Nat : \E g : IsSort(g, s, m)}
<1>1. 0 \in T
  <2> DEFINE g == [k \in 0..0 |-> s]
  <2>1. \A k \in 0..0 : s = IF k = 0 THEN s ELSE With(SortTurn, g[k - 1])
    OBVIOUS
  <2>2. g = [k \in 0..0 |-> IF k = 0 THEN s ELSE With(SortTurn, g[k - 1])]
    BY <2>1
  <2>3. IsSort(g, s, 0)
    BY <2>2, Zenon DEF IsSort
  <2> HIDE DEF g
  <2>4. QED
    BY <2>3
<1>2. ASSUME NEW m \in 1..n, m - 1 \in T
      PROVE  m \in T
  <2>1. PICK g : IsSort(g, s, m - 1)
    BY <1>2
  <2> DEFINE h == [k \in 0..m |-> IF k = m THEN With(SortTurn, g[m - 1]) ELSE g[k]]
  <2>2. \A k \in 0..m : h[k] = IF k = 0 THEN s ELSE With(SortTurn, h[k - 1])
    BY <2>1 DEF IsSort
  <2>3. h = [k \in 0..m |-> IF k = 0 THEN s ELSE With(SortTurn, h[k - 1])]
    BY <2>2
  <2> HIDE DEF h
  <2>4. m \in Nat /\ IsSort(h, s, m)
    BY <2>3 DEF IsSort
  <2>5. QED
    BY <2>4
<1>3. 0..n \subseteq T
  <2> HIDE DEF T
  <2>1. \A k \in 1..n : k - 1 \in T => k \in T
    BY <1>2
  <2>2. QED
    BY <1>1, <2>1, UpTo
<1>4. n \in T
  <2> HIDE DEF T
  <2>1. QED
    BY <1>3
<1>5. QED
  BY <1>4

\* What the sort keeps at each turn, it has at its end.
LEMMA SortTurns ==
  ASSUME NEW s, NEW n \in Nat, NEW T, <<0, s>> \in T,
         \A k \in 1..n : \A t : <<k - 1, t>> \in T => <<k, SortTurn(t)>> \in T
  PROVE  <<n, Turns(SortTurn, s, n)>> \in T
<1> DEFINE at[k \in 0..n] == IF k = 0 THEN s ELSE With(SortTurn, at[k - 1])
<1>1. at = [k \in 0..n |-> IF k = 0 THEN s ELSE With(SortTurn, at[k - 1])]
  <2>1. PICK g : IsSort(g, s, n)
    BY SortStates
  <2>2. QED
    BY <2>1, Zenon DEF IsSort
<1>2. Turns(SortTurn, s, n) = at[n]
  BY DEF Turns
<1> HIDE DEF at
<1>3. \A k \in 0..n : at[k] = IF k = 0 THEN s ELSE With(SortTurn, at[k - 1])
  BY <1>1, Zenon
<1>4. at[0] = s /\ \A k \in 1..n : at[k] = SortTurn(at[k - 1])
  <2>1. 0 \in 0..n /\ \A k \in 1..n : k \in 0..n /\ k # 0
    OBVIOUS
  <2>2. ASSUME NEW k \in 1..n
        PROVE  at[k] = SortTurn(at[k - 1])
    <3>1. at[k] = With(SortTurn, at[k - 1])
      BY <1>3, <2>1
    <3>2. With(SortTurn, at[k - 1]) = SortTurn(at[k - 1])
      BY SortOnce
    <3>3. QED
      BY <3>1, <3>2
  <2>3. QED
    BY <1>3, <2>1, <2>2
<1> DEFINE U == {k \in Nat : <<k, at[k]>> \in T}
<1>5. 0 \in U
  BY <1>4
<1>6. ASSUME NEW k \in 1..n, k - 1 \in U
      PROVE  k \in U
  <2>1. <<k - 1, at[k - 1]>> \in T
    BY <1>6
  <2>2. <<k, SortTurn(at[k - 1])>> \in T
    BY <2>1
  <2>3. k \in Nat /\ at[k] = SortTurn(at[k - 1])
    BY <1>4
  <2>4. <<k, at[k]>> \in T
    BY <2>2, <2>3, Zenon
  <2>5. QED
    BY <2>3, <2>4
<1>7. n \in U
  <2> HIDE DEF U
  <2>1. \A k \in 1..n : k - 1 \in U => k \in U
    BY <1>6
  <2>2. 0..n \subseteq U
    BY <1>5, <2>1, UpTo
  <2>3. QED
    BY <2>2
<1>8. QED
  BY <1>2, <1>7

-----------------------------------------------------------------------------
(* The history, and the commits that are added to it.                      *)

\* A set of numbers up to b that is not empty has a greatest one.
LEMMA MaxOf ==
  ASSUME NEW b \in Nat, NEW S \in SUBSET (0..b), S # {}
  PROVE  Max(S) \in S /\ \A x \in S : x <= Max(S)
<1> DEFINE T == {x..b : x \in S}
<1>1. T \in SUBSET FiniteSubsetsOf(0..b) /\ T # {}
  <2>1. ASSUME NEW x \in S
        PROVE  x..b \in FiniteSubsetsOf(0..b)
    <3>1. IsFiniteSet(x..b)
      BY FS_Interval
    <3>2. QED
      BY <3>1 DEF FiniteSubsetsOf
  <2>2. QED
    BY <2>1
<1>2. PICK m \in S : \A x \in S : <<x..b, m..b>> \notin StrictSubsetOrdering(0..b)
  <2>1. IsFiniteSet(0..b)
    BY FS_Interval
  <2>2. IsWellFoundedOn(StrictSubsetOrdering(0..b), FiniteSubsetsOf(0..b))
    BY <2>1, FS_StrictSubsetOrderingWellFounded
  <2>3. PICK I \in T : \A J \in T : <<J, I>> \notin StrictSubsetOrdering(0..b)
    BY <1>1, <2>2, WFMin
  <2>4. QED
    BY <2>3
<1>3. ASSUME NEW x \in S
      PROVE  x <= m
  <2>1. CASE m < x
    <3>1. x..b \subseteq m..b /\ m \in m..b /\ m \notin x..b
      BY <2>1
    <3>2. x..b \subseteq 0..b /\ m..b \subseteq 0..b
      OBVIOUS
    <3>3. <<x..b, m..b>> \in StrictSubsetOrdering(0..b)
      BY <3>1, <3>2 DEF StrictSubsetOrdering
    <3>4. QED
      BY <1>2, <3>3
  <2>2. QED
    BY <2>1
<1>4. QED
  BY <1>3 DEF Max

\* Commits are records.
LEMMA CommitTypes ==
  ASSUME TypeOK
  PROVE  /\ Len(commits) \in Nat
         /\ \A k \in 1..Len(commits) :
              /\ commits[k].parents \in Seq(Nat) /\ commits[k].op \in Nat
              /\ commits[k].edit \in Nat /\ commits[k].past \subseteq Nat
<1> DEFINE Record == [parents : Seq(Nat), op : Op \cup {Merge}, edit : Nat, past : SUBSET Nat]
<1>1. commits \in Seq(Record)
  BY DEF TypeOK
<1>2. Len(commits) \in Nat /\ \A k \in 1..Len(commits) : commits[k] \in Record
  <2> HIDE DEF Record
  <2>1. QED
    BY <1>1
<1>3. QED
  BY <1>2

\* What a commit reaches was made before it and is reached with it.
LEMMA Ancestry ==
  ASSUME TypeOK, HistoryInv, NEW h \in Hash
  PROVE  /\ History(h) \subseteq 1..Len(commits)
         /\ History(h) \subseteq 1..h
         /\ h # None => h \in History(h)
         /\ \A k \in History(h) : k \in Hash /\ History(k) \subseteq History(h)
  BY SMTT(30) DEF HistoryInv, History, TypeOK

\* A clock that has witnessed what some heads reach is not behind it.
LEMMA WitnessedAll ==
  ASSUME TypeOK, HistoryInv, ClockInv, NEW c \in Clone, NEW heads \in SUBSET Hash
  PROVE  /\ Witnessed(c, heads) \in Nat
         /\ clock[c] <= Witnessed(c, heads)
         /\ Witnessed(c, heads) <= MaxElsewhere + Len(commits) + 1
         /\ \A h \in heads : \A k \in History(h) : commits[k].edit <= Witnessed(c, heads)
<1> DEFINE read == UNION {History(h) : h \in heads}
           S == {clock[c]} \cup {commits[k].edit : k \in read}
           b == MaxElsewhere + Len(commits) + 1
<1>1. read \subseteq 1..Len(commits)
  BY Ancestry
<1>2. b \in Nat /\ S \in SUBSET (0..b) /\ S # {}
  <2>1. b \in Nat /\ \A k \in 1..Len(commits) : commits[k].edit \in 0..b
    <3>1. b \in Nat
      BY CommitTypes, ClonesAssumption
    <3>2. ASSUME NEW k \in 1..Len(commits)
          PROVE  commits[k].edit \in 0..b
      <4>1. PICK d \in Clone : commits[k].edit <= clock[d]
        BY DEF ClockInv
      <4>2. clock[d] \in Nat /\ clock[d] <= b /\ commits[k].edit \in Nat
        BY CommitTypes DEF TypeOK, ClockInv
      <4>3. QED
        BY <3>1, <4>1, <4>2
    <3>3. QED
      BY <3>1, <3>2
  <2>2. clock[c] \in 0..b
    BY <2>1 DEF TypeOK, ClockInv
  <2> HIDE DEF read, b
  <2>3. QED
    BY <1>1, <2>1, <2>2
<1>3. Max(S) \in S /\ \A x \in S : x <= Max(S)
  <2> HIDE DEF S, b
  <2>1. QED
    BY <1>2, MaxOf
<1>4. Witnessed(c, heads) = Max(S)
  BY DEF Witnessed
<1>5. clock[c] \in S /\ \A h \in heads : \A k \in History(h) : commits[k].edit \in S
  OBVIOUS
<1> HIDE DEF S, read, b
<1>6. Max(S) \in Nat /\ Max(S) <= b
  <2>1. Max(S) \in 0..b
    BY <1>2, <1>3, Zenon
  <2>2. QED
    BY <2>1
<1>7. QED
  BY <1>3, <1>4, <1>5, <1>6 DEF b

\* A commit that is added changes nothing about those that are there.
LEMMA Appended ==
  ASSUME TypeOK, HistoryInv, NEW m, commits' = Append(commits, m)
  PROVE  /\ Len(commits') = Len(commits) + 1
         /\ commits'[Len(commits) + 1] = m
         /\ \A k \in 1..Len(commits) : commits'[k] = commits[k]
         /\ \A h \in Hash : History(h)' = History(h) /\ OpsAt(h)' = OpsAt(h)
<1>1. /\ Len(commits') = Len(commits) + 1
      /\ commits'[Len(commits) + 1] = m
      /\ \A k \in 1..Len(commits) : commits'[k] = commits[k]
  BY DEF TypeOK
<1>2. ASSUME NEW h \in Hash
      PROVE  History(h)' = History(h) /\ OpsAt(h)' = OpsAt(h)
  <2>1. History(h)' = History(h)
    BY <1>1 DEF History, TypeOK
  <2>2. History(h) \subseteq 1..Len(commits)
    BY Ancestry
  <2>3. QED
    BY <1>1, <2>1, <2>2 DEF OpsAt
<1>3. QED
  BY <1>1, <1>2

\* The number of operations written is a number.
LEMMA WrittenType ==
  ASSUME TypeOK
  PROVE  /\ IsFiniteSet({k \in 1..Len(commits) : commits[k].op # Merge})
         /\ Written \in Nat
<1> DEFINE S == {k \in 1..Len(commits) : commits[k].op # Merge}
<1>1. IsFiniteSet(1..Len(commits)) /\ S \in SUBSET (1..Len(commits))
  BY CommitTypes, FS_Interval
<1>2. IsFiniteSet(S)
  BY <1>1, FS_Subset
<1>3. Cardinality(S) \in Nat
  BY <1>2, FS_CardinalityType
<1>4. QED
  BY <1>2, <1>3 DEF Written

\* The number of operations written, once a commit is added.
LEMMA WrittenAfter ==
  ASSUME TypeOK, HistoryInv, NEW m, commits' = Append(commits, m)
  PROVE  /\ m.op = Merge => Written' = Written
         /\ m.op # Merge => Written' = Written + 1
<1> SUFFICES ASSUME NEW n \in Nat, n = Len(commits)
             PROVE  /\ m.op = Merge => Written' = Written
                    /\ m.op # Merge => Written' = Written + 1
  BY CommitTypes
<1> DEFINE S == {k \in 1..n : commits[k].op # Merge}
<1>1. IsFiniteSet(S) /\ n + 1 \notin S
  <2>1. S = {k \in 1..Len(commits) : commits[k].op # Merge}
    OBVIOUS
  <2>2. IsFiniteSet(S)
    BY <2>1, WrittenType
  <2>3. n + 1 \notin S
    OBVIOUS
  <2> HIDE DEF S
  <2>4. QED
    BY <2>2, <2>3
<1>2. Written = Cardinality(S)
  BY DEF Written
<1>3. /\ Len(commits') = n + 1 /\ commits'[n + 1] = m
      /\ \A k \in 1..n : commits'[k] = commits[k]
  BY Appended
<1>4. CASE m.op = Merge
  <2>1. {k \in 1..Len(commits') : commits'[k].op # Merge} = S
    BY <1>3, <1>4
  <2>2. QED
    BY <1>1, <1>2, <1>4, <2>1 DEF Written
<1>5. CASE m.op # Merge
  <2>1. {k \in 1..Len(commits') : commits'[k].op # Merge} = S \cup {n + 1}
    BY <1>3, <1>5
  <2>2. Cardinality(S \cup {n + 1}) = Cardinality(S) + 1
    BY <1>1, FS_AddElement
  <2>3. QED
    BY <1>1, <1>2, <1>5, <2>1, <2>2 DEF Written
<1>6. QED
  BY <1>4, <1>5

\* A commit that may be added: on top of what is there, and later.
Fits(n, parents, op, t) ==
  /\ n = Len(commits)
  /\ parents \in Seq(1..n) /\ IsInjective(parents) /\ (parents = <<>> <=> n = 0)
  /\ op \in {Merge, Written + 1} /\ op <= MaxOps
  /\ t \in Nat /\ \A p \in Range(parents) : \A k \in History(p) : commits[k].edit < t

\* What its addition makes of the history.
Added(n, parents, op, t) ==
  /\ HistoryInv'
  /\ Len(commits') = n + 1 /\ commits'[n + 1].op = op /\ commits'[n + 1].edit = t
  /\ History(n + 1)' = {n + 1} \cup UNION {History(p) : p \in Range(parents)}
  /\ commits' \in Seq([parents : Seq(Nat), op : Op \cup {Merge}, edit : Nat,
                       past : SUBSET Nat])

\* A commit on top of what its clone has witnessed keeps the history in order.
LEMMA Committed ==
  ASSUME TypeOK, HistoryInv, NEW n \in Nat, NEW parents, NEW op, NEW t,
         Fits(n, parents, op, t), commits' = Append(commits, Commit(parents, op, t))
  PROVE  Added(n, parents, op, t)
<1>0. /\ n = Len(commits)
      /\ parents \in Seq(1..n) /\ IsInjective(parents) /\ (parents = <<>> <=> n = 0)
      /\ op \in {Merge, Written + 1} /\ op <= MaxOps
      /\ t \in Nat /\ \A p \in Range(parents) : \A k \in History(p) : commits[k].edit < t
  BY DEF Fits
<1> DEFINE m == Commit(parents, op, t)
<1>1. /\ n \in Nat
      /\ Range(parents) \subseteq 1..n
      /\ m.parents = parents /\ m.op = op /\ m.edit = t
      /\ m.past = {n + 1} \cup UNION {History(p) : p \in Range(parents)}
  BY <1>0, CommitTypes DEF Commit, Range
<1>2. /\ Len(commits') = n + 1 /\ commits'[n + 1] = m
      /\ \A k \in 1..n : commits'[k] = commits[k]
      /\ \A h \in Hash : History(h)' = History(h)
  BY <1>0, Appended
<1>3. History(n + 1)' = m.past
  BY <1>0, <1>1, <1>2 DEF History
<1>4. UNION {History(p) : p \in Range(parents)} \subseteq 1..n
  BY <1>0, <1>1, Ancestry
<1>5. Written \in Nat /\ Written' \in Nat /\ Written <= Written' /\ op <= Written'
  BY <1>0, <1>1, WrittenAfter, WrittenType
<1>6. HistoryInv'
  <2>1. ASSUME NEW k \in 1..n
        PROVE  /\ Range(Parents(k)') \subseteq 1..(k - 1) /\ IsInjective(Parents(k)')
               /\ Parents(k)' = <<>> <=> k = 1
               /\ commits'[k].past = {k} \cup UNION {History(p)' : p \in Range(Parents(k)')}
               /\ \A h \in History(k)' : h \in 1..k /\ History(h)' \subseteq History(k)'
               /\ \A h \in History(k)' \ {k} : commits'[h].edit < commits'[k].edit
               /\ commits'[k].op <= Written'
    <3>1. /\ Range(Parents(k)) \subseteq 1..(k - 1) /\ IsInjective(Parents(k))
          /\ Parents(k) = <<>> <=> k = 1
          /\ commits[k].past = {k} \cup UNION {History(p) : p \in Range(Parents(k))}
          /\ \A h \in History(k) : h \in 1..k /\ History(h) \subseteq History(k)
          /\ \A h \in History(k) \ {k} : commits[h].edit < commits[k].edit
          /\ commits[k].op <= Written /\ commits[k].op \in Nat
      BY <1>0, CommitTypes DEF HistoryInv
    <3>2. k \in Hash /\ 1..k \subseteq Hash /\ 1..k \subseteq 1..n
      BY <1>0, <1>1
    <3>3. Parents(k)' = Parents(k) /\ commits'[k] = commits[k]
      BY <1>2 DEF Parents
    <3>4. \A h \in 1..k : History(h)' = History(h) /\ commits'[h] = commits[h]
      BY <1>2, <3>2, Zenon
    <3>5. History(k)' = History(k)
      BY <1>1, <3>4
    <3>6. \A p \in Range(Parents(k)) : History(p)' = History(p)
      BY <1>1, <3>1, <3>4
    <3>7. QED
      BY <1>0, <1>5, <3>1, <3>3, <3>4, <3>5, <3>6, SMTT(30)
  <2>2. /\ Range(Parents(n + 1)') \subseteq 1..n /\ IsInjective(Parents(n + 1)')
        /\ Parents(n + 1)' = <<>> <=> n + 1 = 1
        /\ commits'[n + 1].past = {n + 1} \cup UNION {History(p)' : p \in Range(Parents(n + 1)')}
        /\ commits'[n + 1].op <= Written'
    BY <1>0, <1>1, <1>2, <1>5 DEF Parents
  <2>3. ASSUME NEW h \in History(n + 1)'
        PROVE  /\ h \in 1..(n + 1) /\ History(h)' \subseteq History(n + 1)'
               /\ h # n + 1 => commits'[h].edit < commits'[n + 1].edit
    <3>1. CASE h = n + 1
      BY <1>1, <3>1
    <3>2. CASE h # n + 1
      <4>1. PICK p \in Range(parents) : h \in History(p)
        BY <1>1, <1>3, <3>2
      <4>2. h \in 1..n /\ History(h) \subseteq History(p)
        <5>1. p \in Hash /\ n = Len(commits)
          BY <1>0, <1>1, <4>1
        <5>2. QED
          BY <4>1, <5>1, Ancestry
      <4>3. commits[h].edit < t
        BY <1>0, <4>1
      <4>4. History(p) \subseteq m.past
        BY <1>1
      <4>5. QED
        BY <1>1, <1>2, <1>3, <4>2, <4>3, <4>4
    <3>3. QED
      BY <3>1, <3>2
  <2>4. ASSUME NEW k \in 1..(n + 1), NEW l \in 1..(n + 1),
               commits'[k].op = commits'[l].op, commits'[k].op # Merge
        PROVE  k = l
    <3>1. \A i \in 1..n : commits[i].op \in Nat /\ commits[i].op <= Written
      BY <1>0, CommitTypes DEF HistoryInv
    <3>2. k \in 1..n /\ l = n + 1 => FALSE
      BY <1>0, <1>1, <1>2, <1>5, <2>4, <3>1
    <3>3. l \in 1..n /\ k = n + 1 => FALSE
      BY <1>0, <1>1, <1>2, <1>5, <2>4, <3>1
    <3>4. k \in 1..n /\ l \in 1..n => k = l
      BY <1>2, <2>4 DEF HistoryInv
    <3>5. k \in 1..n \/ k = n + 1
      OBVIOUS
    <3>6. l \in 1..n \/ l = n + 1
      OBVIOUS
    <3>7. QED
      BY <3>2, <3>3, <3>4, <3>5, <3>6
  <2>5. QED
    <3>1. ASSUME NEW k \in 1..Len(commits')
          PROVE  /\ Range(Parents(k)') \subseteq 1..(k - 1) /\ IsInjective(Parents(k)')
                 /\ Parents(k)' = <<>> <=> k = 1
                 /\ commits'[k].past = {k} \cup UNION {History(p)' : p \in Range(Parents(k)')}
                 /\ \A h \in History(k)' : h \in 1..k /\ History(h)' \subseteq History(k)'
                 /\ \A h \in History(k)' \ {k} : commits'[h].edit < commits'[k].edit
                 /\ commits'[k].op <= Written'
      <4>1. CASE k \in 1..n
        BY <2>1, <4>1
      <4>2. CASE k = n + 1
        BY <2>2, <2>3, <4>2
      <4>3. QED
        BY <1>2, <4>1, <4>2
    <3>2. \A k, l \in 1..Len(commits') :
            commits'[k].op = commits'[l].op /\ commits'[k].op # Merge => k = l
      BY <1>2, <2>4
    <3>3. QED
      BY <3>1, <3>2 DEF HistoryInv
<1>7. m \in [parents : Seq(Nat), op : Op \cup {Merge}, edit : Nat, past : SUBSET Nat]
  <2>1. parents \in Seq(Nat)
    BY <1>0, <1>1
  <2>2. op \in Op \cup {Merge}
    BY <1>0, <1>5
  <2>3. {n + 1} \cup UNION {History(p) : p \in Range(parents)} \in SUBSET Nat
    <3>1. n + 1 \in Nat /\ 1..n \subseteq Nat
      OBVIOUS
    <3>2. QED
      BY <1>4, <3>1, Zenon
  <2> DEFINE past == {n + 1} \cup UNION {History(p) : p \in Range(parents)}
             Past == SUBSET Nat
  <2>4. m = [parents |-> parents, op |-> op, edit |-> t, past |-> past]
    BY <1>0 DEF Commit
  <2>5. past \in Past
    BY <2>3
  <2> HIDE DEF past, Past, m
  <2>6. m \in [parents : Seq(Nat), op : Op \cup {Merge}, edit : Nat, past : Past]
    BY <1>0, <2>1, <2>2, <2>4, <2>5
  <2>7. QED
    BY <2>6 DEF Past
<1>8. commits' \in Seq([parents : Seq(Nat), op : Op \cup {Merge}, edit : Nat,
                        past : SUBSET Nat])
  BY <1>7 DEF TypeOK
<1>9. QED
  BY <1>0, <1>1, <1>2, <1>3, <1>6, <1>8 DEF Added

-----------------------------------------------------------------------------
(* What is read from a head.                                               *)

\* A commit, its parents and its history.
LEMMA Parentage ==
  ASSUME TypeOK, HistoryInv, NEW k \in 1..Len(commits)
  PROVE  /\ Len(commits) \in Nat
         /\ Parents(k) \in Seq(1..Len(commits)) /\ IsInjective(Parents(k))
         /\ Parents(k) = <<>> <=> k = 1
         /\ History(k) \subseteq 1..Len(commits) /\ k \in History(k)
         /\ \A p \in Range(Parents(k)) :
              p \in History(k) /\ p < k /\ p # k /\ commits[p].edit < commits[k].edit
         /\ \A x \in History(k) :
              /\ x = k \/ \E p \in Range(Parents(k)) : x \in History(p)
              /\ Range(Parents(x)) \subseteq History(k)
<1> DEFINE n == Len(commits)
<1>1. /\ n \in Nat /\ Parents(k) \in Seq(Nat) /\ k # 0
  BY CommitTypes DEF Parents
<1>2. /\ Range(Parents(k)) \subseteq 1..(k - 1) /\ IsInjective(Parents(k))
      /\ Parents(k) = <<>> <=> k = 1
      /\ commits[k].past = {k} \cup UNION {History(p) : p \in Range(Parents(k))}
      /\ \A h \in History(k) : h \in 1..k /\ History(h) \subseteq History(k)
      /\ \A h \in History(k) \ {k} : commits[h].edit < commits[k].edit
  BY DEF HistoryInv
<1>3. ASSUME NEW h \in 1..n
      PROVE  /\ Range(Parents(h)) \subseteq 1..(h - 1)
             /\ History(h) = {h} \cup UNION {History(p) : p \in Range(Parents(h))}
  BY <1>1 DEF HistoryInv, History
<1> HIDE DEF n
<1>4. History(k) = {k} \cup UNION {History(p) : p \in Range(Parents(k))}
  BY <1>3 DEF n
<1>5. 1..k \subseteq 1..n /\ 1..(k - 1) \subseteq 1..n
  BY <1>1 DEF n
<1>6. Parents(k) \in Seq(1..n)
  <2>1. \A i \in 1..Len(Parents(k)) : Parents(k)[i] \in 1..n
    BY <1>1, <1>2, <1>5, InRange
  <2> DEFINE ps == Parents(k)
             A == 1..n
  <2>2. ps \in Seq(Nat) /\ \A i \in 1..Len(ps) : ps[i] \in A
    BY <1>1, <2>1
  <2> HIDE DEF ps, A
  <2>3. ps \in Seq(A)
    BY <2>2
  <2>4. QED
    BY <2>3 DEF ps, A
<1>7. ASSUME NEW h \in 1..n
      PROVE  Range(Parents(h)) \subseteq History(h)
  <2>1. ASSUME NEW p \in Range(Parents(h))
        PROVE  p \in History(p)
    <3>1. p \in 1..n
      BY <1>1, <1>3, <1>7, <2>1
    <3>2. QED
      BY <1>3, <3>1
  <2>2. QED
    BY <1>3, <1>7, <2>1
<1>8. ASSUME NEW p \in Range(Parents(k))
      PROVE  p \in History(k) /\ p < k /\ p # k /\ commits[p].edit < commits[k].edit
  <2>1. p \in History(k)
    BY <1>7 DEF n
  <2>2. p \in 1..(k - 1)
    BY <1>2
  <2>3. p < k /\ p # k
    BY <2>2
  <2>4. QED
    BY <1>2, <2>1, <2>3
<1>9. ASSUME NEW x \in History(k)
      PROVE  /\ x = k \/ \E p \in Range(Parents(k)) : x \in History(p)
             /\ Range(Parents(x)) \subseteq History(k)
  <2>1. x \in 1..n /\ History(x) \subseteq History(k)
    BY <1>2, <1>5
  <2>2. QED
    BY <1>4, <1>7, <2>1
<1>10. History(k) \subseteq 1..n
  BY <1>2, <1>5
<1>11. QED
  BY <1>1, <1>2, <1>4, <1>6, <1>8, <1>9, <1>10 DEF n

\* What has every parent of what it has, has their history.
LEMMA Closed ==
  ASSUME TypeOK, HistoryInv, NEW V \in SUBSET (1..Len(commits)),
         \A k \in V : Range(Parents(k)) \subseteq V
  PROVE  \A k \in V : History(k) \subseteq V
<1> SUFFICES ASSUME NEW j \in V, NEW y \in History(j), y \notin V
             PROVE  FALSE
  OBVIOUS
<1> DEFINE B == {k \in V : \E x \in History(k) : x \notin V}
<1>1. B \subseteq Nat /\ j \in B
  <2>1. V \subseteq Nat
    BY CommitTypes
  <2>2. QED
    BY <2>1, Zenon
<1>2. PICK k \in B : \A l \in B : k <= l
  <2> HIDE DEF B
  <2>1. B # {} /\ B \subseteq Nat
    BY <1>1
  <2>2. QED
    BY <2>1, LeastNat
<1>3. k \in V /\ \E x \in History(k) : x \notin V
  BY <1>2
<1>4. PICK x \in History(k) : x \notin V
  BY <1>3
<1>5. PICK p \in Range(Parents(k)) : x \in History(p) /\ p < k
  BY <1>3, <1>4, Parentage
<1>6. p \in V /\ p \in B
  BY <1>3, <1>4, <1>5
<1>7. k \in Nat /\ p \in Nat /\ k <= p
  BY <1>2, <1>6
<1>8. QED
  BY <1>5, <1>7

\* The walk after n turns, or at its end: what it has visited is on its way or in
\* the order, and it has visited the parents of what is in the order.
WalkInv(head, n, s) ==
  /\ s \in [queue : Seq(1..Len(commits)), visited : SUBSET (1..Len(commits)),
            order : Seq(1..Len(commits))]
  /\ head \in s.visited /\ s.visited \subseteq History(head)
  /\ s.visited = Range(s.queue) \cup Range(s.order)
  /\ Range(s.queue) \cap Range(s.order) = {}
  /\ IsInjective(s.queue) /\ IsInjective(s.order)
  /\ \A k \in Range(s.order) : Range(Parents(k)) \subseteq s.visited
  /\ s.queue = <<>> \/ Len(s.order) = n

\* A turn of the walk.
LEMMA WalkStep ==
  ASSUME TypeOK, HistoryInv, NEW head \in 1..Len(commits), NEW n \in Nat,
         NEW s, WalkInv(head, n, s)
  PROVE  WalkInv(head, n + 1, WalkTurn(s))
<1> DEFINE N == Len(commits)
<1>1. CASE s.queue = <<>>
  BY <1>1 DEF WalkInv, WalkTurn
<1>2. CASE s.queue # <<>>
  <2> DEFINE h == Head(s.queue)
             new == Range(Parents(h)) \ s.visited
             r == Only(Parents(h), new)
             q == Tail(s.queue) \o r
             o == Append(s.order, h)
             v == s.visited \cup new
  <2>1. /\ s.queue \in Seq(1..N) /\ s.order \in Seq(1..N) /\ s.visited \subseteq 1..N
        /\ IsInjective(s.queue) /\ IsInjective(s.order)
        /\ head \in s.visited /\ s.visited \subseteq History(head)
        /\ s.visited = Range(s.queue) \cup Range(s.order)
        /\ Range(s.queue) \cap Range(s.order) = {}
        /\ \A k \in Range(s.order) : Range(Parents(k)) \subseteq s.visited
        /\ Len(s.order) = n
    BY <1>2 DEF WalkInv
  <2>2. WalkTurn(s) = [queue |-> q, visited |-> v, order |-> o]
    BY <1>2 DEF WalkTurn
  <2>3. h \in Range(s.queue) /\ h \in 1..N
    <3>1. Len(s.queue) # 0 /\ 1 \in 1..Len(s.queue) /\ h = s.queue[1]
      BY <1>2, <2>1
    <3>2. QED
      BY <2>1, <3>1, InRange
  <2>4. h \in History(head)
    BY <2>1, <2>3
  <2>5. /\ Parents(h) \in Seq(1..N) /\ IsInjective(Parents(h))
        /\ Range(Parents(h)) \subseteq History(head)
    BY <2>3, <2>4, Parentage
  <2>6. History(head) \subseteq 1..N
    BY Parentage
  <2>7. r \in Seq(1..N) /\ Range(r) = new /\ IsInjective(r)
    <3>1. Range(Parents(h)) \cap new = new
      OBVIOUS
    <3> DEFINE A == 1..N
               ps == Parents(h)
    <3>2. ps \in Seq(A) /\ IsInjective(ps)
      BY <2>5
    <3> HIDE DEF new, A, ps
    <3>3. /\ Only(ps, new) \in Seq(A) /\ IsInjective(Only(ps, new))
          /\ Range(Only(ps, new)) = Range(ps) \cap new
      BY <3>2, OnlyThose
    <3>4. QED
      BY <3>1, <3>3 DEF A, ps
  <2>8. Range(s.queue) \cap Range(r) = {}
    BY <2>1, <2>7
  <2>9. /\ q \in Seq(1..N) /\ IsInjective(q)
        /\ Range(s.queue) = {h} \cup Range(Tail(s.queue)) /\ h \notin Range(Tail(s.queue))
        /\ Range(q) = Range(Tail(s.queue)) \cup Range(r)
    <3> DEFINE A == 1..N
               sq == s.queue
    <3>1. sq \in Seq(A) /\ sq # <<>> /\ r \in Seq(A) /\ IsInjective(sq) /\ IsInjective(r)
          /\ Range(sq) \cap Range(r) = {}
      BY <1>2, <2>1, <2>7, <2>8
    <3> HIDE DEF A, sq, r
    <3>2. /\ Tail(sq) \o r \in Seq(A) /\ IsInjective(Tail(sq) \o r)
          /\ Range(sq) = {Head(sq)} \cup Range(Tail(sq)) /\ Head(sq) \notin Range(Tail(sq))
          /\ Range(Tail(sq) \o r) = Range(Tail(sq)) \cup Range(r)
      BY <3>1, Queued
    <3>3. QED
      BY <3>2 DEF A, sq
  <2>10. /\ o \in Seq(1..N) /\ Len(o) = n + 1 /\ Range(o) = Range(s.order) \cup {h}
         /\ IsInjective(o)
    <3> DEFINE A == 1..N
               so == s.order
    <3>1. so \in Seq(A) /\ h \in A /\ h \notin Range(so) /\ IsInjective(so) /\ Len(so) = n
      BY <2>1, <2>3
    <3> HIDE DEF A, so, h
    <3>2. /\ Append(so, h) \in Seq(A) /\ Len(Append(so, h)) = Len(so) + 1
          /\ Range(Append(so, h)) = Range(so) \cup {h} /\ IsInjective(Append(so, h))
      BY <3>1, Lengthened
    <3>3. QED
      BY <3>1, <3>2 DEF A, so
  <2> HIDE DEF q, r, o, h, N
  <2>11. v \subseteq 1..N /\ v \subseteq History(head) /\ head \in v
    BY <2>1, <2>5, <2>6
  <2>12. v = Range(q) \cup Range(o)
    BY <2>1, <2>7, <2>9, <2>10
  <2>13. Range(q) \cap Range(o) = {}
    BY <2>1, <2>3, <2>7, <2>9, <2>10
  <2>14. \A k \in Range(o) : Range(Parents(k)) \subseteq v
    BY <2>1, <2>10
  <2> DEFINE t == [queue |-> q, visited |-> v, order |-> o]
  <2>15. t \in [queue : Seq(1..N), visited : SUBSET (1..N), order : Seq(1..N)]
    BY <2>9, <2>10, <2>11
  <2>16. t.queue = q /\ t.visited = v /\ t.order = o
    OBVIOUS
  <2> HIDE DEF t, v
  <2>17. WalkInv(head, n + 1, t)
    BY <2>9, <2>10, <2>11, <2>12, <2>13, <2>14, <2>15, <2>16 DEF WalkInv, N
  <2>18. QED
    BY <2>2, <2>17 DEF t
<1>3. QED
  BY <1>1, <1>2

\* What is left in no queue after as many turns as there are commits.
LEMMA NoneLeft ==
  ASSUME NEW N \in Nat, NEW q \in Seq(1..N), NEW o \in Seq(1..N), IsInjective(o),
         Range(q) \cap Range(o) = {}, q = <<>> \/ Len(o) = N
  PROVE  q = <<>>
<1> SUFFICES ASSUME q # <<>>, Len(o) = N
             PROVE  FALSE
  OBVIOUS
<1>1. Range(o) = 1..N
  BY AllOfThem
<1>2. 1 \in 1..Len(q) /\ q[1] \in 1..N
  OBVIOUS
<1>3. q[1] \in Range(q)
  BY <1>2, InRange
<1>4. QED
  BY <1>1, <1>2, <1>3

\* The walk reads the history of its head, each commit once.
LEMMA WalkedOnce ==
  ASSUME TypeOK, HistoryInv, NEW head \in 1..Len(commits)
  PROVE  /\ BFSOrder(head) \in Seq(1..Len(commits))
         /\ IsInjective(BFSOrder(head)) /\ Range(BFSOrder(head)) = History(head)
<1> DEFINE N == Len(commits)
           q == <<head>>
           e == <<>>
           s == [queue |-> q, visited |-> {head}, order |-> e]
           States == [queue : Seq(1..N), visited : SUBSET (1..N), order : Seq(1..N)]
           T == {x \in Nat \X States : WalkInv(head, x[1], x[2])}
<1>1. N \in Nat /\ head \in 1..N
  BY CommitTypes
<1>2. WalkInv(head, 0, s)
  <2>1. /\ q \in Seq(1..N) /\ e \in Seq(1..N) /\ Range(q) = {head} /\ Range(e) = {}
        /\ IsInjective(q) /\ IsInjective(e) /\ Len(e) = 0
    BY DEF IsInjective, Range
  <2>2. s.queue = q /\ s.visited = {head} /\ s.order = e
    OBVIOUS
  <2>3. head \in History(head)
    BY Parentage
  <2> HIDE DEF q, e
  <2>4. s \in States
    BY <2>1
  <2> HIDE DEF s
  <2>5. QED
    BY <2>1, <2>2, <2>3, <2>4 DEF WalkInv
<1>3. \A k \in Nat : \A t : WalkInv(head, k, t) => t \in States
  BY DEF WalkInv
<1>4. \A k \in Nat : \A t : <<k, t>> \in T <=> WalkInv(head, k, t)
  <2> HIDE DEF s, States
  <2>1. QED
    BY <1>3
<1> HIDE DEF s, States, T, N
<1>5. \A k \in 1..N : \A t : <<k - 1, t>> \in T => <<k, WalkTurn(t)>> \in T
  <2>1. SUFFICES ASSUME NEW k \in 1..N, NEW t, <<k - 1, t>> \in T
                 PROVE  <<k, WalkTurn(t)>> \in T
    OBVIOUS
  <2>2. k - 1 \in Nat /\ k \in Nat /\ (k - 1) + 1 = k
    BY <1>1
  <2>3. WalkInv(head, k - 1, t)
    BY <1>4, <2>1, <2>2
  <2>4. WalkInv(head, (k - 1) + 1, WalkTurn(t))
    BY <2>2, <2>3, WalkStep
  <2>5. QED
    BY <1>4, <2>2, <2>4
<1>6. <<N, Turns(WalkTurn, s, N)>> \in T
  <2>1. <<0, s>> \in T
    BY <1>2, <1>4
  <2>2. QED
    BY <1>1, <1>5, <2>1, WalkTurns
<1> DEFINE w == Turns(WalkTurn, s, N)
<1>7. BFSOrder(head) = w.order
  BY DEF BFSOrder, s, N
<1> HIDE DEF w
<1>8. WalkInv(head, N, w)
  BY <1>1, <1>4, <1>6 DEF w
<1> DEFINE wq == w.queue
           wo == w.order
<1>9. /\ wq \in Seq(1..N) /\ wo \in Seq(1..N) /\ IsInjective(wo)
      /\ w.visited \subseteq 1..N /\ head \in w.visited /\ w.visited \subseteq History(head)
      /\ w.visited = Range(wq) \cup Range(wo)
      /\ Range(wq) \cap Range(wo) = {}
      /\ \A k \in Range(wo) : Range(Parents(k)) \subseteq w.visited
      /\ wq = <<>> \/ Len(wo) = N
  BY <1>8 DEF WalkInv, N
<1> HIDE DEF wq, wo
<1>10. wq = <<>>
  BY <1>1, <1>9, NoneLeft
<1>11. w.visited = Range(wo)
  <2>1. Range(<<>>) = {}
    BY DEF Range
  <2>2. QED
    BY <1>9, <1>10, <2>1
<1>12. History(head) \subseteq Range(wo)
  <2> DEFINE V == Range(wo)
  <2>1. V \in SUBSET (1..N) /\ head \in V /\ \A k \in V : Range(Parents(k)) \subseteq V
    BY <1>9, <1>11
  <2> HIDE DEF V
  <2>2. \A k \in V : History(k) \subseteq V
    BY <2>1, Closed DEF N
  <2>3. QED
    BY <2>1, <2>2 DEF V
<1>13. QED
  BY <1>7, <1>9, <1>11, <1>12 DEF wo, N

\* Kahn's algorithm after n turns, or at its end: the order has every parent
\* before its child, and the queue and the order have all whose parents are in
\* the order.
SortInv(W, n, s) ==
  /\ s \in [back : Seq(1..Len(commits)), queue : Seq(1..Len(commits)),
            order : Seq(1..Len(commits))]
  /\ Range(s.back) = W /\ IsInjective(s.back)
  /\ Range(s.queue) \subseteq W /\ Range(s.order) \subseteq W
  /\ Range(s.queue) \cap Range(s.order) = {}
  /\ IsInjective(s.queue) /\ IsInjective(s.order)
  /\ \A k \in W : Range(Parents(k)) \subseteq Range(s.order)
                    => k \in Range(s.queue) \cup Range(s.order)
  /\ \A k \in Range(s.queue) : Range(Parents(k)) \subseteq Range(s.order)
  /\ \A i \in 1..Len(s.order) : \A p \in Range(Parents(s.order[i])) :
       \E j \in 1..(i - 1) : s.order[j] = p
  /\ IF s.order = <<>> THEN Range(s.queue) \subseteq {1} ELSE s.order[1] = 1
  /\ s.queue = <<>> \/ Len(s.order) = n

\* A turn of the sort.
LEMMA SortStep ==
  ASSUME TypeOK, HistoryInv, NEW W \in SUBSET (1..Len(commits)), NEW n \in Nat,
         NEW s, SortInv(W, n, s)
  PROVE  SortInv(W, n + 1, SortTurn(s))
<1> DEFINE N == Len(commits)
<1>1. CASE s.queue = <<>>
  BY <1>1 DEF SortInv, SortTurn
<1>2. CASE s.queue # <<>>
  <2> DEFINE h == Head(s.queue)
             o == Append(s.order, h)
             new == Ready(h, o)
             r == Only(s.back, new)
             q == Tail(s.queue) \o r
             t == [back |-> s.back, queue |-> q, order |-> o]
  <2>1. /\ s.back \in Seq(1..N) /\ s.queue \in Seq(1..N) /\ s.order \in Seq(1..N)
        /\ Range(s.back) = W /\ IsInjective(s.back)
        /\ Range(s.queue) \subseteq W /\ Range(s.order) \subseteq W
        /\ Range(s.queue) \cap Range(s.order) = {}
        /\ IsInjective(s.queue) /\ IsInjective(s.order)
        /\ Len(s.order) = n
    BY <1>2 DEF SortInv
  <2>2. /\ \A k \in W : Range(Parents(k)) \subseteq Range(s.order)
                          => k \in Range(s.queue) \cup Range(s.order)
        /\ \A k \in Range(s.queue) : Range(Parents(k)) \subseteq Range(s.order)
        /\ \A i \in 1..Len(s.order) : \A p \in Range(Parents(s.order[i])) :
             \E j \in 1..(i - 1) : s.order[j] = p
        /\ IF s.order = <<>> THEN Range(s.queue) \subseteq {1} ELSE s.order[1] = 1
    BY DEF SortInv
  <2>3. SortTurn(s) = t
    <3>1. s = [back |-> s.back, queue |-> s.queue, order |-> s.order]
      BY DEF SortInv
    <3>2. SortTurn(s) = [s EXCEPT !.queue = q, !.order = o]
      BY <1>2 DEF SortTurn
    <3> HIDE DEF q, o
    <3>3. QED
      BY <3>1, <3>2
  <2>4. h \in Range(s.queue) /\ h \in 1..N /\ h \in W /\ h \notin Range(s.order)
    <3>1. Len(s.queue) # 0 /\ 1 \in 1..Len(s.queue) /\ h = s.queue[1]
      BY <1>2, <2>1
    <3>2. h \in Range(s.queue)
      BY <2>1, <3>1, InRange
    <3> HIDE DEF h
    <3>3. QED
      BY <2>1, <3>2
  <2>5. /\ o \in Seq(1..N) /\ Len(o) = n + 1 /\ Range(o) = Range(s.order) \cup {h}
        /\ \A j \in 1..n : o[j] = s.order[j]
        /\ o[n + 1] = h
        /\ IsInjective(o)
    <3> DEFINE A == 1..N
               so == s.order
    <3>1. so \in Seq(A) /\ h \in A /\ h \notin Range(so) /\ IsInjective(so) /\ Len(so) = n
      BY <2>1, <2>4
    <3> HIDE DEF A, so, h
    <3>2. /\ Append(so, h) \in Seq(A) /\ Len(Append(so, h)) = Len(so) + 1
          /\ \A j \in 1..Len(so) : Append(so, h)[j] = so[j]
          /\ Append(so, h)[Len(so) + 1] = h
          /\ Range(Append(so, h)) = Range(so) \cup {h} /\ IsInjective(Append(so, h))
      BY <3>1, Lengthened
    <3>3. QED
      BY <3>1, <3>2 DEF A, so
  <2>6. r \in Seq(1..N) /\ Range(r) = W \cap new /\ IsInjective(r)
    <3> DEFINE A == 1..N
               back == s.back
    <3>1. back \in Seq(A) /\ IsInjective(back) /\ Range(back) = W
      BY <2>1
    <3> HIDE DEF new, A, back
    <3>2. /\ Only(back, new) \in Seq(A) /\ IsInjective(Only(back, new))
          /\ Range(Only(back, new)) = Range(back) \cap new
      BY <3>1, OnlyThose
    <3>3. QED
      BY <3>1, <3>2 DEF A, back
  <2>7. \A k : k \in new <=> /\ k \in 1..N /\ h \in Range(Parents(k))
                             /\ Range(Parents(k)) \subseteq Range(o)
    <3> HIDE DEF h, o
    <3>1. QED
      BY DEF Ready
  <2> HIDE DEF new, r, o, h, t
  <2>8. Range(s.queue) \cap Range(r) = {}
    BY <2>2, <2>4, <2>6, <2>7
  <2>9. Range(s.order) \cap Range(r) = {} /\ h \notin Range(r)
    <3>1. h \notin Range(r)
      BY <2>4, <2>6, <2>7, Parentage
    <3>2. ASSUME NEW k \in Range(s.order), k \in Range(r)
          PROVE  FALSE
      <4>1. PICK i \in 1..Len(s.order) : s.order[i] = k
        BY <2>1, InRange
      <4>2. PICK j \in 1..(i - 1) : s.order[j] = h
        BY <2>2, <2>6, <2>7, <3>2, <4>1
      <4>3. j \in 1..Len(s.order)
        BY <2>1
      <4>4. h \in Range(s.order)
        BY <2>1, <4>2, <4>3, InRange
      <4>5. QED
        BY <2>4, <4>4
    <3>3. QED
      BY <3>1, <3>2
  <2>10. /\ q \in Seq(1..N) /\ IsInjective(q)
         /\ Range(s.queue) = {h} \cup Range(Tail(s.queue)) /\ h \notin Range(Tail(s.queue))
         /\ Range(q) = Range(Tail(s.queue)) \cup Range(r)
    <3> DEFINE A == 1..N
               sq == s.queue
    <3>1. sq \in Seq(A) /\ sq # <<>> /\ r \in Seq(A) /\ IsInjective(sq) /\ IsInjective(r)
          /\ Range(sq) \cap Range(r) = {}
      BY <1>2, <2>1, <2>6, <2>8
    <3> HIDE DEF A, sq
    <3>2. /\ Tail(sq) \o r \in Seq(A) /\ IsInjective(Tail(sq) \o r)
          /\ Range(sq) = {Head(sq)} \cup Range(Tail(sq)) /\ Head(sq) \notin Range(Tail(sq))
          /\ Range(Tail(sq) \o r) = Range(Tail(sq)) \cup Range(r)
      BY <3>1, Queued
    <3>3. QED
      BY <3>2 DEF A, sq, h
  <2> HIDE DEF q, N
  <2>11. Range(q) \subseteq W /\ Range(o) \subseteq W /\ Range(q) \cap Range(o) = {}
    BY <2>1, <2>4, <2>5, <2>6, <2>9, <2>10
  <2>12. ASSUME NEW k \in W, Range(Parents(k)) \subseteq Range(o)
         PROVE  k \in Range(q) \cup Range(o)
    <3>1. CASE h \in Range(Parents(k))
      <4>1. k \in new
        BY <2>7, <2>12, <3>1 DEF N
      <4>2. QED
        BY <2>6, <2>10, <4>1
    <3>2. CASE h \notin Range(Parents(k))
      <4>1. Range(Parents(k)) \subseteq Range(s.order)
        BY <2>5, <2>12, <3>2
      <4>2. QED
        BY <2>2, <2>5, <2>10, <4>1
    <3>3. QED
      BY <3>1, <3>2
  <2>13. \A k \in Range(q) : Range(Parents(k)) \subseteq Range(o)
    BY <2>2, <2>5, <2>6, <2>7, <2>10
  <2>14. ASSUME NEW i \in 1..Len(o), NEW p \in Range(Parents(o[i]))
         PROVE  \E j \in 1..(i - 1) : o[j] = p
    <3>1. CASE i <= n
      <4>1. i \in 1..Len(s.order) /\ o[i] = s.order[i]
        BY <2>1, <2>5, <3>1
      <4>2. PICK j \in 1..(i - 1) : s.order[j] = p
        BY <2>2, <2>14, <4>1
      <4>3. j \in 1..n
        BY <2>1, <4>1
      <4>4. QED
        BY <2>5, <4>2, <4>3
    <3>2. CASE i = n + 1
      <4>1. p \in Range(s.order)
        BY <2>2, <2>4, <2>5, <2>14, <3>2
      <4>2. PICK j \in 1..n : s.order[j] = p
        BY <2>1, <4>1, InRange
      <4>3. j \in 1..(i - 1) /\ o[j] = p
        BY <2>5, <3>2, <4>2
      <4>4. QED
        BY <4>3
    <3>3. QED
      BY <2>5, <3>1, <3>2
  <2>15. o # <<>> /\ o[1] = 1
    <3>1. Len(<<>>) = 0 /\ Len(o) # 0
      BY <2>5
    <3>2. CASE s.order = <<>>
      <4>1. h = 1 /\ n = 0
        BY <2>1, <2>2, <2>4, <3>2
      <4>2. QED
        BY <2>5, <3>1, <4>1, SMTT(30)
    <3>3. CASE s.order # <<>>
      <4>1. n # 0
        BY <2>1, <3>3
      <4>2. 1 \in 1..n
        BY <4>1
      <4>3. QED
        BY <2>2, <2>5, <3>1, <3>3, <4>2
    <3>4. QED
      BY <3>2, <3>3
  <2>16. t \in [back : Seq(1..N), queue : Seq(1..N), order : Seq(1..N)]
    BY <2>1, <2>5, <2>10 DEF t
  <2>17. t.back = s.back /\ t.queue = q /\ t.order = o
    BY DEF t
  <2>18. SortInv(W, n + 1, t)
    BY <2>1, <2>5, <2>10, <2>11, <2>12, <2>13, <2>14, <2>15, <2>16, <2>17 DEF SortInv, N
  <2>19. QED
    BY <2>3, <2>18
<1>3. QED
  BY <1>1, <1>2

\* Of a history that the walk has read once, the sort puts each commit after its
\* parents, and leaves none out.
LEMMA SortedOnce ==
  ASSUME TypeOK, HistoryInv, NEW head \in 1..Len(commits),
         NEW walk \in Seq(1..Len(commits)), IsInjective(walk), Range(walk) = History(head)
  PROVE  /\ Accepted(ParentsFirst(walk)) <=> \A k \in History(head) : ~Jumps(k)
         /\ IsInjective(ParentsFirst(walk))
         /\ Range(ParentsFirst(walk)) = History(head)
<1> DEFINE N == Len(commits)
           W == History(head)
           back == Reverse(walk)
           q == Only(back, Roots)
           e == <<>>
           s == [back |-> back, queue |-> q, order |-> e]
           States == [back : Seq(1..N), queue : Seq(1..N), order : Seq(1..N)]
           T == {x \in Nat \X States : SortInv(W, x[1], x[2])}
<1>1. N \in Nat /\ head \in 1..N /\ W \subseteq 1..N
  BY CommitTypes, Parentage
<1>2. back \in Seq(1..N) /\ IsInjective(back) /\ Range(back) = W
  <2> DEFINE A == 1..N
  <2>1. walk \in Seq(A)
    OBVIOUS
  <2> HIDE DEF A
  <2>2. /\ Reverse(walk) \in Seq(A) /\ Range(Reverse(walk)) = Range(walk)
        /\ IsInjective(walk) => IsInjective(Reverse(walk))
    BY <2>1, TurnedRound
  <2>3. QED
    BY <2>2 DEF A
<1>3. q \in Seq(1..N) /\ IsInjective(q) /\ Range(q) = W \cap Roots
  <2> DEFINE A == 1..N
  <2> HIDE DEF A, back
  <2>1. /\ Only(back, Roots) \in Seq(A) /\ Range(Only(back, Roots)) = Range(back) \cap Roots
        /\ IsInjective(back) => IsInjective(Only(back, Roots))
    BY <1>2, OnlyThose DEF A
  <2>2. QED
    BY <1>2, <2>1 DEF A
<1>4. \A k \in 1..N : k \in Roots <=> Range(Parents(k)) = {}
  <2>1. SUFFICES ASSUME NEW k \in 1..N
                 PROVE  k \in Roots <=> Range(Parents(k)) = {}
    OBVIOUS
  <2>2. Parents(k) \in Seq(1..N)
    BY Parentage
  <2>3. Parents(k) = <<>> <=> Range(Parents(k)) = {}
    <3>1. Parents(k) # <<>> => 1 \in 1..Len(Parents(k))
      BY <2>2
    <3>2. Parents(k) # <<>> => Parents(k)[1] \in Range(Parents(k))
      BY <2>2, <3>1, InRange
    <3>3. Range(<<>>) = {}
      BY DEF Range
    <3>4. QED
      BY <3>2, <3>3
  <2>4. QED
    BY <2>3 DEF Roots
<1>5. Roots \subseteq {1}
  BY Parentage DEF Roots
<1>6. SortInv(W, 0, s)
  <2>1. /\ e \in Seq(1..N) /\ Range(e) = {} /\ IsInjective(e) /\ Len(e) = 0 /\ e = <<>>
    BY DEF IsInjective, Range
  <2>2. s.back = back /\ s.queue = q /\ s.order = e
    OBVIOUS
  <2> HIDE DEF q, e, back, W
  <2>3. s \in States
    BY <1>2, <1>3, <2>1
  <2> HIDE DEF s
  <2>4. /\ Range(q) \subseteq W /\ Range(e) \subseteq W /\ Range(q) \cap Range(e) = {}
        /\ \A k \in W : Range(Parents(k)) \subseteq Range(e) => k \in Range(q) \cup Range(e)
        /\ \A k \in Range(q) : Range(Parents(k)) \subseteq Range(e)
        /\ Range(q) \subseteq {1}
    BY <1>1, <1>3, <1>4, <1>5, <2>1
  <2>5. QED
    BY <1>2, <1>3, <2>1, <2>2, <2>3, <2>4 DEF SortInv
<1> HIDE DEF W
<1>7. \A k \in Nat : \A t : SortInv(W, k, t) => t \in States
  BY DEF SortInv
<1>8. \A k \in Nat : \A t : <<k, t>> \in T <=> SortInv(W, k, t)
  <2> HIDE DEF s, States
  <2>1. QED
    BY <1>7
<1> HIDE DEF s, States, T, N
<1>9. \A k \in 1..N : \A t : <<k - 1, t>> \in T => <<k, SortTurn(t)>> \in T
  <2>1. SUFFICES ASSUME NEW k \in 1..N, NEW t, <<k - 1, t>> \in T
                 PROVE  <<k, SortTurn(t)>> \in T
    OBVIOUS
  <2>2. k - 1 \in Nat /\ k \in Nat /\ (k - 1) + 1 = k
    BY <1>1
  <2>3. SortInv(W, k - 1, t)
    BY <1>8, <2>1, <2>2
  <2>4. SortInv(W, (k - 1) + 1, SortTurn(t))
    BY <1>1, <2>2, <2>3, SortStep DEF N
  <2>5. QED
    BY <1>8, <2>2, <2>4
<1>10. <<N, Turns(SortTurn, s, N)>> \in T
  <2>1. <<0, s>> \in T
    BY <1>6, <1>8
  <2>2. QED
    BY <1>1, <1>9, <2>1, SortTurns
<1> DEFINE w == Turns(SortTurn, s, N)
<1>11. ParentsFirst(walk) = w.order
  BY DEF ParentsFirst, s, N
<1> HIDE DEF w
<1>12. SortInv(W, N, w)
  BY <1>1, <1>8, <1>10 DEF w
<1> DEFINE wq == w.queue
           wo == w.order
<1>13. /\ wq \in Seq(1..N) /\ wo \in Seq(1..N) /\ IsInjective(wo)
       /\ Range(wo) \subseteq W /\ Range(wq) \cap Range(wo) = {}
       /\ \A k \in W : Range(Parents(k)) \subseteq Range(wo) => k \in Range(wq) \cup Range(wo)
       /\ \A i \in 1..Len(wo) : \A p \in Range(Parents(wo[i])) :
            \E j \in 1..(i - 1) : wo[j] = p
       /\ wo # <<>> => wo[1] = 1
       /\ wq = <<>> \/ Len(wo) = N
  BY <1>12 DEF SortInv, N
<1> HIDE DEF wq, wo
<1>14. wq = <<>>
  BY <1>1, <1>13, NoneLeft
<1>15. W \subseteq Range(wo)
  <2> DEFINE B == W \ Range(wo)
  <2>1. SUFFICES ASSUME B # {} PROVE FALSE
    OBVIOUS
  <2>2. B \subseteq Nat
    <3>1. 1..N \subseteq Nat /\ B \subseteq W
      BY <1>1
    <3>2. QED
      BY <1>1, <3>1, Zenon
  <2>3. PICK k \in B : \A l \in B : k <= l
    <3> HIDE DEF B
    <3>1. QED
      BY <2>1, <2>2, LeastNat
  <2>4. k \in W /\ k \notin Range(wo) /\ k \in Nat
    BY <2>2
  <2>5. Range(<<>>) = {}
    BY DEF Range
  <2>6. PICK p \in Range(Parents(k)) : p \notin Range(wo)
    BY <1>13, <1>14, <2>4, <2>5
  <2>7. k \in 1..N /\ p \in W
    BY <1>1, <2>4, Parentage DEF W, N
  <2>8. p < k /\ p \in Nat
    BY <1>1, <2>7, Parentage DEF N
  <2>9. k <= p
    BY <2>3, <2>6, <2>7
  <2>10. QED
    BY <2>4, <2>8, <2>9
<1>16. Accepted(wo) <=> \A k \in W : ~Jumps(k)
  <2>1. ASSUME NEW i \in 1..Len(wo)
        PROVE  /\ i = 1 <=> Parents(wo[i]) = <<>>
               /\ \A p \in Range(Parents(wo[i])) :
                    /\ \E j \in 1..(i - 1) : wo[j] = p
                    /\ commits[p].edit < commits[wo[i]].edit
    <3>1. wo[i] \in 1..N /\ 1 \in 1..Len(wo) /\ wo # <<>>
      <4>1. wo \in Seq(1..N) /\ Len(wo) \in Nat /\ Len(<<>>) = 0
        BY <1>13
      <4>2. Len(wo) # 0
        BY <4>1
      <4>3. wo[i] \in 1..N
        <5>1. wo[i] \in Range(wo)
          BY <4>1, InRange
        <5>2. QED
          BY <1>1, <1>13, <5>1, Zenon
      <4>4. 1 \in 1..Len(wo)
        BY <4>1, <4>2
      <4>5. wo # <<>>
        BY <4>2
      <4>6. QED
        BY <4>3, <4>4, <4>5
    <3>2. \A j \in 1..Len(wo) : wo[i] = wo[j] => i = j
      <4>1. IsInjective(wo) /\ i \in DOMAIN wo /\ \A j \in 1..Len(wo) : j \in DOMAIN wo
        BY <1>13
      <4>2. QED
        BY <4>1, Zenon DEF IsInjective
    <3>3. i = 1 <=> wo[i] = 1
      BY <1>13, <3>1, <3>2
    <3>4. QED
      BY <1>13, <3>1, <3>3, Parentage DEF N
  <2>2. Accepted(wo) <=> \A i \in 1..Len(wo) : ~Jumps(wo[i])
    BY <2>1 DEF Accepted
  <2>3. (\A i \in 1..Len(wo) : ~Jumps(wo[i])) <=> \A k \in W : ~Jumps(k)
    <3>1. wo \in Seq(1..N) /\ Range(wo) = W
      BY <1>13, <1>15
    <3>2. (\A i \in 1..Len(wo) : wo[i] \in W) /\ \A k \in W : \E i \in 1..Len(wo) : k = wo[i]
      BY <3>1 DEF Range
    <3>3. QED
      BY <3>2, Zenon
  <2>4. QED
    BY <2>2, <2>3
<1>17. QED
  BY <1>11, <1>13, <1>15, <1>16 DEF wo, W

\* The order that an issue is read in, from any of its commits.
LEMMA ReadOnce ==
  ASSUME TypeOK, HistoryInv, NEW head \in 1..Len(commits)
  PROVE  /\ Accepted(ReadOrder(head)) <=> \A k \in History(head) : ~Jumps(k)
         /\ Accepts(head) <=> \A k \in History(head) : ~Jumps(k)
         /\ IsInjective(ReadOrder(head)) /\ Range(ReadOrder(head)) = History(head)
<1> DEFINE walk == BFSOrder(head)
<1>1. walk \in Seq(1..Len(commits)) /\ IsInjective(walk) /\ Range(walk) = History(head)
  BY WalkedOnce
<1> HIDE DEF walk
<1>2. /\ Accepted(ParentsFirst(walk)) <=> \A k \in History(head) : ~Jumps(k)
      /\ IsInjective(ParentsFirst(walk))
      /\ Range(ParentsFirst(walk)) = History(head)
  BY <1>1, SortedOnce
<1>3. ReadOrder(head) = ParentsFirst(walk)
  <2>1. {ParentsFirst(z) : z \in {walk}} = {ParentsFirst(walk)}
    OBVIOUS
  <2>2. (CHOOSE y \in {ParentsFirst(walk)} : TRUE) = ParentsFirst(walk)
    OBVIOUS
  <2>3. QED
    BY <2>1, <2>2, Zenon DEF ReadOrder, With, walk
<1> DEFINE order == ReadOrder(head)
<1>4. Accepts(head) <=> Accepted(order)
  <2>1. Accepts(head) = CHOOSE y \in {Accepted(z) : z \in {order}} : TRUE
    BY DEF Accepts, With
  <2> HIDE DEF order
  <2>2. {Accepted(z) : z \in {order}} # {}
    OBVIOUS
  <2>3. ASSUME Accepted(order)
        PROVE  \A y \in {Accepted(z) : z \in {order}} : y
    BY <2>3
  <2>4. ASSUME ~Accepted(order)
        PROVE  \A y \in {Accepted(z) : z \in {order}} : ~y
    BY <2>4
  <2>5. QED
    BY <2>1, <2>2, <2>3, <2>4, Zenon
<1>5. QED
  BY <1>2, <1>3, <1>4

-----------------------------------------------------------------------------
\* Histories are nested.
LEMMA Nested ==
  ASSUME TypeOK, HistoryInv
  PROVE  /\ \A h \in Hash : \A k \in History(h) : k \in Hash /\ History(k) \subseteq History(h)
         /\ \A h \in Hash : h # None => h \in History(h)
         /\ \A h \in Hash : None \notin History(h)
         /\ History(None) = {}
  BY Ancestry, SMTT(30) DEF History

\* When no commit is added the histories stay.
LEMMA NoCommit ==
  ASSUME ClonesInvariant, UNCHANGED commits
  PROVE  /\ HistoryInv'
         /\ \A h : History(h)' = History(h) /\ OpsAt(h)' = OpsAt(h)
<1>1. \A h : History(h)' = History(h) /\ OpsAt(h)' = OpsAt(h)
  BY DEF History, OpsAt
<1>2. HistoryInv' <=> HistoryInv
  BY DEF HistoryInv, History, Written, Parents
<1>3. QED
  BY <1>1, <1>2 DEF ClonesInvariant

\* Clocks that move forward, and not too far, stay ahead of the commits.
LEMMA ClocksForward ==
  ASSUME TypeOK, TypeOK', ClockInv, UNCHANGED commits,
         \A d \in Clone : /\ clock[d] <= clock'[d]
                         /\ clock'[d] <= MaxElsewhere + Len(commits) + 1
  PROVE  ClockInv'
<1>1. ASSUME NEW k \in 1..Len(commits)
      PROVE  \E d \in Clone : commits[k].edit <= clock'[d]
  <2>1. PICK d \in Clone : commits[k].edit <= clock[d]
    BY DEF ClockInv
  <2>2. clock[d] \in Nat /\ clock'[d] \in Nat /\ commits[k].edit \in Nat
    BY CommitTypes DEF TypeOK
  <2>3. QED
    BY <2>1, <2>2
<1>2. QED
  BY <1>1 DEF ClockInv

\* Edits of other issues move a clone's clock.
LEMMA ElsewhereStep ==
  ASSUME ClonesInvariant, NEW c \in Clone, Elsewhere(c)
  PROVE  ClonesInvariant'
<1>1. /\ TypeOK /\ ClockInv /\ HistoryInv' /\ Len(commits) \in Nat
      /\ UNCHANGED <<commits, local, tracking, origin, merging, listed>>
  BY NoCommit, CommitTypes DEF ClonesInvariant, Elsewhere
<1>2. PICK t \in (clock[c] + 1)..MaxElsewhere : clock' = [clock EXCEPT ![c] = t]
  BY DEF Elsewhere
<1>3. clock \in [Clone -> Nat] /\ t \in Nat /\ clock[c] <= t /\ t <= MaxElsewhere
  BY <1>1, <1>2, ClonesAssumption DEF TypeOK
<1>4. TypeOK'
  BY <1>1, <1>2, <1>3 DEF TypeOK
<1>5. \A d \in Clone : clock[d] <= clock'[d] /\ clock'[d] <= MaxElsewhere + Len(commits) + 1
  BY <1>1, <1>2, <1>3, ClonesAssumption DEF ClockInv
<1>6. ClockInv'
  BY <1>1, <1>4, <1>5, ClocksForward
<1>7. RefsInv' /\ SharedInv' /\ ComparableInv'
  BY <1>1 DEF ClonesInvariant, RefsInv, SharedInv, ComparableInv, Comparable, History
<1>8. QED
  BY <1>1, <1>4, <1>6, <1>7 DEF ClonesInvariant

\* A fetch brings the tracking ref to where the remote is.
LEMMA FetchStep ==
  ASSUME ClonesInvariant, NEW c \in Clone, Fetch(c)
  PROVE  ClonesInvariant'
<1>1. /\ TypeOK /\ HistoryInv /\ ClockInv /\ RefsInv /\ SharedInv /\ ComparableInv
      /\ HistoryInv' /\ \A h : History(h)' = History(h)
  BY NoCommit DEF ClonesInvariant, Fetch
<1>2. TypeOK' /\ ClockInv'
  BY <1>1 DEF Fetch, TypeOK, ClockInv
<1>3. RefsInv'
  <2> SUFFICES ASSUME NEW d \in Clone
               PROVE  /\ tracking'[d] \in History(origin) \cup {None}
                      /\ merging[d] => listed[d].remote \in History(tracking'[d])
    BY <1>1 DEF Fetch, RefsInv, History
  <2>1. /\ tracking[d] \in History(origin) \cup {None} /\ origin \in Hash
        /\ merging[d] => listed[d].remote \in History(tracking[d])
        /\ tracking'[d] \in {tracking[d], origin}
    BY <1>1 DEF Fetch, RefsInv, TypeOK
  <2>2. origin \in History(origin) \cup {None} /\ History(tracking[d]) \subseteq History(origin)
    BY <1>1, <2>1, Nested
  <2>3. QED
    BY <2>1, <2>2
<1>4. SharedInv'
  BY <1>1 DEF Fetch, SharedInv, History
<1>5. ComparableInv'
  <2> SUFFICES ASSUME NEW d \in Clone, local[d] \in History(origin)
               PROVE  /\ Comparable(local[d], tracking[d])'
                      /\ Comparable(local[d], listed[d].remote)'
    BY <1>1 DEF Fetch, ComparableInv, History
  <2>1. Comparable(local[d], tracking[d]) /\ Comparable(local[d], listed[d].remote)
    BY <1>1 DEF ComparableInv
  <2>2. tracking'[d] \in {tracking[d], origin} /\ local' = local /\ listed' = listed
    BY <1>1 DEF Fetch, TypeOK
  <2>3. QED
    BY <1>1, <2>1, <2>2 DEF Fetch, Comparable, History
<1>6. QED
  BY <1>1, <1>2, <1>3, <1>4, <1>5 DEF ClonesInvariant

\* A push makes the remote's ref the clone's.
LEMMA PushStep ==
  ASSUME ClonesInvariant, NEW c \in Clone, Push(c)
  PROVE  ClonesInvariant'
<1>1. /\ TypeOK /\ HistoryInv /\ ClockInv /\ RefsInv /\ SharedInv /\ ComparableInv
      /\ HistoryInv' /\ \A h : History(h)' = History(h)
  BY NoCommit DEF ClonesInvariant, Push
<1>2. TypeOK' /\ ClockInv'
  BY <1>1 DEF Push, TypeOK, ClockInv
<1>3. /\ local[c] \in Hash /\ local[c] # None /\ local[c] \in History(local[c])
      /\ History(origin) \subseteq History(local[c])
      /\ UNCHANGED <<commits, local, merging, listed>> /\ origin' = local[c]
  BY <1>1, Nested DEF Push, TypeOK
<1>4. ASSUME NEW d \in Clone
      PROVE  /\ tracking'[d] = tracking[d] \/ (d = c /\ tracking'[d] = local[c])
             /\ tracking'[d] \in History(local[c]) \cup {None}
             /\ merging[d] => listed[d].local = local[d] /\ listed[d].remote \in History(tracking'[d])
             /\ ~merging[d] => listed[d] = [local |-> None, remote |-> None]
  <2>1. /\ tracking[d] \in History(origin) \cup {None}
        /\ merging[d] => listed[d].local = local[d] /\ listed[d].remote \in History(tracking[d])
        /\ ~merging[d] => listed[d] = [local |-> None, remote |-> None]
    BY <1>1 DEF RefsInv
  <2>2. tracking'[d] = tracking[d] \/ (d = c /\ tracking'[d] = local[c])
    BY <1>1 DEF Push, TypeOK
  <2>3. History(tracking[d]) \subseteq History(local[c])
    BY <1>1, <1>3, <2>1, Nested
  <2>4. QED
    BY <1>3, <2>1, <2>2, <2>3
<1>5. RefsInv'
  BY <1>1, <1>3, <1>4 DEF RefsInv, History
<1>6. SharedInv'
  <2> SUFFICES ASSUME NEW d \in Clone, NEW e \in Clone, d # e
               PROVE  History(local[d]) \cap History(local[e]) \subseteq History(local[c])
    BY <1>3 DEF SharedInv, History
  <2>1. History(local[d]) \cap History(local[e]) \subseteq History(origin)
    BY <1>1 DEF SharedInv
  <2>2. QED
    BY <1>3, <2>1
<1>7. ComparableInv'
  <2> SUFFICES ASSUME NEW d \in Clone, local[d] \in History(local[c])
               PROVE  /\ Comparable(local[d], tracking[d])'
                      /\ Comparable(local[d], listed[d].remote)'
    BY <1>3 DEF ComparableInv, History
  <2>1. CASE d = c
    <3>1. tracking'[d] \in History(local[c]) \cup {None}
      BY <1>4
    <3>2. listed[d].remote \in History(local[c]) \cup {None}
      <4>1. History(tracking'[d]) \subseteq History(local[c])
        BY <1>1, <1>3, <3>1, Nested
      <4>2. QED
        BY <1>4, <4>1
    <3>3. QED
      BY <1>3, <2>1, <3>1, <3>2 DEF Comparable, History
  <2>2. CASE d # c
    <3>1. local[d] \in History(local[d])
      BY <1>1, Nested, ZenonT(40) DEF TypeOK
    <3>2. local[d] \in History(origin)
      BY <1>1, <2>2, <3>1 DEF SharedInv
    <3>3. Comparable(local[d], tracking[d]) /\ Comparable(local[d], listed[d].remote)
      BY <1>1, <3>2 DEF ComparableInv
    <3>4. tracking'[d] = tracking[d]
      BY <1>4, <2>2
    <3>5. QED
      BY <1>3, <3>3, <3>4 DEF Comparable, History
  <2>3. QED
    BY <2>1, <2>2
<1>8. QED
  BY <1>1, <1>2, <1>5, <1>6, <1>7 DEF ClonesInvariant

\* MergeAll lists where the refs are.
LEMMA MergeListStep ==
  ASSUME ClonesInvariant, NEW c \in Clone, MergeList(c)
  PROVE  ClonesInvariant'
<1>1. /\ TypeOK /\ HistoryInv /\ ClockInv /\ RefsInv /\ SharedInv /\ ComparableInv
      /\ HistoryInv' /\ \A h : History(h)' = History(h)
  BY NoCommit DEF ClonesInvariant, MergeList
<1>2. TypeOK' /\ ClockInv'
  BY <1>1 DEF MergeList, TypeOK, ClockInv
<1>3. tracking[c] \in History(tracking[c])
  BY <1>1, Nested DEF MergeList, TypeOK
<1>4. RefsInv'
  BY <1>1, <1>3 DEF MergeList, RefsInv, TypeOK, History
<1>5. SharedInv'
  BY <1>1 DEF MergeList, SharedInv, History
<1>6. ComparableInv'
  <2> SUFFICES ASSUME NEW d \in Clone, local[d] \in History(origin)
               PROVE  /\ Comparable(local[d], tracking[d])'
                      /\ Comparable(local[d], listed[d].remote)'
    BY <1>1 DEF MergeList, ComparableInv, History
  <2>1. Comparable(local[d], tracking[d]) /\ Comparable(local[d], listed[d].remote)
    BY <1>1 DEF ComparableInv
  <2>2. /\ listed'[d].remote \in {listed[d].remote, tracking[d]}
        /\ UNCHANGED <<commits, local, tracking>>
    BY <1>1 DEF MergeList, TypeOK
  <2>3. QED
    BY <2>1, <2>2 DEF Comparable, History
<1>7. QED
  BY <1>1, <1>2, <1>4, <1>5, <1>6 DEF ClonesInvariant

-----------------------------------------------------------------------------
\* What a merge knows when the issue's turn has come.
LEMMA Listed ==
  ASSUME ClonesInvariant, NEW c \in Clone, merging[c]
  PROVE  /\ listed[c].local = local[c] /\ local[c] \in Hash
         /\ listed[c].remote \in Hash \ {None}
         /\ listed[c].remote \in History(tracking[c])
         /\ History(tracking[c]) \subseteq History(origin)
         /\ History(listed[c].remote) \subseteq History(origin)
<1>1. /\ TypeOK /\ HistoryInv /\ listed[c].local = local[c]
      /\ listed[c].remote \in History(tracking[c])
      /\ tracking[c] \in History(origin) \cup {None}
  BY DEF ClonesInvariant, RefsInv
<1>2. /\ local[c] \in Hash /\ tracking[c] \in Hash /\ origin \in Hash
      /\ listed[c].remote \in Hash
  BY <1>1 DEF TypeOK
<1>3. QED
  BY <1>1, <1>2, Nested

\* A fast-forward decided on the tracking ref as it is now is one to the hash
\* that was listed: the clone's ref is in the remote's history, and so the two
\* are comparable.
LEMMA Forward ==
  ASSUME ClonesInvariant, NEW c \in Clone, merging[c], MergeNew(c) \/ MergeForward(c)
  PROVE  local[c] \in History(listed[c].remote) \cup {None}
<1>1. /\ listed[c].local = local[c] /\ History(tracking[c]) \subseteq History(origin)
      /\ listed[c].remote # None
  BY Listed
<1>2. CASE MergeNew(c)
  BY <1>1, <1>2 DEF MergeNew
<1>3. CASE MergeForward(c)
  <2>1. local[c] \in History(origin) /\ listed[c].remote \notin History(local[c])
    BY <1>1, <1>3 DEF MergeForward
  <2>2. Comparable(local[c], listed[c].remote)
    BY <2>1 DEF ClonesInvariant, ComparableInv
  <2>3. QED
    BY <1>1, <2>1, <2>2 DEF Comparable
<1>4. QED
  BY <1>2, <1>3

\* The clone's ref moves to the remote's hash, or stays.
LEMMA MoveStep ==
  ASSUME ClonesInvariant, NEW c \in Clone, merging[c],
         \/ MergeNew(c) \/ MergeForward(c) \/ MergeNothing(c) \/ MergeError(c)
         \/ MergeInvalid(c)
  PROVE  ClonesInvariant'
<1> DEFINE remote == listed[c].remote
<1>1. /\ TypeOK /\ HistoryInv /\ ClockInv /\ RefsInv /\ SharedInv /\ ComparableInv
      /\ UNCHANGED <<commits, tracking, origin>>
      /\ clock' = [clock EXCEPT ![c] = Witnessed(c, {remote})] \/ UNCHANGED clock
      /\ merging' = [merging EXCEPT ![c] = FALSE]
      /\ listed' = [listed EXCEPT ![c] = [local |-> None, remote |-> None]]
  BY DEF ClonesInvariant, MergeNew, MergeForward, MergeNothing, MergeError, MergeInvalid,
         MergeDone
<1>2. HistoryInv' /\ \A h : History(h)' = History(h)
  BY <1>1, NoCommit
<1>3. /\ remote \in Hash \ {None} /\ remote \in History(tracking[c])
      /\ History(remote) \subseteq History(origin)
  BY Listed
<1>4. UNCHANGED local \/ local' = [local EXCEPT ![c] = remote]
  BY DEF MergeNew, MergeForward, MergeNothing, MergeError, MergeInvalid
<1>5. /\ Witnessed(c, {remote}) \in Nat /\ clock[c] <= Witnessed(c, {remote})
      /\ Witnessed(c, {remote}) <= MaxElsewhere + Len(commits) + 1
  BY <1>1, <1>3, WitnessedAll
<1>6. TypeOK'
  <2>1. local' \in [Clone -> Hash]
    BY <1>1, <1>3, <1>4 DEF TypeOK
  <2>2. /\ clock' \in [Clone -> Nat] /\ merging' \in [Clone -> BOOLEAN]
        /\ listed' \in [Clone -> [local : Hash, remote : Hash]]
    BY <1>1, <1>5, CommitTypes, SMTT(30) DEF TypeOK
  <2>3. Hash' = Hash
    BY <1>1
  <2>4. QED
    BY <1>1, <2>1, <2>2, <2>3 DEF TypeOK
<1>7. ClockInv'
  <2> DEFINE w == Witnessed(c, {remote})
  <2>1. /\ clock \in [Clone -> Nat]
        /\ \A d \in Clone : clock[d] <= MaxElsewhere + Len(commits) + 1
        /\ w \in Nat /\ clock[c] <= w /\ w <= MaxElsewhere + Len(commits) + 1
        /\ clock' = [clock EXCEPT ![c] = w] \/ clock' = clock
    BY <1>1, <1>5 DEF ClockInv, TypeOK
  <2> HIDE DEF w
  <2>2. ASSUME NEW d \in Clone
        PROVE  clock[d] <= clock'[d] /\ clock'[d] <= MaxElsewhere + Len(commits) + 1
    BY <2>1
  <2>3. QED
    BY <1>1, <1>6, <2>2, ClocksForward
<1>8. RefsInv'
  <2> SUFFICES ASSUME NEW d \in Clone
               PROVE  /\ tracking[d] \in History(origin) \cup {None}
                      /\ IF merging'[d]
                         THEN /\ listed'[d].local = local'[d]
                              /\ listed'[d].remote \in History(tracking[d])
                         ELSE listed'[d] = [local |-> None, remote |-> None]
    BY <1>1 DEF RefsInv, History
  <2>1. /\ tracking[d] \in History(origin) \cup {None}
        /\ IF merging[d]
           THEN listed[d].local = local[d] /\ listed[d].remote \in History(tracking[d])
           ELSE listed[d] = [local |-> None, remote |-> None]
    BY <1>1 DEF RefsInv
  <2>2. CASE d = c
    BY <1>1, <2>1, <2>2 DEF TypeOK
  <2>3. CASE d # c
    <3>1. local'[d] = local[d] /\ merging'[d] = merging[d] /\ listed'[d] = listed[d]
      BY <1>1, <1>4, <2>3 DEF TypeOK
    <3>2. QED
      BY <2>1, <3>1
  <2>4. QED
    BY <2>2, <2>3
<1>9. SharedInv'
  <2> SUFFICES ASSUME NEW d \in Clone, NEW e \in Clone, d # e
               PROVE  History(local[d])' \cap History(local[e])' \subseteq History(origin)
    BY <1>1 DEF SharedInv, History
  <2>1. History(local[d]) \cap History(local[e]) \subseteq History(origin)
    BY <1>1 DEF SharedInv
  <2>2. /\ local'[d] = local[d] \/ local'[d] = remote
        /\ local'[e] = local[e] \/ local'[e] = remote
    BY <1>1, <1>4 DEF TypeOK
  <2>3. /\ History(local[d])' = History(local[d]) \/ History(local[d])' = History(remote)
        /\ History(local[e])' = History(local[e]) \/ History(local[e])' = History(remote)
    BY <1>1, <2>2 DEF History
  <2>4. QED
    BY <1>3, <2>1, <2>3
<1>10. ComparableInv'
  <2> SUFFICES ASSUME NEW d \in Clone, local'[d] \in History(origin)
               PROVE  /\ Comparable(local[d], tracking[d])'
                      /\ Comparable(local[d], listed[d].remote)'
    BY <1>1 DEF ComparableInv, History
  <2>1. CASE local'[d] = local[d]
    <3>1. Comparable(local[d], tracking[d]) /\ Comparable(local[d], listed[d].remote)
      BY <1>1, <2>1 DEF ComparableInv
    <3>2. listed'[d].remote \in {listed[d].remote, None}
      BY <1>1 DEF TypeOK
    <3>3. QED
      BY <1>1, <2>1, <3>1, <3>2 DEF Comparable, History
  <2>2. CASE d = c /\ local'[c] = remote
    <3>1. listed'[c].remote = None
      BY <1>1 DEF TypeOK
    <3>2. QED
      BY <1>1, <1>3, <2>2, <3>1 DEF Comparable, History
  <2>3. QED
    BY <1>1, <1>4, <2>1, <2>2 DEF TypeOK
<1>11. QED
  BY <1>2, <1>6, <1>7, <1>8, <1>9, <1>10 DEF ClonesInvariant

-----------------------------------------------------------------------------
\* A clone adds a commit: on top of its own ref, or to join its own history with
\* the remote's.
LEMMA CommitMade ==
  ASSUME ClonesInvariant, NEW c \in Clone, Write(c) \/ (Merges(c) /\ MergeJoin(c)),
         NEW n \in Nat, n = Len(commits)
  PROVE  /\ HistoryInv' /\ ClockInv'
         /\ commits' \in Seq([parents : Seq(Nat), op : Op \cup {Merge}, edit : Nat,
                              past : SUBSET Nat])
         /\ clock' \in [Clone -> Nat]
         /\ Len(commits') = n + 1 /\ \A k \in 1..n : commits'[k] = commits[k]
         /\ commits'[n + 1].op = IF Write(c) THEN Written + 1 ELSE Merge
         /\ Write(c) => Written + 1 \in Op
         /\ \E rest \in SUBSET History(origin) :
              /\ History(n + 1)' = {n + 1} \cup History(local[c]) \cup rest
              /\ Write(c) => rest = {}
<1> DEFINE remote == listed[c].remote
           Made(parents, heads, op, rest) ==
             LET t == Witnessed(c, heads) + 1 IN
             /\ Range(parents) \subseteq heads
             /\ IsInjective(parents) /\ (parents = <<>> <=> n = 0)
             /\ UNION {History(p) : p \in Range(parents)} = History(local[c]) \cup rest
             /\ commits' = Append(commits, Commit(parents, op, t))
             /\ clock' = [clock EXCEPT ![c] = t]
<1>1. /\ TypeOK /\ HistoryInv /\ ClockInv /\ local[c] \in 0..n /\ clock[c] \in Nat
      /\ History(None) = {} /\ Written \in Nat
  BY WrittenType, Nested DEF ClonesInvariant, TypeOK
<1>2. PICK parents \in Seq(1..n), heads \in SUBSET (0..n), op \in {Merge, Written + 1},
           rest \in SUBSET History(origin) :
        /\ Made(parents, heads, op, rest)
        /\ op = IF Write(c) THEN Written + 1 ELSE Merge
        /\ op \in 0..MaxOps
        /\ Write(c) => rest = {}
  <2>1. CASE Write(c)
    <3> DEFINE parents == IF local[c] = None THEN <<>> ELSE <<local[c]>>
    <3>1. parents \in Seq(1..n)
      <4>1. CASE local[c] = None
        BY <4>1
      <4>2. CASE local[c] # None
        BY <1>1, <4>2
      <4>3. QED
        BY <4>1, <4>2
    <3>2. Range(parents) = IF local[c] = None THEN {} ELSE {local[c]}
      BY DEF Range
    <3>3. UNION {History(p) : p \in Range(parents)} = History(local[c]) \cup {}
      <4> HIDE DEF parents
      <4>1. QED
        BY <1>1, <3>2
    <3>4. Made(parents, {local[c]}, Written + 1, {})
      <4>1. IsInjective(parents)
        BY DEF IsInjective
      <4>2. parents = <<>> <=> n = 0
        BY <1>1, <2>1 DEF Write
      <4>3. QED
        BY <2>1, <3>2, <3>3, <4>1, <4>2 DEF Write
    <3>5. Written + 1 \in 0..MaxOps /\ {local[c]} \in SUBSET (0..n)
      BY <1>1, <2>1 DEF Write
    <3> HIDE DEF parents, Made
    <3>6. QED
      BY <2>1, <3>1, <3>4, <3>5
  <2>2. CASE ~Write(c)
    <3> DEFINE parents == <<local[c], remote>>
    <3>1. /\ Merges(c) /\ MergeJoin(c) /\ listed[c].local = local[c]
          /\ local[c] \in 1..n /\ remote \in 1..n
          /\ History(remote) \in SUBSET History(origin)
      BY <1>1, <2>2, Listed DEF MergeJoin, Diverged, Merges
    <3>2. Range(parents) = {local[c], remote}
      BY DEF Range
    <3>3. UNION {History(p) : p \in Range(parents)} = History(local[c]) \cup History(remote)
      <4> HIDE DEF parents
      <4>1. QED
        BY <3>2
    <3>4. Made(parents, {local[c], remote}, Merge, History(remote))
      <4>1. local[c] # remote
        BY <1>1, <3>1, Nested DEF MergeJoin, Diverged
      <4>2. IsInjective(parents) /\ parents # <<>> /\ n # 0
        BY <3>1, <4>1 DEF IsInjective
      <4>3. QED
        BY <3>1, <3>2, <3>3, <4>2 DEF MergeJoin
    <3>5. /\ parents \in Seq(1..n) /\ {local[c], remote} \in SUBSET (0..n)
          /\ Merge \in 0..MaxOps
      BY <3>1
    <3> HIDE DEF parents, Made, remote
    <3>6. History(remote) \in SUBSET History(origin)
      BY <3>1
    <3>7. QED
      BY <2>2, <3>4, <3>5, <3>6
  <2>3. QED
    BY <2>1, <2>2
<1> DEFINE t == Witnessed(c, heads) + 1
<1>3. /\ t \in Nat /\ t <= MaxElsewhere + n + 2 /\ clock[c] <= t
      /\ \A p \in Range(parents) : \A k \in History(p) : commits[k].edit < t
  <2>1. /\ Witnessed(c, heads) \in Nat /\ Witnessed(c, heads) <= MaxElsewhere + n + 1
        /\ clock[c] <= Witnessed(c, heads)
        /\ \A h \in heads : \A k \in History(h) : commits[k].edit <= Witnessed(c, heads)
    BY <1>1, WitnessedAll
  <2>2. \A h \in heads : \A k \in History(h) : commits[k].edit \in Nat
    BY <1>1, Ancestry, CommitTypes
  <2>3. QED
    BY <1>1, <1>2, <2>1, <2>2, ClonesAssumption, SMTT(30)
<1>4. /\ commits' = Append(commits, Commit(parents, op, t))
      /\ clock' = [clock EXCEPT ![c] = t]
      /\ UNION {History(p) : p \in Range(parents)} = History(local[c]) \cup rest
  BY <1>2
<1>5. IsInjective(parents) /\ (parents = <<>> <=> n = 0)
  BY <1>2
<1> HIDE DEF t, Made
<1>6. Added(n, parents, op, t)
  <2>1. Fits(n, parents, op, t)
    BY <1>2, <1>3, <1>5 DEF Fits
  <2>2. QED
    BY <1>1, <1>4, <2>1, Committed
<1>7. \A k \in 1..n : commits'[k] = commits[k]
  BY <1>1, <1>4, Appended
<1>8. ClockInv' /\ clock' \in [Clone -> Nat]
  <2>1. /\ clock' = [clock EXCEPT ![c] = t] /\ clock \in [Clone -> Nat]
        /\ t \in Nat /\ t <= MaxElsewhere + n + 2 /\ clock[c] <= t
    BY <1>1, <1>3, <1>4 DEF TypeOK
  <2>2. /\ clock' \in [Clone -> Nat]
        /\ \A d \in Clone : /\ clock'[d] <= MaxElsewhere + n + 2
                           /\ clock[d] \in Nat /\ clock[d] <= clock'[d]
    BY <1>1, <2>1, ClonesAssumption DEF ClockInv
  <2>3. ASSUME NEW k \in 1..(n + 1)
        PROVE  \E d \in Clone : commits'[k].edit <= clock'[d]
    <3>1. CASE k = n + 1
      BY <1>6, <2>1, <3>1 DEF Added
    <3>2. CASE k \in 1..n
      <4>1. PICK d \in Clone : commits[k].edit <= clock[d]
        BY <1>1, <3>2 DEF ClockInv
      <4>2. commits[k].edit \in Nat /\ clock[d] \in Nat /\ clock'[d] \in Nat
        BY <1>1, <2>2, <3>2, CommitTypes
      <4>3. QED
        BY <1>7, <2>2, <3>2, <4>1, <4>2
    <3>3. QED
      BY <3>1, <3>2
  <2>4. QED
    BY <1>6, <2>2, <2>3 DEF Added, ClockInv
<1>9. Write(c) => Written + 1 \in Op
  BY <1>1, <1>2
<1>10. QED
  BY <1>2, <1>4, <1>6, <1>7, <1>8, <1>9 DEF Added

\* What it adds is its own.
LEMMA CommitStep ==
  ASSUME ClonesInvariant, NEW c \in Clone, Write(c) \/ (Merges(c) /\ MergeJoin(c))
  PROVE  ClonesInvariant'
<1> SUFFICES ASSUME NEW n \in Nat, n = Len(commits)
             PROVE  ClonesInvariant'
  BY CommitTypes DEF ClonesInvariant
<1>1. /\ TypeOK /\ HistoryInv /\ RefsInv /\ SharedInv /\ ComparableInv
      /\ Hash = 0..n
  BY DEF ClonesInvariant
<1>2. /\ HistoryInv' /\ ClockInv' /\ clock' \in [Clone -> Nat]
      /\ commits' \in Seq([parents : Seq(Nat), op : Op \cup {Merge}, edit : Nat,
                           past : SUBSET Nat])
      /\ Len(commits') = n + 1 /\ \A k \in 1..n : commits'[k] = commits[k]
  BY CommitMade
<1>3. PICK rest \in SUBSET History(origin) :
        History(n + 1)' = {n + 1} \cup History(local[c]) \cup rest
  BY CommitMade
<1>4. /\ UNCHANGED <<tracking, origin>>
      /\ local' = [local EXCEPT ![c] = n + 1]
      /\ \/ UNCHANGED <<merging, listed>> /\ ~merging[c]
         \/ /\ merging' = [merging EXCEPT ![c] = FALSE]
            /\ listed' = [listed EXCEPT ![c] = [local |-> None, remote |-> None]]
  BY <1>2 DEF Write, MergeJoin, MergeDone
<1>5. /\ \A h \in 0..n : History(h)' = History(h) /\ History(h) \subseteq 1..n
      /\ Hash' = 0..(n + 1)
  BY <1>1, <1>2, Ancestry DEF History
<1>6. TypeOK'
  <2>1. local' \in [Clone -> 0..(n + 1)]
    BY <1>1, <1>4, SMTT(30) DEF TypeOK
  <2>2. /\ tracking' \in [Clone -> 0..(n + 1)] /\ origin' \in 0..(n + 1)
        /\ merging' \in [Clone -> BOOLEAN]
    <3>1. tracking' \in [Clone -> 0..(n + 1)] /\ origin' \in 0..(n + 1)
      BY <1>1, <1>4 DEF TypeOK
    <3>2. merging' \in [Clone -> BOOLEAN]
      BY <1>1, <1>4 DEF TypeOK
    <3>3. QED
      BY <3>1, <3>2
  <2>3. listed' \in [Clone -> [local : 0..(n + 1), remote : 0..(n + 1)]]
    <3>1. listed \in [Clone -> [local : 0..(n + 1), remote : 0..(n + 1)]]
      <4>1. listed \in [Clone -> [local : 0..n, remote : 0..n]]
        BY <1>1 DEF TypeOK
      <4>2. [local : 0..n, remote : 0..n] \subseteq [local : 0..(n + 1), remote : 0..(n + 1)]
        OBVIOUS
      <4>3. QED
        BY <4>1, <4>2
    <3>2. [local |-> None, remote |-> None] \in [local : 0..(n + 1), remote : 0..(n + 1)]
      OBVIOUS
    <3>3. QED
      BY <1>4, <3>1, <3>2
  <2>4. QED
    BY <1>2, <1>5, <2>1, <2>2, <2>3 DEF TypeOK
<1>7. ASSUME NEW d \in Clone
      PROVE  /\ tracking[d] \in 0..n /\ origin \in 0..n /\ local[d] \in 0..n
             /\ History(tracking[d])' = History(tracking[d])
             /\ History(origin)' = History(origin)
             /\ d # c => /\ local'[d] = local[d] /\ merging'[d] = merging[d]
                         /\ listed'[d] = listed[d]
                         /\ History(local[d])' = History(local[d])
             /\ d = c => /\ local'[d] = n + 1 /\ ~merging'[d]
                         /\ listed'[d] = [local |-> None, remote |-> None]
  <2>1. tracking[d] \in 0..n /\ origin \in 0..n /\ local[d] \in 0..n
    BY <1>1 DEF TypeOK
  <2>2. /\ History(tracking[d])' = History(tracking[d])
        /\ History(origin)' = History(origin)
    BY <1>2, <1>4, <2>1, SMTT(30) DEF History
  <2>3. CASE d # c
    <3>1. local'[d] = local[d] /\ merging'[d] = merging[d] /\ listed'[d] = listed[d]
      BY <1>1, <1>4, <2>3 DEF TypeOK
    <3>2. History(local[d])' = History(local[d])
      BY <1>2, <2>1, <3>1 DEF History
    <3>3. QED
      BY <2>1, <2>2, <2>3, <3>1, <3>2
  <2>4. CASE d = c
    BY <1>1, <1>4, <2>1, <2>2, <2>4 DEF TypeOK, RefsInv
  <2>5. QED
    BY <2>3, <2>4
<1>8. RefsInv'
  BY <1>1, <1>4, <1>7 DEF RefsInv
<1>9. History(local[c])' = {n + 1} \cup History(local[c]) \cup rest
  BY <1>3, <1>7 DEF History
<1>10. SharedInv'
  <2> SUFFICES ASSUME NEW d \in Clone, NEW e \in Clone, d # e
               PROVE  History(local[d])' \cap History(local[e])' \subseteq History(origin)
    BY <1>7 DEF SharedInv
  <2>1. History(local[d]) \cap History(local[e]) \subseteq History(origin)
    BY <1>1 DEF SharedInv
  <2>2. n + 1 \notin History(local[d]) /\ n + 1 \notin History(local[e])
    BY <1>5, <1>7
  <2>3. CASE d = c
    BY <1>7, <1>9, <2>1, <2>2, <2>3
  <2>4. CASE e = c
    BY <1>7, <1>9, <2>1, <2>2, <2>4
  <2>5. CASE d # c /\ e # c
    BY <1>7, <2>1, <2>5
  <2>6. QED
    BY <2>3, <2>4, <2>5
<1>11. ComparableInv'
  <2> SUFFICES ASSUME NEW d \in Clone, local'[d] \in History(origin)
               PROVE  /\ Comparable(local[d], tracking[d])'
                      /\ Comparable(local[d], listed[d].remote)'
    BY <1>7 DEF ComparableInv
  <2>1. d # c
    BY <1>5, <1>7
  <2>2. /\ Comparable(local[d], tracking[d]) /\ Comparable(local[d], listed[d].remote)
        /\ listed[d].remote \in 0..n
    BY <1>1, <1>7, <2>1 DEF ComparableInv, TypeOK
  <2>3. History(listed[d].remote)' = History(listed[d].remote)
    BY <1>2, <1>7, <2>1, <2>2, SMTT(30) DEF History
  <2>4. QED
    BY <1>4, <1>7, <2>1, <2>2, <2>3 DEF Comparable
<1>12. QED
  BY <1>2, <1>6, <1>8, <1>10, <1>11 DEF ClonesInvariant

\* Every step keeps the invariant.
LEMMA ClonesStep ==
  ASSUME ClonesInvariant, [Next]_vars
  PROVE  ClonesInvariant'
<1>1. ASSUME NEW c \in Clone,
             \/ Write(c) \/ Elsewhere(c) \/ Fetch(c) \/ Push(c)
             \/ MergeList(c) \/ MergeOne(c)
      PROVE  ClonesInvariant'
  <2>1. CASE Write(c)
    BY <2>1, CommitStep
  <2>2. CASE Fetch(c)
    BY <2>2, FetchStep
  <2>3. CASE Push(c)
    BY <2>3, PushStep
  <2>4. CASE MergeList(c)
    BY <2>4, MergeListStep
  <2>5. CASE MergeOne(c)
    <3>1. CASE Merges(c) /\ MergeJoin(c)
      BY <3>1, CommitStep
    <3>2. CASE ~(Merges(c) /\ MergeJoin(c))
      BY <2>5, <3>2, MoveStep DEF MergeOne, MergeInvalid, Merges
    <3>3. QED
      BY <3>1, <3>2
  <2>6. CASE Elsewhere(c)
    BY <2>6, ElsewhereStep
  <2>7. QED
    BY <1>1, <2>1, <2>2, <2>3, <2>4, <2>5, <2>6
<1>2. CASE UNCHANGED vars
  <2>1. HistoryInv'
    BY <1>2, NoCommit DEF vars
  <2>2. TypeOK' /\ ClockInv'
    BY <1>2 DEF vars, ClonesInvariant, TypeOK, ClockInv
  <2>3. RefsInv' /\ SharedInv' /\ ComparableInv'
    BY <1>2 DEF vars, ClonesInvariant, RefsInv, SharedInv, ComparableInv, Comparable, History
  <2>4. QED
    BY <2>1, <2>2, <2>3 DEF ClonesInvariant
<1>3. QED
  BY <1>1, <1>2 DEF Next

-----------------------------------------------------------------------------
\* However the clones write, fetch, push and merge, the invariant holds.
THEOREM ClonesInvariance == Spec => []ClonesInvariant
<1>1. Init => ClonesInvariant
  BY DEF Init, ClonesInvariant, TypeOK, HistoryInv, ClockInv, RefsInv, SharedInv,
         ComparableInv, History
<1>2. ClonesInvariant /\ [Next]_vars => ClonesInvariant'
  BY ClonesStep
<1>3. QED
  BY <1>1, <1>2, PTL DEF Spec

\* Every variable of the clones keeps its type.
THEOREM ClonesTyped == Spec => []TypeOK
<1>1. ClonesInvariant => TypeOK
  BY DEF ClonesInvariant
<1>2. QED
  BY <1>1, ClonesInvariance, PTL

\* Packs are compiled in an order that follows the history (readAt sorts them by
\* edit time alone), because a writer's clock has witnessed all that it read.
THEOREM CompiledInOrder == Spec => []CausalOrder
<1>1. ClonesInvariant => CausalOrder
  <2> SUFFICES ASSUME ClonesInvariant, NEW c \in Clone,
                      NEW k \in Packs(local[c]), NEW l \in Packs(local[c]),
                      k # l, k \in History(l)
               PROVE  commits[k].edit < commits[l].edit
    BY DEF CausalOrder, CompiledBefore
  <2>1. l \in 1..Len(commits)
    BY Ancestry DEF ClonesInvariant, TypeOK, Packs
  <2>2. QED
    BY <2>1 DEF ClonesInvariant, HistoryInv
<1>2. QED
  BY <1>1, ClonesInvariance, PTL

\* What the reader makes of a commit depends on nothing but how far apart the
\* packs of its history are.
ReadRule ==
  \A h \in 1..Len(commits) : Accepts(h) <=> \A k \in History(h) : ~Jumps(k)

LEMMA Rules == ASSUME ClonesInvariant PROVE ReadRule
  BY ReadOnce DEF ClonesInvariant, ReadRule

\* Whatever histories the clones have joined, the walk and the sort of readAt reach
\* each commit of the history once, and put each after its parents and later than
\* them in Lamport time: its checks refuse a pack that jumps, and nothing else.
THEOREM ReadsAll == Spec => []Readable
<1>1. ClonesInvariant => Readable
  <2> SUFFICES ASSUME ClonesInvariant, NEW h \in Heads
               PROVE  /\ IsInjective(ReadOrder(h)) /\ Range(ReadOrder(h)) = History(h)
                      /\ Accepted(ReadOrder(h)) <=> \A k \in History(h) : ~Jumps(k)
    BY DEF Readable
  <2>1. h \in 1..Len(commits)
    BY DEF Heads, ClonesInvariant, TypeOK
  <2>2. QED
    BY <2>1, ReadOnce DEF ClonesInvariant
<1>2. QED
  BY <1>1, ClonesInvariance, PTL

\* A merge refuses what a fetch brought if a pack of it jumps, and only then.
THEOREM MergesAll ==
  Spec => [](\A c \in Clone :
               merging[c] => (Merges(c) <=> \A k \in History(listed[c].remote) : ~Jumps(k)))
<1>1. ClonesInvariant =>
        \A c \in Clone :
          merging[c] => (Merges(c) <=> \A k \in History(listed[c].remote) : ~Jumps(k))
  <2> SUFFICES ASSUME ClonesInvariant, NEW c \in Clone, merging[c]
               PROVE  Accepts(listed[c].remote) <=>
                        \A k \in History(listed[c].remote) : ~Jumps(k)
    BY DEF Merges
  <2>1. listed[c].remote \in 1..Len(commits)
    BY Listed DEF Hash, None
  <2>2. QED
    BY <2>1, ReadOnce DEF ClonesInvariant
<1>2. QED
  BY <1>1, ClonesInvariance, PTL

\* Until some clock has passed the distance allowed (a million edits in the code),
\* nothing that any clone or the remote has is refused.
THEOREM ReadsYoung ==
  Spec => []((\A c \in Clone : clock[c] <= MaxJump) => \A h \in Heads : Accepts(h))
<1>1. ClonesInvariant => ((\A c \in Clone : clock[c] <= MaxJump) => \A h \in Heads : Accepts(h))
  <2> SUFFICES ASSUME ClonesInvariant, \A c \in Clone : clock[c] <= MaxJump, NEW h \in Heads
               PROVE  Accepts(h)
    OBVIOUS
  <2>1. h \in 1..Len(commits) /\ TypeOK /\ HistoryInv
    BY DEF Heads, ClonesInvariant, TypeOK
  <2>2. ASSUME NEW k \in History(h)
        PROVE  ~Jumps(k)
    <3>1. k \in 1..Len(commits)
      BY <2>1, Nested, Ancestry DEF Hash
    <3>2. PICK c \in Clone : commits[k].edit <= clock[c]
      BY <3>1 DEF ClonesInvariant, ClockInv
    <3>3. /\ clock[c] \in Nat /\ clock[c] <= MaxJump /\ MaxJump \in Nat
          /\ commits[k].edit \in Nat
      BY <2>1, <3>1, CommitTypes, ClonesAssumption DEF TypeOK
    <3>4. \A p \in Range(Parents(k)) : commits[p].edit \in Nat
      BY <2>1, <3>1, Parentage, CommitTypes
    <3>5. QED
      BY <3>2, <3>3, <3>4 DEF Jumps
  <2>3. QED
    BY <2>1, <2>2, ReadOnce
<1>2. QED
  BY <1>1, ClonesInvariance, PTL

\* What a merge makes of a clone's issue can be read: it takes what it could read,
\* and a merge commit may be as far ahead of its parents as it likes.
THEOREM PullsRead == Spec => PullsReadable
<1>1. ClonesInvariant => ReadRule
  BY Rules
<1>2. ASSUME ClonesInvariant, ClonesInvariant', ReadRule, ReadRule', [Next]_vars,
             NEW c \in Clone, NEW h \in Hash', merging[c], h # local[c], h = local'[c]
      PROVE  Accepts(h)'
  <2> SUFFICES ASSUME NEW n \in Nat, n = Len(commits)
               PROVE  Accepts(h)'
    BY <1>2, CommitTypes DEF ClonesInvariant
  <2>1. MergeOne(c)
    <3>1. local[c] # local'[c] /\ local \in [Clone -> Hash]
      BY <1>2 DEF ClonesInvariant, TypeOK
    <3>2. PICK d \in Clone : Write(d) \/ MergeOne(d)
      BY <1>2, <3>1 DEF Next, vars, Elsewhere, Fetch, Push, MergeList
    <3>3. d = c
      BY <3>1, <3>2 DEF Write, MergeOne, MergeInvalid, MergeNew, MergeNothing, MergeForward,
                        MergeError, MergeJoin
    <3>4. QED
      BY <1>2, <3>2, <3>3 DEF Write
  <2>2. Merges(c) /\ (MergeNew(c) \/ MergeForward(c) \/ MergeJoin(c))
    BY <1>2, <2>1 DEF MergeOne, MergeInvalid, MergeNothing, MergeError
  <2>3. /\ listed[c].remote \in 1..n /\ local[c] \in 0..n /\ listed[c].local = local[c]
        /\ TypeOK /\ HistoryInv
    BY <1>2, Listed DEF ClonesInvariant
  <2>4. \A k \in History(listed[c].remote) : k \in 1..n /\ ~Jumps(k)
    BY <1>2, <2>2, <2>3, Ancestry DEF Merges, ReadRule
  <2>5. CASE MergeNew(c) \/ MergeForward(c)
    <3>1. h = listed[c].remote /\ UNCHANGED commits
      BY <1>2, <2>3, <2>5 DEF MergeNew, MergeForward, ClonesInvariant, TypeOK
    <3>2. \A k \in History(h)' : ~Jumps(k)'
      BY <2>4, <3>1 DEF History, Jumps, Parents
    <3>3. h \in 1..Len(commits')
      BY <2>3, <3>1
    <3>4. QED
      BY <1>2, <3>2, <3>3 DEF ReadRule
  <2>6. CASE MergeJoin(c)
    <3> DEFINE m == Commit(<<listed[c].local, listed[c].remote>>, Merge,
                           Witnessed(c, {listed[c].local, listed[c].remote}) + 1)
    <3>1. commits' = Append(commits, m) /\ local' = [local EXCEPT ![c] = Len(commits')]
      BY <2>6 DEF MergeJoin
    <3>2. /\ Len(commits') = n + 1 /\ commits'[n + 1] = m
          /\ \A k \in 1..n : commits'[k] = commits[k]
      BY <2>3, <3>1, Appended
    <3>3. h = n + 1
      BY <1>2, <3>1, <3>2 DEF ClonesInvariant, TypeOK
    <3>4. local[c] \in 1..n /\ \A k \in History(local[c]) : k \in 1..n /\ ~Jumps(k)
      BY <1>2, <2>3, <2>6, Ancestry DEF MergeJoin, Diverged, ReadRule
    <3>5. ~Jumps(n + 1)'
      BY <3>2 DEF Jumps, Parents, Commit
    <3>6. History(n + 1)' = {n + 1} \cup History(local[c]) \cup History(listed[c].remote)
      <4>1. m.past = {n + 1} \cup UNION {History(p) : p \in {local[c], listed[c].remote}}
        BY <2>3 DEF Commit, Range
      <4>2. History(n + 1)' = m.past
        BY <3>2 DEF History, None
      <4>3. QED
        BY <4>1, <4>2
    <3>7. ASSUME NEW k \in 1..n, ~Jumps(k)
          PROVE  ~Jumps(k)'
      <4>1. Range(Parents(k)) \subseteq 1..n /\ Parents(k)' = Parents(k)
        BY <2>3, <3>2, Parentage DEF Parents
      <4>2. QED
        BY <3>2, <3>7, <4>1 DEF Jumps
    <3>8. \A k \in History(h)' : ~Jumps(k)'
      BY <2>4, <3>3, <3>4, <3>5, <3>6, <3>7
    <3>9. QED
      BY <1>2, <3>2, <3>3, <3>8 DEF ReadRule
  <2>7. QED
    BY <2>2, <2>5, <2>6
<1>3. ClonesInvariant /\ ClonesInvariant' /\ ReadRule /\ ReadRule' /\ [Next]_vars =>
        [\A c \in Clone, h \in Hash' :
           merging[c] /\ h # local[c] /\ h = local'[c] => Accepts(h)']_vars
  BY <1>2
<1>4. QED
  BY <1>1, <1>3, ClonesInvariance, PTL DEF Spec, PullsReadable

-----------------------------------------------------------------------------
\* A clone's own commit: an operation that nobody has, or what it learns from the
\* remote by joining the two histories.
LEMMA CommitKnown ==
  ASSUME ClonesInvariant, NEW c \in Clone, Write(c) \/ (Merges(c) /\ MergeJoin(c))
  PROVE  Known!Next
<1> SUFFICES ASSUME NEW n \in Nat, n = Len(commits)
             PROVE  Known!Next
  BY CommitTypes DEF ClonesInvariant
<1>1. /\ TypeOK /\ HistoryInv /\ Written \in Nat /\ c # "origin"
      /\ c \in Replica /\ "origin" \in Replica /\ origin' = origin
      /\ local' = [local EXCEPT ![c] = Len(commits')]
      /\ Hash = 0..n
  BY WrittenType DEF ClonesInvariant, Write, MergeJoin, MergeDone, Replica
<1>2. /\ Len(commits') = n + 1 /\ \A k \in 1..n : commits'[k] = commits[k]
      /\ commits'[n + 1].op = IF Write(c) THEN Written + 1 ELSE Merge
      /\ Write(c) => Written + 1 \in Op
  BY CommitMade
<1>3. PICK rest \in SUBSET History(origin) :
        /\ History(n + 1)' = {n + 1} \cup History(local[c]) \cup rest
        /\ Write(c) => rest = {}
  BY CommitMade
<1>4. \A h \in 0..n : History(h) \subseteq 1..n /\ History(h)' = History(h) /\ OpsAt(h)' = OpsAt(h)
  <2> SUFFICES ASSUME NEW h \in 0..n
               PROVE  History(h) \subseteq 1..n /\ History(h)' = History(h) /\ OpsAt(h)' = OpsAt(h)
    OBVIOUS
  <2>1. History(h) \subseteq 1..n
    BY <1>1, Ancestry
  <2>2. History(h)' = History(h)
    BY <1>2 DEF History
  <2>3. QED
    BY <1>2, <2>1, <2>2 DEF OpsAt
<1> DEFINE part == {commits[k].op : k \in rest} \ {Merge}
           new == IF Write(c) THEN {Written + 1} ELSE part
<1>5. local[c] \in 0..n /\ origin \in 0..n
  BY <1>1 DEF TypeOK
<1>6. OpsAt(n + 1)' = OpsAt(local[c]) \cup new
  <2>1. OpsAt(n + 1)' = {commits'[k].op : k \in {n + 1} \cup History(local[c]) \cup rest} \ {Merge}
    BY <1>3 DEF OpsAt
  <2>2. rest \subseteq 1..n /\ History(local[c]) \subseteq 1..n
    BY <1>4, <1>5
  <2>3. OpsAt(n + 1)' = ({commits'[n + 1].op} \cup {commits[k].op : k \in History(local[c])}
                         \cup {commits[k].op : k \in rest}) \ {Merge}
    BY <1>2, <2>1, <2>2
  <2>4. OpsAt(local[c]) = {commits[k].op : k \in History(local[c])} \ {Merge}
    BY DEF OpsAt
  <2>5. CASE Write(c)
    <3>1. rest = {} /\ commits'[n + 1].op = Written + 1 /\ Written + 1 # Merge
      BY <1>1, <1>2, <1>3, <2>5
    <3>2. {commits[k].op : k \in rest} = {}
      BY <3>1
    <3>3. QED
      BY <2>3, <2>4, <2>5, <3>1, <3>2
  <2>6. CASE ~Write(c)
    <3>1. commits'[n + 1].op = Merge
      BY <1>2, <2>6
    <3>2. QED
      BY <2>3, <2>4, <2>6, <3>1
  <2>7. QED
    BY <2>5, <2>6
<1>7. ASSUME NEW r \in Replica
      PROVE  Knows'[r] = IF r = c THEN Knows[r] \cup new ELSE Knows[r]
  <2>1. CASE r = "origin"
    <3>1. OpsAt(origin)' = OpsAt(origin)
      BY <1>1, <1>4, <1>5 DEF OpsAt, History
    <3>2. QED
      BY <1>1, <2>1, <3>1 DEF Knows
  <2>2. CASE r = c
    <3>1. OpsAt(local[c])' = OpsAt(n + 1)'
      BY <1>1, <1>2 DEF OpsAt, History, TypeOK
    <3>2. QED
      BY <1>1, <1>6, <2>2, <3>1 DEF Knows
  <2>3. CASE r # c /\ r # "origin"
    <3>1. r \in Clone /\ local[r] \in 0..n /\ local'[r] = local[r]
      BY <1>1, <2>3 DEF Replica, TypeOK
    <3>2. OpsAt(local[r])' = OpsAt(local[r])
      BY <1>4, <3>1 DEF OpsAt, History
    <3>3. QED
      BY <2>3, <3>2 DEF Knows
  <2>4. QED
    BY <2>1, <2>2, <2>3
<1>8. Knows' = [Knows EXCEPT ![c] = @ \cup new]
  BY <1>1, <1>7 DEF Knows
<1>9. CASE Write(c)
  <2>1. \A s \in Replica : Written + 1 \notin Knows[s]
    <3> SUFFICES ASSUME NEW h \in 0..n
                 PROVE  Written + 1 \notin OpsAt(h)
      BY <1>1, <1>5 DEF Knows, Replica, TypeOK
    <3>1. \A k \in 1..n : commits[k].op \in Nat /\ commits[k].op <= Written
      BY <1>1, CommitTypes DEF HistoryInv
    <3>2. QED
      BY <1>1, <1>4, <3>1 DEF OpsAt
  <2>2. PICK o \in Op : o = Written + 1
    BY <1>2, <1>9
  <2>3. Known!Record(c, o)
    BY <1>8, <1>9, <2>1, <2>2 DEF Known!Record, Knows
  <2>4. QED
    BY <1>1, <2>3 DEF Known!Next
<1>10. CASE ~Write(c)
  <2>1. part \in SUBSET Knows["origin"]
    BY <1>1 DEF Knows, OpsAt
  <2>2. Known!Learn(c, "origin")
    BY <1>8, <1>10, <2>1 DEF Known!Learn, Knows
  <2>3. QED
    BY <1>1, <2>2 DEF Known!Next
<1>11. QED
  BY <1>9, <1>10

\* A ref moves: its replica learns what the other side knew.
LEMMA MoveKnown ==
  ASSUME ClonesInvariant, NEW c \in Clone,
         \/ Push(c)
         \/ Merges(c) /\ (MergeNew(c) \/ MergeForward(c))
  PROVE  Known!Next
<1>1. /\ TypeOK /\ HistoryInv /\ UNCHANGED commits /\ c # "origin"
      /\ c \in Replica /\ "origin" \in Replica
      /\ \A h : OpsAt(h)' = OpsAt(h)
      /\ local[c] \in Hash /\ origin \in Hash
  BY NoCommit DEF ClonesInvariant, Push, MergeNew, MergeForward, Replica, TypeOK
<1>2. \A h, k : History(h) \subseteq History(k) => OpsAt(h) \subseteq OpsAt(k)
  BY DEF OpsAt
<1>3. CASE Push(c)
  <2>1. History(origin) \subseteq History(local[c]) /\ origin' = local[c] /\ local' = local
    BY <1>1, <1>3, Nested DEF Push
  <2>2. OpsAt(origin) \subseteq OpsAt(local[c])
    BY <1>2, <2>1
  <2>3. Knows' = [Knows EXCEPT !["origin"] = @ \cup OpsAt(local[c])]
    <3>1. \A r \in Replica : Knows'[r] = IF r = "origin" THEN OpsAt(local[c]) ELSE Knows[r]
      BY <1>1, <2>1 DEF Knows, OpsAt, History
    <3>2. QED
      BY <1>1, <2>2, <3>1 DEF Knows
  <2>4. Known!Learn("origin", c)
    <3>1. OpsAt(local[c]) \in SUBSET Knows[c]
      BY <1>1 DEF Knows
    <3>2. QED
      BY <2>3, <3>1 DEF Known!Learn, Knows
  <2>5. QED
    BY <1>1, <2>4 DEF Known!Next
<1>4. CASE Merges(c) /\ (MergeNew(c) \/ MergeForward(c))
  <2> DEFINE remote == listed[c].remote
  <2>1. /\ remote \in Hash /\ History(remote) \subseteq History(origin)
        /\ local[c] \in History(remote) \cup {None}
        /\ local' = [local EXCEPT ![c] = remote] /\ origin' = origin
    BY <1>4, Listed, Forward DEF Merges, MergeNew, MergeForward, MergeDone
  <2>2. History(local[c]) \subseteq History(remote)
    BY <1>1, <2>1, Nested
  <2>3. OpsAt(local[c]) \subseteq OpsAt(remote) /\ OpsAt(remote) \subseteq OpsAt(origin)
    BY <1>2, <2>1, <2>2
  <2>4. Knows' = [Knows EXCEPT ![c] = @ \cup OpsAt(remote)]
    <3>1. \A r \in Replica : Knows'[r] = IF r = c THEN OpsAt(remote) ELSE Knows[r]
      <4>1. \A d \in Clone : local'[d] = IF d = c THEN remote ELSE local[d]
        BY <1>1, <2>1 DEF TypeOK
      <4>2. QED
        BY <1>1, <2>1, <4>1, ZenonT(40) DEF Knows, OpsAt, History, Replica
    <3>2. QED
      BY <1>1, <2>3, <3>1 DEF Knows
  <2>5. Known!Learn(c, "origin")
    <3>1. OpsAt(remote) \in SUBSET Knows["origin"]
      BY <1>1, <2>3 DEF Knows
    <3>2. QED
      BY <2>4, <3>1 DEF Known!Learn, Knows
  <2>6. QED
    BY <1>1, <2>5 DEF Known!Next
<1>5. QED
  BY <1>3, <1>4

\* The clones implement Gossip: every commit, push and merge, decided on whatever
\* was listed or fetched before, adds to what its replica knows.
THEOREM NothingIsForgotten == Spec => NothingForgotten
<1>1. Init => Known!Init
  <2> SUFFICES ASSUME Init
               PROVE  Known!Init
    OBVIOUS
  <2>1. OpsAt(None) = {}
    BY DEF OpsAt, History
  <2>2. origin = None /\ \A c \in Clone : local[c] = None
    BY DEF Init
  <2>3. QED
    BY <2>1, <2>2 DEF Known!Init, Knows, Replica
<1>2. ASSUME ClonesInvariant, [Next]_vars
      PROVE  [Known!Next]_Knows
  <2>1. ASSUME UNCHANGED <<commits, local, origin>>
        PROVE  Knows' = Knows
    BY <2>1 DEF Knows, OpsAt, History
  <2>2. ASSUME NEW c \in Clone,
               \/ Write(c) \/ Elsewhere(c) \/ Fetch(c) \/ Push(c)
               \/ MergeList(c) \/ MergeOne(c)
        PROVE  Known!Next \/ Knows' = Knows
    <3>1. CASE Write(c)
      BY <1>2, <3>1, CommitKnown
    <3>2. CASE Push(c)
      BY <1>2, <3>2, MoveKnown
    <3>3. CASE Elsewhere(c) \/ Fetch(c) \/ MergeList(c)
      BY <2>1, <3>3 DEF Elsewhere, Fetch, MergeList
    <3>4. CASE Merges(c) /\ MergeJoin(c)
      BY <1>2, <3>4, CommitKnown
    <3>5. CASE Merges(c) /\ (MergeNew(c) \/ MergeForward(c))
      BY <1>2, <3>5, MoveKnown
    <3>6. CASE MergeNothing(c) \/ MergeError(c) \/ MergeInvalid(c)
      BY <2>1, <3>6 DEF MergeNothing, MergeError, MergeInvalid, MergeDone
    <3>7. QED
      BY <2>2, <3>1, <3>2, <3>3, <3>4, <3>5, <3>6 DEF MergeOne
  <2>3. CASE UNCHANGED vars
    BY <2>1, <2>3 DEF vars, Knows
  <2>4. QED
    BY <1>2, <2>2, <2>3 DEF Next, Knows
<1>3. QED
  BY <1>1, <1>2, ClonesInvariance, PTL DEF Spec, NothingForgotten, Known!Spec

=============================================================================
