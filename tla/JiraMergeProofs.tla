--------------------------- MODULE JiraMergeProofs ---------------------------
(***************************************************************************)
(* Proofs about JiraMerge, for any fields, any number of edits and any     *)
(* faults: a base is a value that Jira held, a value set in Jira is not    *)
(* overwritten unseen, and no value of a person is replaced in silence.    *)
(***************************************************************************)
EXTENDS JiraMergeInv, TLAPS

-----------------------------------------------------------------------------
(* What there is.                                                          *)

\* A field.
LEMMA FieldIs ==
  ASSUME TypeOK
  PROVE  /\ field.multi \in BOOLEAN /\ Empty \in field.values /\ field.values \subseteq Value
         /\ Unknown \notin field.values /\ None \notin field.values /\ Unknown # None
         /\ \A v \in field.values : field.norm[v] \in field.values
         /\ field.multi => field.values = SUBSET (UNION field.values)
<1>1. field \in Fields /\ Fields \subseteq Field
  BY MergeAssumption DEF TypeOK
<1>2. field.multi \in BOOLEAN /\ field.values \subseteq Value
  BY <1>1 DEF Field
<1>3. /\ Empty \in field.values /\ \A v \in field.values : field.norm[v] \in field.values
      /\ field.multi => field.values = SUBSET (UNION field.values)
  <2>1. Empty \in field.values
    BY <1>1, MergeAssumption
  <2>2. \A v \in field.values : field.norm[v] \in field.values
    BY <1>1, MergeAssumption
  <2>3. ASSUME field.multi
        PROVE  field.values = SUBSET (UNION field.values)
    BY <1>1, <2>3, MergeAssumption
  <2>4. QED
    BY <2>1, <2>2, <2>3
<1>4. Unknown \notin field.values /\ None \notin field.values /\ Unknown # None
  BY <1>2, MergeAssumption
<1>5. QED
  BY <1>2, <1>3, <1>4

\* Jira's versions.
LEMMA JiraIs ==
  ASSUME TypeOK
  PROVE  /\ Now \in Nat /\ 1 <= Now /\ floor \in 1..Now /\ floor \in Nat
         /\ \A i \in 1..Now : jira[i].val \in field.values /\ jira[i].by \in {"jira", "touch", "sync"}
<1> DEFINE Version == [val : field.values, by : {"jira", "touch", "sync"}]
<1>1. jira \in Seq(Version) /\ floor \in 1..Now
  BY DEF TypeOK
<1>2. Len(jira) \in Nat /\ \A i \in 1..Len(jira) : jira[i] \in Version
  <2> HIDE DEF Version
  <2>1. QED
    BY <1>1
<1>3. \A v \in Version : v.val \in field.values /\ v.by \in {"jira", "touch", "sync"}
  OBVIOUS
<1> HIDE DEF Version
<1>4. QED
  BY <1>1, <1>2, <1>3 DEF Now

\* A base.
LEMMA BaseIs ==
  ASSUME NEW b \in Base
  PROVE  /\ b.has \in BOOLEAN /\ b.val \in {Unknown} \cup field.values /\ b.ver \in Nat
         /\ b.sent \in {None} \cup field.values /\ b.wrote \in Nat /\ b.at \in Nat /\ b.fresh \in BOOLEAN
  BY DEF Base

\* A run.
LEMMA RunIs ==
  ASSUME TypeOK, run # Idle
  PROVE  /\ run \in Running
         /\ run.pc \in {"write", "reread", "commit"} /\ run.b \in Base /\ run.ver \in 1..Now /\ run.ver \in Nat
         /\ run.out \in {None} \cup field.values
         /\ run.wrote \in BOOLEAN /\ run.echo \in BOOLEAN /\ run.young \in BOOLEAN
<1>1. run \in Running
  BY DEF TypeOK
<1>2. /\ run.pc \in {"write", "reread", "commit"} /\ run.b \in Base /\ run.ver \in 1..Len(jira)
      /\ run.out \in {None} \cup field.values
      /\ run.wrote \in BOOLEAN /\ run.echo \in BOOLEAN /\ run.young \in BOOLEAN
  BY <1>1 DEF Running
<1>3. Len(jira) \in Nat
  BY JiraIs DEF Now
<1>4. QED
  BY <1>1, <1>2, <1>3 DEF Now

\* No run is idle at a step of it.
LEMMA RunningIs ==
  ASSUME TypeOK
  PROVE  /\ run.pc \in {"write", "reread", "commit"} => run # Idle
         /\ \A r \in Running : r # Idle
<1>1. Idle.pc = "idle"
  BY DEF Idle
<1>2. \A r \in Running : r.pc \in {"write", "reread", "commit"}
  BY DEF Running
<1>3. QED
  BY <1>1, <1>2

\* The parts of the invariant.
LEMMA Parts ==
  ASSUME MergeInvariant
  PROVE  TypeOK /\ TouchInv /\ OrderInv /\ RunInv /\ ObservedInv /\ BaseInv /\ SyncInv /\ marker \in Base
  BY DEF MergeInvariant, TypeOK

-----------------------------------------------------------------------------
(* The rules of the merge.                                                 *)

\* The base that Jira's value becomes.
Based(b, v, ver) == [b EXCEPT !.has = TRUE, !.val = v, !.ver = ver]

\* A base that takes a value keeps what it waits for.
LEMMA BasedIs ==
  ASSUME NEW b \in Base, NEW v \in {Unknown} \cup field.values, NEW ver \in Nat
  PROVE  /\ Based(b, v, ver) \in Base
         /\ Based(b, v, ver).has /\ Based(b, v, ver).val = v /\ Based(b, v, ver).ver = ver
         /\ Based(b, v, ver).sent = b.sent /\ Based(b, v, ver).wrote = b.wrote
         /\ Based(b, v, ver).at = b.at /\ Based(b, v, ver).fresh = b.fresh
  BY DEF Base, Based

\* A merge of sets makes a set of the field.
LEMMA MergeSetIs ==
  ASSUME TypeOK, field.multi, NEW b \in Base, b.val # Unknown, NEW l \in field.values, NEW r \in field.values
  PROVE  MergeSet(b, l, r) \in field.values
<1>1. b.val \in field.values /\ b.has \in BOOLEAN
  BY BaseIs
<1>2. MergeSet(b, l, r) \subseteq UNION field.values
  BY <1>1 DEF MergeSet, Empty
<1>3. QED
  BY <1>2, FieldIs

\* fresh: the base stays, or takes Jira's value or the empty one where it had none.
LEMMA FreshenedIs ==
  ASSUME TypeOK, NEW b \in Base, NEW l \in field.values, NEW r \in field.values, NEW ver \in Nat,
         NEW f, f = Freshened(b, l, r, ver)
  PROVE  /\ f \in Base /\ ~f.fresh /\ f.sent = b.sent /\ f.wrote = b.wrote /\ f.at = b.at
         /\ ~b.fresh => f = b
         /\ \/ f.has = b.has /\ f.val = b.val /\ f.ver = b.ver
            \/ /\ ~b.has /\ b.sent = None /\ f.has /\ f.ver = ver
               /\ f.val = r \/ (f.val = Empty /\ l = Empty)
<1>1. Empty \in field.values
  BY FieldIs
<1>2. CASE ~b.fresh
  BY <1>2, BaseIs DEF Freshened
<1>3. CASE b.fresh /\ (b.has \/ b.sent # None)
  <2>1. f = [b EXCEPT !.fresh = FALSE]
    BY <1>3 DEF Freshened
  <2>2. QED
    BY <1>3, <2>1 DEF Base
<1>4. CASE b.fresh /\ ~b.has /\ b.sent = None
  <2>1. f = [b EXCEPT !.has = TRUE, !.val = IF l = Empty THEN Empty ELSE r, !.ver = ver, !.fresh = FALSE]
    BY <1>4 DEF Freshened
  <2>2. CASE l = Empty
    <3>1. f = [b EXCEPT !.has = TRUE, !.val = Empty, !.ver = ver, !.fresh = FALSE]
      BY <2>1, <2>2
    <3>2. QED
      BY <1>1, <1>4, <2>2, <3>1 DEF Base
  <2>3. CASE l # Empty
    <3>1. f = [b EXCEPT !.has = TRUE, !.val = r, !.ver = ver, !.fresh = FALSE]
      BY <2>1, <2>3
    <3>2. QED
      BY <1>4, <3>1 DEF Base
  <2>4. QED
    BY <2>2, <2>3
<1>5. QED
  BY <1>2, <1>3, <1>4, BaseIs

\* confirm: a write that a GET does not show is waited for while it is young;
\* else the base of a scalar is what was written, or nobody's value.
LEMMA ConfirmIs ==
  ASSUME TypeOK, NEW b \in Base, NEW ver \in 1..Now, NEW echo, NEW young,
         NEW c, c = Confirm(b, ver, echo, young)
  PROVE  /\ c.b \in Base /\ c.skip \in BOOLEAN /\ (~b.fresh => ~c.b.fresh) /\ (b.has => c.b.has)
         /\ c.skip => c.b = b /\ b.sent # None /\ jira[ver].val # b.sent /\ ver <= b.wrote /\ young
         /\ b.sent = None => c.b = b /\ ~c.skip
         /\ b.sent # None /\ ~c.skip =>
              /\ c.b.sent = None /\ c.b.at = 0
              /\ jira[ver].val = b.sent \/ b.wrote < ver \/ ~young
              /\ field.multi => c.b.has = b.has /\ c.b.val = b.val /\ c.b.ver = b.ver
              /\ ~field.multi =>
                   /\ c.b.has /\ c.b.ver = ver
                   /\ \/ c.b.val = b.sent /\ (jira[ver].val = b.sent \/ (b.wrote < ver /\ echo))
                      \/ c.b.val = Unknown
<1> DEFINE landed == ver > b.wrote
           held   == jira[ver].val = b.sent
           stale  == ~landed /\ young
           v      == IF held \/ (landed /\ echo) THEN b.sent ELSE Unknown
           based  == IF field.multi THEN b ELSE [b EXCEPT !.has = TRUE, !.ver = ver, !.val = v]
           d      == [based EXCEPT !.sent = None, !.wrote = 0, !.at = 0]
<1>1. c = IF b.sent = None THEN [b |-> b, skip |-> FALSE]
          ELSE IF ~held /\ stale THEN [b |-> b, skip |-> TRUE]
          ELSE [b |-> d, skip |-> FALSE]
  BY DEF Confirm
<1>2. ver \in Nat /\ b.wrote \in Nat /\ b.fresh \in BOOLEAN /\ b.has \in BOOLEAN /\ field.multi \in BOOLEAN
      /\ b.sent \in {None} \cup field.values
  BY JiraIs, BaseIs, FieldIs
<1>3. CASE b.sent = None
  <2>1. c.b = b /\ c.skip = FALSE
    BY <1>1, <1>3
  <2>2. QED
    BY <1>2, <1>3, <2>1
<1>4. CASE b.sent # None /\ ~held /\ stale
  <2>1. c.b = b /\ c.skip = TRUE
    BY <1>1, <1>4
  <2>2. jira[ver].val # b.sent /\ ver <= b.wrote /\ young
    BY <1>2, <1>4
  <2>3. QED
    <3> HIDE DEF held, stale, landed, d, based, v
    <3>1. QED
      BY <1>2, <1>4, <2>1, <2>2
<1>5. CASE b.sent # None /\ ~(~held /\ stale)
  <2>1. c.b = d /\ c.skip = FALSE
    <3> HIDE DEF held, stale, d
    <3>1. c = [b |-> d, skip |-> FALSE]
      BY <1>1, <1>5
    <3>2. QED
      BY <3>1
  <2>2. held \/ b.wrote < ver \/ ~young
    BY <1>2, <1>5
  <2>3. v \in {Unknown} \cup field.values /\ ((v = b.sent /\ (held \/ (b.wrote < ver /\ echo))) \/ v = Unknown)
    BY <1>2, <1>5
  <2>4. based \in Base /\ based.fresh = b.fresh
        /\ (field.multi => based = b) /\ (~field.multi => based.has /\ based.ver = ver /\ based.val = v)
    <3> HIDE DEF v
    <3>1. CASE field.multi
      BY <3>1
    <3>2. CASE ~field.multi
      BY <1>2, <2>3, <3>2 DEF Base
    <3>3. QED
      BY <1>2, <3>1, <3>2
  <2>5. /\ d \in Base /\ d.sent = None /\ d.at = 0 /\ d.fresh = based.fresh /\ d.has = based.has /\ d.val = based.val
        /\ d.ver = based.ver
    <3> HIDE DEF based
    <3>1. QED
      BY <2>4 DEF Base
  <2>6. QED
    <3> HIDE DEF d, based, v
    <3>1. QED
      BY <1>2, <1>5, <2>1, <2>2, <2>3, <2>4, <2>5
<1>6. QED
  BY <1>3, <1>4, <1>5

\* decide: a value is taken where the two differ, and with no conflict only if the
\* issue has the base's or none; it is given only if Jira has the base's.
LEMMA DecideIs ==
  ASSUME TypeOK, NEW b \in Base, NEW l \in field.values, NEW r \in field.values,
         NEW d, d = Decide(b, l, r)
  PROVE  /\ d.do \in {"agree", "take", "give"} /\ d.conflict \in BOOLEAN
         /\ d.do = "give" => b.has /\ r = b.val /\ l # r
         /\ d.do # "give" /\ l # r => d.conflict \/ (b.has /\ l = b.val /\ r # b.val) \/ (~b.has /\ l = Empty)
<1>1. b.has \in BOOLEAN
  BY BaseIs
<1>2. QED
  BY <1>1 DEF Decide

\* merge: what is taken, written and recorded.
LEMMA MergeIs ==
  ASSUME TypeOK, NEW s, s.b \in Base, s.skip \in BOOLEAN, field.multi => s.b.val # Unknown,
         NEW l \in field.values, NEW ver \in 1..Now, NEW m, m = Merge(s, l, ver)
  PROVE  /\ m \in [to : field.values, out : {None} \cup field.values, conflict : BOOLEAN, base : Base]
         /\ m.to \in field.values /\ m.out \in {None} \cup field.values /\ m.conflict \in BOOLEAN /\ m.base \in Base
         /\ s.skip => m.to = l /\ m.out = None /\ m.base = s.b
         /\ m.out # None => ~s.skip /\ m.base = s.b
         /\ m.base = s.b \/ (~s.skip /\ \E v \in field.values : m.base = Based(s.b, v, ver) /\ v = jira[ver].val)
         /\ ~field.multi =>
              /\ m.out # None => s.b.has /\ jira[ver].val = s.b.val
              /\ ~s.skip => m.base = Based(s.b, jira[ver].val, ver) \/ (m.base = s.b /\ s.b.has /\ jira[ver].val = s.b.val)
              /\ m.to # l => /\ ~s.skip /\ m.to = jira[ver].val
                             /\ m.conflict \/ (s.b.has /\ l = s.b.val /\ m.to # s.b.val) \/ (~s.b.has /\ l = Empty)
<1> DEFINE r == jira[ver].val
           d == Decide(s.b, l, r)
           u == MergeSet(s.b, l, r)
<1>1. r \in field.values /\ None \notin field.values /\ field.multi \in BOOLEAN
  BY JiraIs, FieldIs
<1>2. m = CASE s.skip -> [to |-> l, out |-> None, conflict |-> FALSE, base |-> s.b]
            [] ~s.skip /\ field.multi -> [to |-> u, out |-> IF u = r THEN None ELSE u, conflict |-> FALSE,
                                    base |-> IF u = r THEN Based(s.b, u, ver) ELSE s.b]
            [] ~s.skip /\ ~field.multi /\ d.do = "give" -> [to |-> l, out |-> l, conflict |-> FALSE, base |-> s.b]
            [] OTHER -> [to |-> r, out |-> None, conflict |-> d.conflict, base |-> Based(s.b, r, ver)]
  BY DEF Merge, Based
<1>3. ver \in Nat
  BY JiraIs
<1>4. Based(s.b, r, ver) \in Base
  BY <1>1, <1>3, BasedIs
<1>5. CASE s.skip
  <2>1. m = [to |-> l, out |-> None, conflict |-> FALSE, base |-> s.b]
    BY <1>2, <1>5
  <2>2. QED
    BY <1>1, <1>5, <2>1
<1>6. CASE ~s.skip /\ field.multi
  <2>1. u \in field.values
    BY <1>1, <1>6, MergeSetIs
  <2> HIDE DEF u
  <2>2. m = [to |-> u, out |-> IF u = r THEN None ELSE u, conflict |-> FALSE,
             base |-> IF u = r THEN Based(s.b, u, ver) ELSE s.b]
    BY <1>2, <1>6
  <2>3. CASE u = r
    <3>1. m = [to |-> r, out |-> None, conflict |-> FALSE, base |-> Based(s.b, r, ver)]
      BY <2>2, <2>3
    <3>2. QED
      BY <1>1, <1>4, <1>6, <3>1
  <2>4. CASE u # r
    <3>1. m = [to |-> u, out |-> u, conflict |-> FALSE, base |-> s.b]
      BY <2>2, <2>4
    <3>2. QED
      BY <1>1, <1>6, <2>1, <3>1
  <2>5. QED
    BY <2>3, <2>4
<1>7. ASSUME ~s.skip, ~field.multi
      PROVE  /\ d.do \in {"agree", "take", "give"} /\ d.conflict \in BOOLEAN
             /\ d.do = "give" => s.b.has /\ r = s.b.val /\ l # r
             /\ d.do # "give" /\ l # r =>
                  d.conflict \/ (s.b.has /\ l = s.b.val /\ r # s.b.val) \/ (~s.b.has /\ l = Empty)
  BY <1>1, DecideIs
<1>8. CASE ~s.skip /\ ~field.multi
  <2> HIDE DEF d
  <2>1. CASE d.do = "give"
    <3>1. m = [to |-> l, out |-> l, conflict |-> FALSE, base |-> s.b]
      BY <1>2, <1>8, <2>1
    <3>2. QED
      BY <1>1, <1>7, <1>8, <2>1, <3>1
  <2>2. CASE d.do # "give"
    <3>1. m = [to |-> r, out |-> None, conflict |-> d.conflict, base |-> Based(s.b, r, ver)]
      BY <1>2, <1>8, <2>2
    <3>2. m.to = r /\ m.out = None /\ m.conflict = d.conflict /\ m.base = Based(s.b, r, ver)
      BY <3>1
    <3>3. m \in [to : field.values, out : {None} \cup field.values, conflict : BOOLEAN, base : Base]
      BY <1>1, <1>4, <1>7, <1>8, <3>1
    <3>4. m.to # l => /\ ~s.skip /\ m.to = r
                      /\ m.conflict \/ (s.b.has /\ l = s.b.val /\ m.to # s.b.val) \/ (~s.b.has /\ l = Empty)
      BY <1>7, <1>8, <2>2, <3>2
    <3>5. QED
      BY <1>1, <1>8, <3>2, <3>3, <3>4
  <2>3. QED
    BY <2>1, <2>2
<1>9. QED
  BY <1>1, <1>5, <1>6, <1>8

\* admit: what the schema refuses is not committed, and leaves the base's value be.
LEMMA AdmitIs ==
  ASSUME TypeOK, NEW s, s.b \in Base, s.skip \in BOOLEAN, field.multi => s.b.val # Unknown,
         NEW l, Local(l), NEW ver \in 1..Now, NEW m, m = Merge(s, l, ver), NEW p, p = Admit(m, s.b, l)
  PROVE  /\ Local(p.to) /\ p.conflict \in BOOLEAN /\ p.base \in Base
         /\ s.skip => p.to = l /\ p.base = s.b
         /\ p.base.sent = s.b.sent /\ p.base.wrote = s.b.wrote /\ p.base.at = s.b.at /\ (p.base.fresh <=> s.b.fresh)
         /\ \/ /\ (p.base.has <=> s.b.has) /\ p.base.val = s.b.val /\ p.base.ver = s.b.ver
               /\ field.multi \/ s.skip \/ jira[ver].val \notin field.shape \/ (s.b.has /\ jira[ver].val = s.b.val)
            \/ /\ ~s.skip /\ p.base.has /\ p.base.val = jira[ver].val /\ p.base.ver = ver
         /\ ~field.multi /\ p.to # l =>
              /\ ~s.skip /\ p.to = jira[ver].val /\ jira[ver].val \in field.shape
              /\ p.conflict \/ (s.b.has /\ l = s.b.val /\ jira[ver].val # s.b.val) \/ (~s.b.has /\ l = Empty)
<1> DEFINE r == jira[ver].val
<1>1. l \in field.values /\ field.multi \in BOOLEAN /\ r \in field.values /\ ver \in Nat
  BY FieldIs, JiraIs DEF Local
<1>2. /\ m.to \in field.values /\ m.conflict \in BOOLEAN /\ m.base \in Base
      /\ s.skip => m.to = l /\ m.base = s.b
      /\ \/ m.base = s.b /\ (field.multi \/ s.skip \/ (s.b.has /\ r = s.b.val))
         \/ ~s.skip /\ m.base = Based(s.b, r, ver)
      /\ ~field.multi /\ m.to # l =>
           /\ ~s.skip /\ m.to = r
           /\ m.conflict \/ (s.b.has /\ l = s.b.val /\ m.to # s.b.val) \/ (~s.b.has /\ l = Empty)
  <2>1. /\ m.base = s.b \/ (~s.skip /\ \E v \in field.values : m.base = Based(s.b, v, ver) /\ v = r)
        /\ ~field.multi /\ ~s.skip => m.base = Based(s.b, r, ver) \/ (m.base = s.b /\ s.b.has /\ r = s.b.val)
    BY <1>1, MergeIs
  <2>2. /\ m.to \in field.values /\ m.conflict \in BOOLEAN /\ m.base \in Base
        /\ s.skip => m.to = l /\ m.base = s.b
        /\ ~field.multi /\ m.to # l =>
             /\ ~s.skip /\ m.to = r
             /\ m.conflict \/ (s.b.has /\ l = s.b.val /\ m.to # s.b.val) \/ (~s.b.has /\ l = Empty)
    BY <1>1, MergeIs
  <2>3. QED
    BY <2>1, <2>2
<1>3. LET c == Based(s.b, r, ver)
      IN  c.has /\ c.val = r /\ c.ver = ver /\ c.sent = s.b.sent /\ c.wrote = s.b.wrote /\ c.at = s.b.at
          /\ c.fresh = s.b.fresh
  BY <1>1, BasedIs
<1>4. /\ m.base.sent = s.b.sent /\ m.base.wrote = s.b.wrote /\ m.base.at = s.b.at /\ m.base.fresh = s.b.fresh
      /\ \/ /\ m.base.has = s.b.has /\ m.base.val = s.b.val /\ m.base.ver = s.b.ver
            /\ field.multi \/ s.skip \/ (s.b.has /\ r = s.b.val)
         \/ ~s.skip /\ m.base.has /\ m.base.val = r /\ m.base.ver = ver
  BY <1>2, <1>3
<1>5. CASE field.multi \/ m.to = l \/ m.to \in field.shape
  <2>1. p = m
    BY <1>5 DEF Admit
  <2>2. Local(p.to)
    BY <1>1, <1>2, <1>5, <2>1 DEF Local
  <2>3. ASSUME ~field.multi, p.to # l
        PROVE  /\ ~s.skip /\ p.to = r /\ r \in field.shape
               /\ p.conflict \/ (s.b.has /\ l = s.b.val /\ r # s.b.val) \/ (~s.b.has /\ l = Empty)
    BY <1>2, <1>5, <2>1, <2>3
  <2>4. p.conflict \in BOOLEAN /\ p.base = m.base /\ p.base \in Base /\ (s.skip => p.to = l /\ p.base = s.b)
    BY <1>2, <2>1
  <2>5. QED
    BY <1>4, <2>2, <2>3, <2>4
<1>6. CASE ~(field.multi \/ m.to = l \/ m.to \in field.shape)
  <2>1. p = [m EXCEPT !.to = l, !.base = [@ EXCEPT !.has = s.b.has, !.val = s.b.val, !.ver = s.b.ver]]
    BY <1>6 DEF Admit
  <2> DEFINE mb == [m.base EXCEPT !.has = s.b.has, !.val = s.b.val, !.ver = s.b.ver]
  <2>2. mb \in Base /\ mb.has = s.b.has /\ mb.val = s.b.val /\ mb.ver = s.b.ver
        /\ mb.sent = m.base.sent /\ mb.wrote = m.base.wrote /\ mb.at = m.base.at /\ mb.fresh = m.base.fresh
    BY <1>2 DEF Base
  <2>3. p.to = l /\ p.base = mb /\ p.conflict = m.conflict
    <3>1. m \in [to : field.values, out : {None} \cup field.values, conflict : BOOLEAN, base : Base]
      BY <1>1, MergeIs
    <3> HIDE DEF mb
    <3>2. p = [m EXCEPT !.to = l, !.base = mb]
      BY <2>1 DEF mb
    <3>3. QED
      BY <3>1, <3>2
  <2> HIDE DEF mb
  <2>4. CASE s.skip
    BY <1>2, <1>6, <2>4
  <2>5. CASE ~s.skip
    <3>1. ~field.multi /\ r \notin field.shape
      BY <1>2, <1>6
    <3>2. Local(p.to)
      BY <2>3
    <3>3. QED
      BY <1>2, <1>4, <2>2, <2>3, <2>5, <3>1, <3>2
  <2>6. QED
    BY <2>4, <2>5
<1>7. QED
  BY <1>5, <1>6

\* settle: the base that a version of Jira's leaves, of which fresh and confirm each
\* concern one kind.
LEMMA SettleIs ==
  ASSUME TypeOK, NEW b \in Base, NEW l \in field.values, NEW ver \in 1..Now,
         NEW echo, NEW young, NEW s, s = Settle(b, l, ver, echo, young)
  PROVE  /\ s.b \in Base /\ s.skip \in BOOLEAN /\ ~s.b.fresh /\ (b.has => s.b.has)
         /\ s.skip => /\ b.sent # None /\ jira[ver].val # b.sent /\ ver <= b.wrote /\ young
                      /\ s.b.sent = b.sent /\ s.b.wrote = b.wrote /\ s.b.at = b.at
                      /\ (s.b.has <=> b.has) /\ s.b.val = b.val /\ s.b.ver = b.ver
         /\ b.sent = None =>
              /\ ~s.skip /\ s.b.sent = None /\ s.b.at = b.at
              /\ \/ (s.b.has <=> b.has) /\ s.b.val = b.val /\ s.b.ver = b.ver
                 \/ /\ b.fresh /\ ~b.has /\ s.b.has /\ s.b.ver = ver
                    /\ s.b.val = jira[ver].val \/ (s.b.val = Empty /\ l = Empty)
         /\ b.sent # None /\ ~s.skip =>
              /\ s.b.sent = None /\ s.b.at = 0
              /\ jira[ver].val = b.sent \/ b.wrote < ver \/ ~young
              /\ field.multi => (s.b.has <=> b.has) /\ s.b.val = b.val /\ s.b.ver = b.ver
              /\ ~field.multi =>
                   /\ s.b.has /\ s.b.ver = ver
                   /\ \/ s.b.val = b.sent /\ (jira[ver].val = b.sent \/ (b.wrote < ver /\ echo))
                      \/ s.b.val = Unknown
         /\ field.multi /\ b.val # Unknown => s.b.val # Unknown
<1> DEFINE r == jira[ver].val
<1>1. r \in field.values /\ ver \in Nat /\ Empty \in field.values /\ Unknown \notin field.values /\ field.multi \in BOOLEAN
  BY JiraIs, FieldIs
<1>2. PICK f \in Base :
        /\ f = Freshened(b, l, r, ver)
        /\ ~f.fresh /\ f.sent = b.sent /\ f.wrote = b.wrote /\ f.at = b.at
        /\ ~b.fresh => f = b
        /\ \/ f.has = b.has /\ f.val = b.val /\ f.ver = b.ver
           \/ /\ ~b.has /\ b.sent = None /\ f.has /\ f.ver = ver
              /\ f.val = r \/ (f.val = Empty /\ l = Empty)
  BY <1>1, FreshenedIs
<1>3. s = Confirm(f, ver, echo, young)
  BY <1>2 DEF Settle
<1>4. /\ s.b \in Base /\ s.skip \in BOOLEAN /\ ~s.b.fresh /\ (f.has => s.b.has)
      /\ s.skip => s.b = f /\ f.sent # None /\ r # f.sent /\ ver <= f.wrote /\ young
      /\ f.sent = None => s.b = f /\ ~s.skip
      /\ f.sent # None /\ ~s.skip =>
           /\ s.b.sent = None /\ s.b.at = 0
           /\ r = f.sent \/ f.wrote < ver \/ ~young
           /\ field.multi => s.b.has = f.has /\ s.b.val = f.val /\ s.b.ver = f.ver
           /\ ~field.multi =>
                /\ s.b.has /\ s.b.ver = ver
                /\ \/ s.b.val = f.sent /\ (r = f.sent \/ (f.wrote < ver /\ echo))
                   \/ s.b.val = Unknown
  BY <1>2, <1>3, ConfirmIs
<1>5. b.fresh \in BOOLEAN
  BY BaseIs
<1> HIDE DEF r
<1>6. CASE b.sent = None
  <2>1. s.b = f /\ ~s.skip
    BY <1>2, <1>4, <1>6
  <2>2. ~b.fresh => f.has = b.has /\ f.val = b.val /\ f.ver = b.ver
    BY <1>2
  <2>3. \/ (s.b.has <=> b.has) /\ s.b.val = b.val /\ s.b.ver = b.ver
        \/ /\ b.fresh /\ ~b.has /\ s.b.has /\ s.b.ver = ver
           /\ s.b.val = r \/ (s.b.val = Empty /\ l = Empty)
    BY <1>2, <2>1, <2>2
  <2>4. field.multi /\ b.val # Unknown => s.b.val # Unknown
    BY <1>1, <2>3
  <2>5. b.has => s.b.has
    BY <1>2, <2>1
  <2>6. s.b \in Base /\ s.skip \in BOOLEAN /\ ~s.b.fresh /\ s.b.sent = None /\ s.b.at = b.at
    BY <1>2, <1>4, <1>6, <2>1
  <2>7. QED
    BY <1>6, <2>1, <2>3, <2>4, <2>5, <2>6 DEF r
<1>7. CASE b.sent # None
  <2>1. f.has = b.has /\ f.val = b.val /\ f.ver = b.ver
    BY <1>2, <1>7
  <2>2. CASE s.skip
    BY <1>2, <1>4, <1>7, <2>1, <2>2 DEF r
  <2>3. CASE ~s.skip
    <3>1. s.b \in Base /\ s.skip \in BOOLEAN /\ ~s.b.fresh /\ (b.has => s.b.has)
      BY <1>2, <1>4, <2>1
    <3>2. /\ s.b.sent = None /\ s.b.at = 0
          /\ r = b.sent \/ b.wrote < ver \/ ~young
          /\ field.multi => (s.b.has <=> b.has) /\ s.b.val = b.val /\ s.b.ver = b.ver
          /\ ~field.multi =>
               /\ s.b.has /\ s.b.ver = ver
               /\ \/ s.b.val = b.sent /\ (r = b.sent \/ (b.wrote < ver /\ echo))
                  \/ s.b.val = Unknown
      BY <1>2, <1>4, <1>7, <2>1, <2>3
    <3>3. QED
      BY <1>7, <2>3, <3>1, <3>2 DEF r
  <2>4. QED
    BY <1>4, <2>2, <2>3
<1>8. QED
  BY <1>6, <1>7

-----------------------------------------------------------------------------
(* The two persons, and time.                                              *)

\* A write of either side adds a version, or none.
Grown(e) == jira' = jira \/ jira' = Append(jira, e)

\* The versions there were stay.
LEMMA GrownIs ==
  ASSUME TypeOK, field' = field, NEW e \in [val : field.values, by : {"jira", "touch", "sync"}], Grown(e)
  PROVE  /\ jira' \in Seq([val : field'.values, by : {"jira", "touch", "sync"}])
         /\ Now' \in Nat /\ Now <= Now'
         /\ \A i \in 1..Now : jira'[i] = jira[i]
         /\ jira' = jira => Now' = Now
         /\ jira' # jira => Now' = Now + 1 /\ jira'[Now'] = e
<1> DEFINE Version == [val : field.values, by : {"jira", "touch", "sync"}]
<1>1. jira \in Seq(Version) /\ e \in Version
  BY DEF TypeOK
<1> HIDE DEF Version
<1>2. CASE jira' = jira
  BY <1>1, <1>2 DEF Now, Version
<1>3. CASE jira' = Append(jira, e)
  <2>1. /\ jira' \in Seq(Version) /\ Len(jira) \in Nat /\ Len(jira') = Len(jira) + 1
        /\ \A i \in 1..Len(jira) : jira'[i] = jira[i]
        /\ jira'[Len(jira) + 1] = e
    BY <1>1, <1>3
  <2>2. QED
    BY <2>1 DEF Now, Version
<1>4. QED
  BY <1>2, <1>3 DEF Grown

\* A new version of the field's value is no touch, and a touch keeps the value.
LEMMA GrownTouch ==
  ASSUME TypeOK, TouchInv, field' = field,
         NEW e \in [val : field.values, by : {"jira", "touch", "sync"}], Grown(e),
         e.by = "touch" => e.val = Current.val
  PROVE  TouchInv'
<1>1. /\ Now' \in Nat /\ Now \in Nat /\ 1 <= Now
      /\ \A i \in 1..Now : jira'[i] = jira[i]
      /\ jira' = jira => Now' = Now
      /\ jira' # jira => Now' = Now + 1 /\ jira'[Now'] = e
  BY GrownIs, JiraIs
<1>2. SUFFICES ASSUME NEW i \in 1..Now', NEW j \in 1..Now', i <= j, \A k \in i + 1..j : jira'[k].by = "touch"
               PROVE  jira'[i].val = jira'[j].val
  BY DEF TouchInv
<1>3. CASE j <= Now
  <2>1. i \in 1..Now /\ j \in 1..Now /\ \A k \in i + 1..j : k \in 1..Now
    BY <1>1, <1>2, <1>3
  <2>2. \A k \in i + 1..j : jira[k].by = "touch"
    BY <1>1, <1>2, <2>1
  <2>3. jira[i].val = jira[j].val
    BY <1>2, <2>1, <2>2 DEF TouchInv
  <2>4. QED
    BY <1>1, <2>1, <2>3
<1>4. CASE j = Now + 1 /\ i = j
  BY <1>4
<1>5. CASE j = Now + 1 /\ i <= Now
  <2>1. jira'[j] = e /\ e.by = "touch" /\ j \in i + 1..j
    BY <1>1, <1>2, <1>5
  <2>2. i \in 1..Now /\ Now \in 1..Now /\ \A k \in i + 1..Now : k \in 1..Now /\ k \in i + 1..j
    BY <1>1, <1>2, <1>5
  <2>3. \A k \in i + 1..Now : jira[k].by = "touch"
    BY <1>1, <1>2, <2>2
  <2>4. jira[i].val = jira[Now].val
    BY <1>5, <2>2, <2>3 DEF TouchInv
  <2>5. QED
    BY <1>1, <2>1, <2>2, <2>4 DEF Current
<1>6. QED
  BY <1>1, <1>2, <1>3, <1>4, <1>5

\* What a base of the same field is, and what was seen or found in a version,
\* does not change when versions are added.
LEMMA BaseKept ==
  ASSUME TypeOK, field' = field, NEW e \in [val : field.values, by : {"jira", "touch", "sync"}], Grown(e)
  PROVE  /\ Base' = Base
         /\ \A b \in Base : Observed(b) => (b.has /\ b.val # Unknown => b.val = Empty \/
                               \E i \in 1..Now' : jira'[i].val \in {b.val, field'.norm[b.val]})
         /\ \A b \in Base : (b.has => 1 <= b.ver /\ b.ver <= Now) /\ Grounded(b) =>
                               (b.has /\ b.val # Unknown =>
                                  jira'[b.ver].val = b.val \/ jira'[b.ver].val \notin field'.shape)
<1>1. Now' \in Nat /\ Now \in Nat /\ Now <= Now' /\ \A i \in 1..Now : jira'[i] = jira[i]
  BY GrownIs, JiraIs
<1>2. Base' = Base
  BY DEF Base
<1>3. ASSUME NEW b \in Base, Observed(b), b.has, b.val # Unknown, b.val # Empty
      PROVE  \E i \in 1..Now' : jira'[i].val \in {b.val, field'.norm[b.val]}
  <2>1. PICK i \in 1..Now : jira[i].val \in {b.val, field.norm[b.val]}
    BY <1>3 DEF Observed
  <2>2. i \in 1..Now' /\ jira'[i] = jira[i]
    BY <1>1
  <2>3. QED
    BY <2>1, <2>2
<1>4. ASSUME NEW b \in Base, b.has => 1 <= b.ver /\ b.ver <= Now, Grounded(b), b.has, b.val # Unknown
      PROVE  jira'[b.ver].val = b.val \/ jira'[b.ver].val \notin field'.shape
  <2>1. b.ver \in 1..Now
    BY <1>1, <1>4, BaseIs
  <2>2. QED
    BY <1>1, <1>4, <2>1 DEF Grounded
<1>5. QED
  BY <1>2, <1>3, <1>4

\* What a marker that a step leaves be is.
LEMMA MarkerKept ==
  ASSUME MergeInvariant, UNCHANGED <<field, marker>>, floor' \in Nat, floor <= floor',
         NEW e \in [val : field.values, by : {"jira", "touch", "sync"}], Grown(e),
         e.by = "touch" => e.val = Current.val
  PROVE  /\ TouchInv' /\ marker' \in Base'
         /\ marker'.ver <= floor' /\ marker'.at <= Now' /\ (marker'.has => 1 <= marker'.ver)
         /\ Observed(marker)'
         /\ IF field'.multi THEN marker'.val # Unknown ELSE Grounded(marker)'
<1>1. TypeOK /\ marker \in Base /\ TouchInv
  BY Parts
<1>2. /\ Now \in Nat /\ Now' \in Nat /\ Now <= Now' /\ floor \in Nat /\ floor <= Now
  BY <1>1, GrownIs, JiraIs
<1>3. marker.ver \in Nat /\ marker.at \in Nat /\ marker.ver <= floor /\ marker.at <= Now /\ (marker.has => 1 <= marker.ver)
  BY <1>1, BaseIs, Parts DEF OrderInv
<1>4. TouchInv'
  BY <1>1, GrownTouch
<1>5. /\ Base' = Base
      /\ Observed(marker) => (marker.has /\ marker.val # Unknown => marker.val = Empty \/
                               \E i \in 1..Now' : jira'[i].val \in {marker.val, field'.norm[marker.val]})
      /\ (marker.has => 1 <= marker.ver /\ marker.ver <= Now) /\ Grounded(marker) =>
                               (marker.has /\ marker.val # Unknown =>
                                  jira'[marker.ver].val = marker.val \/ jira'[marker.ver].val \notin field'.shape)
  BY <1>1, BaseKept
<1>6. Observed(marker)'
  <2>1. Observed(marker)
    BY Parts DEF ObservedInv
  <2>2. QED
    BY <1>5, <2>1 DEF Observed
<1>7. IF field'.multi THEN marker'.val # Unknown ELSE Grounded(marker)'
  <2>1. CASE field.multi
    BY <2>1, Parts DEF BaseInv
  <2>2. CASE ~field.multi
    <3>1. Grounded(marker)
      BY <2>2, Parts DEF BaseInv
    <3>2. marker.has => 1 <= marker.ver /\ marker.ver <= Now
      BY <1>2, <1>3
    <3>3. Grounded(marker)'
      BY <1>5, <3>1, <3>2 DEF Grounded
    <3>4. QED
      BY <2>2, <3>3
  <2>3. QED
    BY <2>1, <2>2
<1>8. QED
  BY <1>1, <1>2, <1>3, <1>4, <1>5, <1>6, <1>7

\* A step with no run after it, that leaves the marker be, keeps the invariant, unless
\* a write landed that it does not tell of.
LEMMA IdleKeeps ==
  ASSUME MergeInvariant, TypeOK', UNCHANGED <<field, marker>>, floor <= floor', run' = Idle,
         NEW e \in [val : field.values, by : {"jira", "touch", "sync"}], Grown(e),
         e.by = "touch" => e.val = Current.val,
         ~blind' => ~blind /\ (run # Idle => ~run.wrote) /\ (e.by # "sync" \/ jira' = jira)
  PROVE  MergeInvariant'
<1>1. TypeOK /\ marker \in Base /\ floor' \in Nat
  <2>1. floor' \in 1..Now'
    BY DEF TypeOK
  <2>2. QED
    BY <2>1, Parts
<1>2. /\ TouchInv' /\ marker' \in Base'
      /\ marker'.ver <= floor' /\ marker'.at <= Now' /\ (marker'.has => 1 <= marker'.ver)
      /\ Observed(marker)'
      /\ IF field'.multi THEN marker'.val # Unknown ELSE Grounded(marker)'
  BY <1>1, MarkerKept
<1>3. OrderInv' /\ RunInv' /\ ObservedInv' /\ BaseInv'
  BY <1>2 DEF OrderInv, RunInv, ObservedInv, BaseInv
<1>4. SyncInv'
  <2>1. SUFFICES ASSUME ~field.multi, ~blind' PROVE Accounted(marker)'
    BY DEF SyncInv
  <2>2. Accounted(marker)
    BY <2>1, Parts DEF SyncInv
  <2>3. /\ Now' \in Nat /\ Now \in Nat /\ \A i \in 1..Now : jira'[i] = jira[i]
        /\ jira' = jira => Now' = Now
        /\ jira' # jira => Now' = Now + 1 /\ jira'[Now'] = e
    BY <1>1, GrownIs, JiraIs
  <2>4. SUFFICES ASSUME NEW i \in 1..Now', jira'[i].by = "sync"
                 PROVE  i <= marker.ver \/ (marker.sent # None /\ i = marker.at)
    BY DEF Accounted
  <2>5. i \in 1..Now /\ jira[i].by = "sync"
    BY <2>1, <2>3, <2>4
  <2>6. QED
    BY <2>2, <2>5 DEF Accounted
<1>5. QED
  BY <1>2, <1>3, <1>4 DEF MergeInvariant

\* A step of the persons or of time keeps the invariant.
LEMMA RestKeeps ==
  ASSUME MergeInvariant, TypeOK', UNCHANGED <<field, marker, run, blind>>, floor <= floor',
         NEW e \in [val : field.values, by : {"jira", "touch", "sync"}], Grown(e),
         e.by # "sync", e.by = "touch" => e.val = Current.val
  PROVE  MergeInvariant'
<1>1. CASE run = Idle
  BY <1>1, IdleKeeps
<1>2. CASE run # Idle
  <2>1. TypeOK /\ marker \in Base /\ floor' \in Nat
    <3>1. floor' \in 1..Now'
      BY DEF TypeOK
    <3>2. QED
      BY <3>1, Parts
  <2>2. /\ TouchInv' /\ marker' \in Base'
        /\ marker'.ver <= floor' /\ marker'.at <= Now' /\ (marker'.has => 1 <= marker'.ver)
        /\ Observed(marker)'
        /\ IF field'.multi THEN marker'.val # Unknown ELSE Grounded(marker)'
    BY <2>1, MarkerKept
  <2>3. /\ run.b \in Base /\ run.ver \in 1..Now /\ run.ver \in Nat
        /\ run.b.ver \in Nat /\ run.b.at \in Nat
    <3>1. run.b \in Base /\ run.ver \in 1..Now /\ run.ver \in Nat
      BY <1>2, <2>1, RunIs
    <3>2. QED
      BY <3>1, BaseIs
  <2>4. /\ Now' \in Nat /\ Now \in Nat /\ Now <= Now' /\ floor \in Nat /\ floor <= Now
        /\ \A i \in 1..Now : jira'[i] = jira[i]
        /\ jira' = jira => Now' = Now
        /\ jira' # jira => Now' = Now + 1 /\ jira'[Now'] = e
    BY <2>1, GrownIs, JiraIs
  <2>5. OrderInv /\ RunInv /\ run.b.at <= Now /\ run.ver <= floor /\ run.b.ver <= run.ver /\ (run.b.has => 1 <= run.b.ver)
    BY <1>2, Parts DEF OrderInv
  <2>6. OrderInv'
    <3>1. run.ver <= floor' /\ run.b.at <= Now'
      BY <2>1, <2>3, <2>4, <2>5
    <3>2. QED
      BY <1>2, <2>2, <2>5, <3>1 DEF OrderInv
  <2>7. RunInv'
    <3>1. jira'[run.ver] = jira[run.ver]
      BY <2>3, <2>4
    <3>2. run.wrote => jira'[run.b.at] = jira[run.b.at]
      <4>1. run.wrote => 1 <= run.b.at
        BY <1>2, <2>5 DEF RunInv
      <4>2. QED
        BY <2>3, <2>4, <2>5, <4>1
    <3>3. QED
      BY <1>2, <2>5, <3>1, <3>2 DEF RunInv
  <2>8. Observed(run.b) /\ (field.multi => run.b.val # Unknown) /\ (~field.multi => Grounded(run.b) \/ Freshly)
    BY <1>2, Parts DEF ObservedInv, BaseInv
  <2>9. ObservedInv'
    <3>1. Observed(run.b)'
      BY <2>1, <2>3, <2>8, BaseKept DEF Observed
    <3>2. QED
      BY <2>2, <3>1 DEF ObservedInv
  <2>10. BaseInv'
    <3>1. CASE field.multi
      BY <2>2, <2>8, <3>1 DEF BaseInv
    <3>2. CASE ~field.multi
      <4>1. run.b.has => 1 <= run.b.ver /\ run.b.ver <= Now
        BY <2>3, <2>4, <2>5
      <4>2. Grounded(run.b) => Grounded(run.b)'
        BY <2>1, <2>3, <4>1, BaseKept DEF Grounded
      <4>3. Freshly => Freshly'
        BY DEF Freshly
      <4>4. QED
        BY <2>2, <2>8, <3>2, <4>2, <4>3 DEF BaseInv
    <3>3. QED
      BY <3>1, <3>2
  <2>11. SyncInv'
    <3>1. ASSUME NEW b, Accounted(b)
          PROVE  \A i \in 1..Now' : jira'[i].by = "sync" => i <= b.ver \/ (b.sent # None /\ i = b.at)
      <4>1. TAKE i \in 1..Now'
      <4>2. HAVE jira'[i].by = "sync"
      <4>3. i \in 1..Now /\ jira[i].by = "sync"
        BY <2>4, <4>1, <4>2
      <4>4. QED
        BY <3>1, <4>3 DEF Accounted
    <3>2. Accounted(run.b) => Accounted(run.b)'
      BY <3>1 DEF Accounted
    <3>3. Accounted(marker) => Accounted(marker)'
      BY <3>1 DEF Accounted
    <3>4. QED
      BY <3>2, <3>3, Parts DEF SyncInv
  <2>12. QED
    BY <2>2, <2>6, <2>7, <2>9, <2>10, <2>11 DEF MergeInvariant
<1>3. QED
  BY <1>1, <1>2

\* A type for every step that makes a version.
LEMMA TypeGrown ==
  ASSUME TypeOK, UNCHANGED <<field, marker>>,
         NEW e \in [val : field.values, by : {"jira", "touch", "sync"}], Grown(e),
         Local(loc)', who' \in {"person", "sync"}, floor' \in 1..Now', run' = Idle \/ run' \in Running',
         left' \in [edits : 0..MaxEdits, jira : 0..MaxJira, faults : 0..MaxFaults],
         noted' \in BOOLEAN, blind' \in BOOLEAN
  PROVE  TypeOK'
<1>1. jira' \in Seq([val : field'.values, by : {"jira", "touch", "sync"}]) /\ Base' = Base
  BY GrownIs, BaseKept
<1>2. field' \in Fields /\ marker' \in Base'
  BY <1>1 DEF TypeOK
<1>3. QED
  BY <1>1, <1>2 DEF TypeOK

\* A run stays one when versions are added.
LEMMA RunningGrown ==
  ASSUME TypeOK, field' = field, NEW e \in [val : field.values, by : {"jira", "touch", "sync"}], Grown(e)
  PROVE  \A r \in Running : r \in Running'
<1>1. Base' = Base /\ Len(jira) \in Nat /\ Len(jira') \in Nat /\ Len(jira) <= Len(jira')
  BY GrownIs, BaseKept, JiraIs DEF Now
<1>2. \A v \in 1..Len(jira) : v \in 1..Len(jira')
  BY <1>1
<1>3. QED
  BY <1>1, <1>2 DEF Running

\* Current is a version.
LEMMA CurrentIs ==
  ASSUME TypeOK
  PROVE  Current.val \in field.values /\ Current \in [val : field.values, by : {"jira", "touch", "sync"}]
<1> DEFINE Version == [val : field.values, by : {"jira", "touch", "sync"}]
<1>1. jira \in Seq(Version) /\ Now \in 1..Now
  BY JiraIs DEF TypeOK
<1>2. Current \in Version
  <2> HIDE DEF Version
  <2>1. QED
    BY <1>1 DEF Current, Now
<1>3. QED
  BY <1>2

\* The person edits the issue.
LEMMA EditKeeps ==
  ASSUME MergeInvariant, NEW v \in Value, Edit(v)
  PROVE  MergeInvariant'
<1>1. TypeOK /\ floor \in Nat
  BY Parts, JiraIs
<1>2. Grown([Current EXCEPT !.by = "jira"]) /\ UNCHANGED <<field, marker, run, blind, jira, floor>>
  BY DEF Edit, Grown
<1>3. [Current EXCEPT !.by = "jira"] \in [val : field.values, by : {"jira", "touch", "sync"}]
  BY <1>1, CurrentIs
<1>4. left' \in [edits : 0..MaxEdits, jira : 0..MaxJira, faults : 0..MaxFaults]
  <2>1. left.edits > 0 /\ left' = [left EXCEPT !.edits = @ - 1]
    BY DEF Edit
  <2>2. left \in [edits : 0..MaxEdits, jira : 0..MaxJira, faults : 0..MaxFaults]
    BY <1>1 DEF TypeOK
  <2>3. QED
    BY <2>1, <2>2, MergeAssumption
<1>5. Local(loc)' /\ who' \in {"person", "sync"} /\ noted' \in BOOLEAN /\ blind' \in BOOLEAN /\ floor' \in 1..Now'
  BY <1>1, <1>2 DEF Edit, Local, TypeOK, Now
<1>6. run' = Idle \/ run' \in Running'
  BY <1>1, <1>2, <1>3, RunningGrown DEF TypeOK
<1>7. TypeOK'
  BY <1>1, <1>2, <1>3, <1>4, <1>5, <1>6, TypeGrown
<1>8. LET e == [Current EXCEPT !.by = "jira"] IN e.by = "jira"
  BY <1>1, CurrentIs
<1>9. floor <= floor'
  BY <1>1, <1>2
<1>10. QED
  BY <1>2, <1>3, <1>7, <1>8, <1>9, RestKeeps

\* The other one edits it in Jira.
LEMMA JiraEditKeeps ==
  ASSUME MergeInvariant, NEW v \in Value, JiraEdit(v)
  PROVE  MergeInvariant'
<1>1. TypeOK /\ floor \in Nat /\ floor \in 1..Now /\ Now \in Nat
  BY Parts, JiraIs
<1>2. PICK e \in [val : field.values, by : {"jira", "touch", "sync"}] :
        e.by # "sync" /\ (e.by = "touch" => e.val = Current.val) /\ Grown(e)
  <2> DEFINE Version == [val : field.values, by : {"jira", "touch", "sync"}]
             t == [Current EXCEPT !.by = "touch"]
             w == [val |-> v, by |-> "jira"]
  <2>1. t \in Version /\ t.by = "touch" /\ t.val = Current.val
    BY <1>1, CurrentIs
  <2>2. w \in Version /\ w.by = "jira"
    BY DEF JiraEdit, Normal
  <2>3. Grown(t) \/ Grown(w)
    BY DEF JiraEdit, Grown
  <2> HIDE DEF t, w
  <2>4. QED
    BY <2>1, <2>2, <2>3
<1>3. UNCHANGED <<field, marker, run, blind, loc, who, noted, floor>>
  BY DEF JiraEdit
<1>4. left' \in [edits : 0..MaxEdits, jira : 0..MaxJira, faults : 0..MaxFaults]
  <2>1. left.jira > 0 /\ left' = [left EXCEPT !.jira = @ - 1]
    BY DEF JiraEdit
  <2>2. left \in [edits : 0..MaxEdits, jira : 0..MaxJira, faults : 0..MaxFaults]
    BY <1>1 DEF TypeOK
  <2>3. QED
    BY <2>1, <2>2, MergeAssumption
<1>5. Now' \in Nat /\ Now <= Now'
  BY <1>1, <1>2, <1>3, GrownIs
<1>6. Local(loc)' /\ who' \in {"person", "sync"} /\ noted' \in BOOLEAN /\ blind' \in BOOLEAN /\ floor' \in 1..Now'
  BY <1>1, <1>3, <1>5 DEF Local, TypeOK
<1>7. run' = Idle \/ run' \in Running'
  BY <1>1, <1>2, <1>3, RunningGrown DEF TypeOK
<1>8. TypeOK'
  BY <1>1, <1>2, <1>3, <1>4, <1>6, <1>7, TypeGrown
<1>9. floor <= floor'
  BY <1>1, <1>3
<1>10. QED
  <2>1. UNCHANGED <<field, marker, run, blind>>
    BY <1>3
  <2>2. QED
    BY <1>2, <1>8, <1>9, <2>1, RestKeeps

\* Time passes.
LEMMA PassKeeps ==
  ASSUME MergeInvariant, NEW k \in 1..Now, Pass(k)
  PROVE  MergeInvariant'
<1>1. TypeOK /\ floor \in Nat /\ Now \in Nat
  BY Parts, JiraIs
<1>2. Grown([Current EXCEPT !.by = "jira"]) /\ UNCHANGED <<field, marker, run, blind, jira, loc, who, left, noted>>
  BY DEF Pass, Grown
<1>3. [Current EXCEPT !.by = "jira"] \in [val : field.values, by : {"jira", "touch", "sync"}]
  BY <1>1, CurrentIs
<1>4. floor' \in 1..Now' /\ floor <= floor'
  BY <1>1, <1>2 DEF Pass, Now
<1>5. Local(loc)' /\ who' \in {"person", "sync"} /\ noted' \in BOOLEAN /\ blind' \in BOOLEAN
  BY <1>1, <1>2 DEF Local, TypeOK
<1>6. left' \in [edits : 0..MaxEdits, jira : 0..MaxJira, faults : 0..MaxFaults]
  BY <1>1, <1>2 DEF TypeOK
<1>7. run' = Idle \/ run' \in Running'
  BY <1>1, <1>2, <1>3, RunningGrown DEF TypeOK
<1>8. TypeOK'
  BY <1>1, <1>2, <1>3, <1>4, <1>5, <1>6, <1>7, TypeGrown
<1>9. LET e == [Current EXCEPT !.by = "jira"] IN e.by = "jira"
  BY <1>1, CurrentIs
<1>10. QED
  BY <1>2, <1>3, <1>4, <1>8, <1>9, RestKeeps

-----------------------------------------------------------------------------
(* A run of the sync.                                                      *)

\* A fault is one of those left.
LEMMA FaultIs ==
  ASSUME TypeOK, Fault
  PROVE  left' \in [edits : 0..MaxEdits, jira : 0..MaxJira, faults : 0..MaxFaults]
<1>1. left.faults > 0 /\ left' = [left EXCEPT !.faults = @ - 1]
  BY DEF Fault
<1>2. left \in [edits : 0..MaxEdits, jira : 0..MaxJira, faults : 0..MaxFaults]
  BY DEF TypeOK
<1>3. QED
  BY <1>1, <1>2, MergeAssumption

\* A write of which it may be said that it is not young is in every GET.
LEMMA YoungIs ==
  ASSUME NEW b, b.at \in Nat, floor \in Nat, NEW young \in Young(b)
  PROVE  young \in BOOLEAN /\ (~young => b.at <= floor)
<1>1. CASE b.at > floor
  <2>1. young \in {TRUE}
    BY <1>1 DEF Young
  <2>2. QED
    BY <2>1
<1>2. CASE ~(b.at > floor)
  <2>1. young \in BOOLEAN
    <3>1. young \in {FALSE} \/ young \in BOOLEAN
      BY <1>2 DEF Young
    <3>2. QED
      BY <3>1
  <2>2. QED
    BY <1>2, <2>1
<1>3. QED
  BY <1>1, <1>2

\* A write makes a version of Jira's normal form of it, which is then the current
\* value, or leaves it as it was.
LEMMA LandIs ==
  ASSUME MergeInvariant, run.pc = "write"
  PROVE  /\ Written \in field.values /\ run.out \in field.values
         /\ [val |-> Written, by |-> "sync"] \in [val : field.values, by : {"jira", "touch", "sync"}]
         /\ Land => Grown([val |-> Written, by |-> "sync"]) /\ (jira' = jira => Current.val = Written)
<1>1. TypeOK /\ run # Idle
  BY Parts, RunningIs
<1>2. run.out \in field.values
  BY <1>1, Parts, RunIs DEF RunInv
<1>3. jira[run.ver].val \in field.values /\ Current.val \in field.values
  BY <1>1, RunIs, JiraIs, CurrentIs
<1>4. Written \in field.values
  <2>1. CASE field.multi
    <3>1. Written \subseteq UNION field.values
      BY <1>2, <1>3, <2>1 DEF Written
    <3>2. QED
      BY <1>1, <2>1, <3>1, FieldIs
  <2>2. CASE ~field.multi
    BY <1>1, <1>2, <2>2, FieldIs DEF Written
  <2>3. QED
    BY <2>1, <2>2
<1>5. ASSUME Land
      PROVE  Grown([val |-> Written, by |-> "sync"]) /\ (jira' = jira => Current.val = Written)
  <2>1. CASE Written = Current.val
    BY <1>5, <2>1 DEF Land, Grown
  <2>2. CASE Written # Current.val
    <3> DEFINE Version == [val : field.values, by : {"jira", "touch", "sync"}]
               e == [val |-> Written, by |-> "sync"]
    <3>1. jira' = Append(jira, e)
      BY <1>5, <2>2 DEF Land
    <3>2. e \in Version /\ jira \in Seq(Version)
      BY <1>1, <1>4 DEF TypeOK
    <3>3. jira' # jira
      <4> HIDE DEF e, Version
      <4>1. Len(jira') = Len(jira) + 1 /\ Len(jira) \in Nat
        BY <3>1, <3>2
      <4>2. QED
        BY <4>1
    <3>4. QED
      BY <3>1, <3>3 DEF Grown
  <2>3. QED
    BY <2>1, <2>2
<1>6. QED
  BY <1>2, <1>4, <1>5

\* Jira refuses the write.
LEMMA WriteRefusedKeeps ==
  ASSUME MergeInvariant, WriteRefused
  PROVE  MergeInvariant'
<1>1. TypeOK /\ run.pc = "write" /\ run # Idle /\ run \in Running
  BY Parts, RunningIs, RunIs DEF WriteRefused
<1>2. run' = [run EXCEPT !.pc = "commit"] /\ UNCHANGED <<field, loc, who, marker, jira, floor, left, noted, blind>>
  BY DEF WriteRefused
<1>3. /\ run' \in Running /\ run'.pc = "commit" /\ run'.b = run.b /\ run'.ver = run.ver /\ run'.out = run.out
      /\ run'.wrote = run.wrote /\ run'.echo = run.echo /\ run'.young = run.young
  BY <1>1, <1>2 DEF Running
<1>4. Running' = Running /\ Base' = Base
  BY <1>2 DEF Running, Base
<1>5. run' # Idle
  BY <1>1, <1>3, RunningIs
<1>6. TypeOK'
  BY <1>1, <1>2, <1>3, <1>4 DEF TypeOK, Local, Now
<1>7. TouchInv' /\ OrderInv'
  BY <1>1, <1>2, <1>3, Parts DEF TouchInv, OrderInv, Now
<1>8. RunInv' /\ ObservedInv'
  BY <1>1, <1>2, <1>3, Parts DEF RunInv, ObservedInv, Observed, Now
<1>9. BaseInv'
  BY <1>1, <1>2, <1>3, Parts DEF BaseInv, Grounded, Freshly
<1>10. SyncInv'
  BY <1>1, <1>2, <1>3, <1>5, Parts DEF SyncInv, Accounted, Now
<1>11. QED
  BY <1>6, <1>7, <1>8, <1>9, <1>10 DEF MergeInvariant

\* No answer to the write.
LEMMA WriteLostKeeps ==
  ASSUME MergeInvariant, WriteLost
  PROVE  MergeInvariant'
<1> DEFINE e == [val |-> Written, by |-> "sync"]
<1>1. TypeOK /\ run.pc = "write" /\ run # Idle /\ floor \in Nat /\ floor \in 1..Now
  BY Parts, RunningIs, JiraIs DEF WriteLost
<1>2. /\ run' = Idle /\ UNCHANGED <<field, loc, who, marker, floor, noted>> /\ Fault
      /\ blind' = (blind \/ jira' # jira)
  BY DEF WriteLost
<1>3. e \in [val : field.values, by : {"jira", "touch", "sync"}] /\ Grown(e) /\ e.by = "sync"
  <2>1. e \in [val : field.values, by : {"jira", "touch", "sync"}] /\ (Land => Grown(e))
    BY <1>1, LandIs
  <2>2. jira' = jira => Grown(e)
    BY DEF Grown
  <2>3. Land \/ jira' = jira
    BY DEF WriteLost
  <2>4. QED
    BY <2>1, <2>2, <2>3
<1> HIDE DEF e
<1>4. TypeOK'
  <2>1. Now' \in Nat /\ Now \in Nat /\ Now <= Now'
    BY <1>1, <1>2, <1>3, GrownIs, JiraIs
  <2>2. floor' \in 1..Now'
    BY <1>1, <1>2, <2>1
  <2>3. Local(loc)' /\ who' \in {"person", "sync"} /\ noted' \in BOOLEAN /\ blind' \in BOOLEAN
    BY <1>1, <1>2 DEF Local, TypeOK
  <2>4. left' \in [edits : 0..MaxEdits, jira : 0..MaxJira, faults : 0..MaxFaults]
    BY <1>1, <1>2, FaultIs
  <2>5. QED
    BY <1>1, <1>2, <1>3, <2>2, <2>3, <2>4, TypeGrown
<1>5. ~blind' => ~blind /\ (run # Idle => ~run.wrote) /\ (e.by # "sync" \/ jira' = jira)
  BY <1>1, <1>2, Parts DEF RunInv
<1>6. UNCHANGED <<field, marker>> /\ floor <= floor' /\ run' = Idle /\ (e.by = "touch" => e.val = Current.val)
  BY <1>1, <1>2, <1>3
<1>7. QED
  BY <1>3, <1>4, <1>5, <1>6, IdleKeeps

\* The process dies, or the commit fails.
LEMMA CrashKeeps ==
  ASSUME MergeInvariant, Crash
  PROVE  MergeInvariant'
<1> DEFINE e == [Current EXCEPT !.by = "jira"]
<1>1. TypeOK /\ floor \in Nat
  BY Parts, JiraIs
<1>2. /\ run' = Idle /\ UNCHANGED <<field, loc, who, marker, jira, floor, noted>> /\ Fault
      /\ blind' = (blind \/ run.wrote) /\ run # Idle
  BY DEF Crash
<1>3. e \in [val : field.values, by : {"jira", "touch", "sync"}] /\ Grown(e) /\ e.by = "jira"
  BY <1>1, <1>2, CurrentIs DEF Grown
<1> HIDE DEF e
<1>4. TypeOK'
  <2>1. left' \in [edits : 0..MaxEdits, jira : 0..MaxJira, faults : 0..MaxFaults]
    BY <1>1, <1>2, FaultIs
  <2>2. Base' = Base
    BY <1>2 DEF Base
  <2>3. run.wrote \in BOOLEAN
    BY <1>1, <1>2, RunIs
  <2>4. QED
    BY <1>1, <1>2, <2>1, <2>2, <2>3 DEF TypeOK, Local, Now
<1>5. ~blind' => ~blind /\ (run # Idle => ~run.wrote) /\ (e.by # "sync" \/ jira' = jira)
  BY <1>2
<1>6. UNCHANGED <<field, marker>> /\ floor <= floor' /\ run' = Idle /\ (e.by = "touch" => e.val = Current.val)
  BY <1>1, <1>2, <1>3
<1>7. QED
  BY <1>3, <1>4, <1>5, <1>6, IdleKeeps

\* Jira accepts the write: the run knows what it wrote, and that it is in the current version.
LEMMA WriteKeeps ==
  ASSUME MergeInvariant, NEW tie \in BOOLEAN, Write(tie)
  PROVE  MergeInvariant'
<1> DEFINE e == [val |-> Written, by |-> "sync"]
<1>1. /\ TypeOK /\ run.pc = "write" /\ run # Idle /\ floor \in Nat /\ floor \in 1..Now /\ run \in Running
      /\ run.b \in Base /\ run.ver \in Nat /\ run.ver \in 1..Now /\ run.out \in field.values /\ Written \in field.values
      /\ None \notin field.values
  BY Parts, RunningIs, JiraIs, RunIs, LandIs, FieldIs DEF Write
<1>2. e \in [val : field.values, by : {"jira", "touch", "sync"}] /\ Grown(e) /\ e.by = "sync" /\ e.val = Written
      /\ (jira' = jira => Current.val = Written)
  BY <1>1, LandIs DEF Write
<1> HIDE DEF e
<1>3. UNCHANGED <<field, loc, who, marker, floor, left, noted, blind>>
  BY DEF Write
<1>4. /\ Now \in Nat /\ 1 <= Now /\ Now' \in Nat /\ Now <= Now' /\ \A i \in 1..Now : jira'[i] = jira[i]
      /\ jira' = jira => Now' = Now
      /\ jira' # jira => Now' = Now + 1 /\ jira'[Now'] = e
  BY <1>1, <1>2, <1>3, GrownIs, JiraIs
<1>5. jira'[Now'].val = Written
  BY <1>2, <1>4 DEF Current
<1>6. PICK w \in Nat : run' = [run EXCEPT !.pc = "reread", !.wrote = TRUE, !.young = TRUE, !.echo = run.b.sent = None,
                                 !.b = [@ EXCEPT !.sent = run.out, !.wrote = w, !.at = Now']]
  <2>1. PICK t \in run.ver..Now :
           run' = [run EXCEPT !.pc = "reread", !.wrote = TRUE, !.young = TRUE, !.echo = run.b.sent = None,
                              !.b = [@ EXCEPT !.sent = run.out, !.wrote = IF tie THEN t - 1 ELSE t, !.at = Now']]
    BY DEF Write, Now
  <2>2. (IF tie THEN t - 1 ELSE t) \in Nat
    BY <1>1, <1>4
  <2>3. QED
    BY <2>1, <2>2
<1> DEFINE c == [run.b EXCEPT !.sent = run.out, !.wrote = w, !.at = Now']
<1>7. /\ c \in Base /\ c.has = run.b.has /\ c.val = run.b.val /\ c.ver = run.b.ver /\ c.fresh = run.b.fresh
      /\ c.sent = run.out /\ c.wrote = w /\ c.at = Now'
  BY <1>1, <1>4 DEF Base
<1>8. run' = [run EXCEPT !.pc = "reread", !.wrote = TRUE, !.young = TRUE, !.echo = run.b.sent = None, !.b = c]
  BY <1>6
<1> HIDE DEF c
<1>9. /\ run' \in Running /\ run'.pc = "reread" /\ run'.b = c /\ run'.ver = run.ver /\ run'.out = run.out
      /\ run'.wrote /\ run'.young
  BY <1>1, <1>7, <1>8 DEF Running
<1>10. run' \in Running' /\ run' # Idle
  BY <1>1, <1>2, <1>3, <1>9, RunningGrown, RunningIs
<1>11. TypeOK'
  <2>1. floor' \in 1..Now' /\ Local(loc)' /\ who' \in {"person", "sync"} /\ noted' \in BOOLEAN /\ blind' \in BOOLEAN
    BY <1>1, <1>3, <1>4 DEF Local, TypeOK
  <2>2. left' \in [edits : 0..MaxEdits, jira : 0..MaxJira, faults : 0..MaxFaults]
    BY <1>1, <1>3 DEF TypeOK
  <2>3. QED
    BY <1>1, <1>2, <1>3, <1>10, <2>1, <2>2, TypeGrown
<1>12. /\ TouchInv' /\ marker' \in Base'
       /\ marker'.ver <= floor' /\ marker'.at <= Now' /\ (marker'.has => 1 <= marker'.ver)
       /\ Observed(marker)'
       /\ IF field'.multi THEN marker'.val # Unknown ELSE Grounded(marker)'
  <2>1. floor' \in Nat /\ floor <= floor' /\ UNCHANGED <<field, marker>>
    BY <1>1, <1>3
  <2>2. QED
    BY <1>2, <2>1, MarkerKept
<1>13. /\ run.ver <= floor /\ run.b.at <= Now /\ marker.ver <= run.b.ver /\ run.b.ver <= run.ver
       /\ (marker.has => run.b.has) /\ (run.b.has => 1 <= run.b.ver) /\ ~run.b.fresh /\ run.b.ver \in Nat
  BY <1>1, BaseIs, Parts DEF OrderInv
<1>14. OrderInv'
  BY <1>3, <1>4, <1>7, <1>9, <1>12, <1>13 DEF OrderInv
<1>15. RunInv'
  <2>1. c.sent = run.out /\ run.out # None /\ c.ver <= c.at /\ 1 <= c.at
    BY <1>1, <1>4, <1>7, <1>13
  <2>2. ~field.multi => jira'[c.at].val = field.norm[run.out]
    BY <1>5, <1>7 DEF Written
  <2>3. QED
    BY <1>3, <1>9, <2>1, <2>2 DEF RunInv
<1>16. ObservedInv'
  <2>1. Observed(run.b)
    BY <1>1, Parts DEF ObservedInv
  <2>2. Observed(run.b)  => (run.b.has /\ run.b.val # Unknown => run.b.val = Empty \/
                               \E i \in 1..Now' : jira'[i].val \in {run.b.val, field'.norm[run.b.val]})
    BY <1>1, <1>2, <1>3, BaseKept
  <2>3. Observed(run.b)'
    BY <1>7, <1>9, <2>1, <2>2 DEF Observed
  <2>4. QED
    BY <1>12, <2>3 DEF ObservedInv
<1>17. BaseInv'
  <2>1. CASE field.multi
    <3>1. run.b.val # Unknown
      BY <1>1, <2>1, Parts DEF BaseInv
    <3>2. QED
      BY <1>3, <1>7, <1>9, <1>12, <2>1, <3>1 DEF BaseInv
  <2>2. CASE ~field.multi
    <3>1. Grounded(run.b)
      BY <1>1, <2>2, Parts DEF BaseInv, Freshly
    <3>2. run.b.has => 1 <= run.b.ver /\ run.b.ver <= Now
      BY <1>1, <1>4, <1>13
    <3>3. run.b.has /\ run.b.val # Unknown =>
             jira'[run.b.ver].val = run.b.val \/ jira'[run.b.ver].val \notin field'.shape
      BY <1>1, <1>2, <1>3, <3>1, <3>2, BaseKept
    <3>4. Grounded(run.b)'
      BY <1>7, <1>9, <3>3 DEF Grounded
    <3>5. QED
      BY <1>3, <1>12, <2>2, <3>4 DEF BaseInv
  <2>3. QED
    BY <2>1, <2>2
<1>18. SyncInv'
  <2>1. SUFFICES ASSUME ~field.multi, ~blind PROVE Accounted(run.b)'
    BY <1>3, <1>9, <1>10 DEF SyncInv
  <2>2. Accounted(run.b) /\ run.b.sent = None
    BY <1>1, <2>1, Parts DEF SyncInv, RunInv
  <2>3. SUFFICES ASSUME NEW i \in 1..Now', jira'[i].by = "sync"
                 PROVE  i <= c.ver \/ (c.sent # None /\ i = c.at)
    BY <1>9 DEF Accounted
  <2>4. CASE i \in 1..Now
    BY <1>4, <1>7, <2>2, <2>3, <2>4 DEF Accounted
  <2>5. CASE i \notin 1..Now
    <3>1. i = Now'
      BY <1>4, <2>5
    <3>2. QED
      BY <1>1, <1>7, <3>1
  <2>6. QED
    BY <2>4, <2>5
<1>19. QED
  BY <1>11, <1>12, <1>14, <1>15, <1>16, <1>17, <1>18 DEF MergeInvariant

\* What a run that has written is, for the commit that follows its GET, or its failure.
LEMMA CommittingKeeps ==
  ASSUME MergeInvariant, run.pc = "reread", TypeOK', UNCHANGED <<field, loc, who, marker, jira, noted, blind>>,
         run' \in Running, run'.pc = "commit", run'.b = run.b, run'.out = run.out, run'.wrote = run.wrote,
         run'.young = run.young, run.ver <= run'.ver, run'.ver <= floor', floor <= floor', floor' \in Nat
  PROVE  MergeInvariant'
<1>1. TypeOK /\ run # Idle /\ run' # Idle /\ floor \in Nat /\ run.ver \in Nat /\ run.b \in Base /\ run'.ver \in Nat
  <2>1. TypeOK /\ run # Idle /\ run' # Idle
    BY Parts, RunningIs
  <2>2. run'.ver \in 1..Len(jira) /\ Len(jira) \in Nat
    BY <2>1, JiraIs DEF Running, Now
  <2>3. QED
    BY <2>1, <2>2, RunIs, JiraIs
<1>2. marker.ver \in Nat /\ run.b.ver \in Nat
  BY <1>1, BaseIs, Parts
<1>3. run.wrote
  BY <1>1, Parts DEF RunInv
<1>4. TouchInv' /\ OrderInv'
  BY <1>1, <1>2, Parts DEF TouchInv, OrderInv, Now
<1>5. RunInv' /\ ObservedInv'
  BY <1>1, <1>3, Parts DEF RunInv, ObservedInv, Observed, Now
<1>6. BaseInv'
  BY <1>1, Parts DEF BaseInv, Grounded, Freshly
<1>7. SyncInv'
  BY <1>1, <1>3, Parts DEF SyncInv, Accounted, Now
<1>8. QED
  BY <1>4, <1>5, <1>6, <1>7 DEF MergeInvariant

\* The GET after the write.
LEMMA RereadKeeps ==
  ASSUME MergeInvariant, NEW ver \in floor..Now, Reread(ver)
  PROVE  MergeInvariant'
<1>1. /\ TypeOK /\ run.pc = "reread" /\ run # Idle /\ run \in Running /\ floor \in Nat /\ 1 <= floor /\ Now \in Nat
      /\ run.ver \in Nat
  BY Parts, RunningIs, RunIs, JiraIs DEF Reread
<1>2. /\ run' = [run EXCEPT !.pc = "commit", !.ver = ver] /\ floor' = ver
      /\ UNCHANGED <<field, loc, who, marker, jira, left, noted, blind>>
  BY DEF Reread
<1>3. ver \in 1..Len(jira) /\ ver \in Nat /\ floor <= ver
  BY <1>1 DEF Now
<1>4. /\ run' \in Running /\ run'.pc = "commit" /\ run'.b = run.b /\ run'.out = run.out /\ run'.wrote = run.wrote
      /\ run'.young = run.young /\ run'.ver = ver
  BY <1>1, <1>2, <1>3 DEF Running
<1>5. run.ver <= floor
  BY <1>1, Parts DEF OrderInv
<1>6. TypeOK'
  <2>1. Running' = Running /\ Base' = Base
    BY <1>2 DEF Running, Base
  <2>2. QED
    BY <1>1, <1>2, <1>3, <1>4, <2>1 DEF TypeOK, Local, Now
<1>7. UNCHANGED <<field, loc, who, marker, jira, noted, blind>> /\ run.ver <= run'.ver /\ run'.ver <= floor'
      /\ floor <= floor' /\ floor' \in Nat
  BY <1>1, <1>2, <1>3, <1>4, <1>5
<1>8. QED
  BY <1>1, <1>4, <1>6, <1>7, CommittingKeeps

\* Its failure.
LEMMA RereadFailsKeeps ==
  ASSUME MergeInvariant, RereadFails
  PROVE  MergeInvariant'
<1>1. /\ TypeOK /\ run.pc = "reread" /\ run # Idle /\ run \in Running /\ floor \in Nat /\ run.ver \in Nat
  BY Parts, RunningIs, RunIs, JiraIs DEF RereadFails
<1>2. /\ run' = [run EXCEPT !.pc = "commit", !.echo = FALSE] /\ Fault
      /\ UNCHANGED <<field, loc, who, marker, jira, floor, noted, blind>>
  BY DEF RereadFails
<1>3. /\ run' \in Running /\ run'.pc = "commit" /\ run'.b = run.b /\ run'.out = run.out /\ run'.wrote = run.wrote
      /\ run'.young = run.young /\ run'.ver = run.ver
  BY <1>1, <1>2 DEF Running
<1>4. run.ver <= floor
  BY <1>1, Parts DEF OrderInv
<1>5. TypeOK'
  <2>1. Running' = Running /\ Base' = Base
    BY <1>2 DEF Running, Base
  <2>2. left' \in [edits : 0..MaxEdits, jira : 0..MaxJira, faults : 0..MaxFaults]
    BY <1>1, <1>2, FaultIs
  <2>3. QED
    BY <1>1, <1>2, <1>3, <2>1, <2>2 DEF TypeOK, Local, Now
<1>6. UNCHANGED <<field, loc, who, marker, jira, noted, blind>> /\ run.ver <= run'.ver /\ run'.ver <= floor'
      /\ floor <= floor' /\ floor' \in Nat
  BY <1>1, <1>2, <1>3, <1>4
<1>7. QED
  BY <1>1, <1>3, <1>5, <1>6, CommittingKeeps

\* A run begins: its base is the marker's, settled against the version that is read.
LEMMA ReadKeeps ==
  ASSUME MergeInvariant, NEW ver \in floor..Now, NEW young \in Young(marker), Read(ver, young)
  PROVE  MergeInvariant'
<1>1. /\ TypeOK /\ TouchInv /\ marker \in Base /\ loc \in field.values /\ floor \in Nat /\ 1 <= floor /\ Now \in Nat
      /\ marker.at \in Nat /\ marker.ver \in Nat /\ field.multi \in BOOLEAN
  <2>1. TypeOK /\ TouchInv /\ marker \in Base /\ floor \in Nat /\ 1 <= floor /\ Now \in Nat
    BY Parts, JiraIs
  <2>2. QED
    BY <2>1, BaseIs, FieldIs DEF TypeOK, Local
<1>2. ver \in 1..Now /\ ver \in Nat /\ floor <= ver
  BY <1>1
<1>3. young \in BOOLEAN /\ (~young => marker.at <= floor)
  BY <1>1, YoungIs
<1>4. PICK echo, s : echo = FALSE /\ s = Settle(marker, loc, ver, echo, young)
  OBVIOUS
<1>5. PICK p : p = Merge(s, loc, ver)
  OBVIOUS
<1>6. /\ run = Idle /\ floor' = ver /\ blind' = (blind \/ Mistaken(marker, ver))
      /\ run' = [pc |-> IF p.out = None THEN "commit" ELSE "write", b |-> s.b, ver |-> ver,
                 out |-> p.out, wrote |-> FALSE, echo |-> FALSE, young |-> young]
      /\ UNCHANGED <<field, loc, who, marker, jira, left, noted>>
  BY <1>4, <1>5 DEF Read
<1>7. /\ s.b \in Base /\ s.skip \in BOOLEAN /\ ~s.b.fresh /\ (marker.has => s.b.has)
      /\ s.skip => /\ marker.sent # None /\ jira[ver].val # marker.sent /\ ver <= marker.wrote /\ young
                   /\ s.b.sent = marker.sent /\ s.b.wrote = marker.wrote /\ s.b.at = marker.at
                   /\ (s.b.has <=> marker.has) /\ s.b.val = marker.val /\ s.b.ver = marker.ver
      /\ marker.sent = None =>
           /\ ~s.skip /\ s.b.sent = None /\ s.b.at = marker.at
           /\ \/ (s.b.has <=> marker.has) /\ s.b.val = marker.val /\ s.b.ver = marker.ver
              \/ /\ marker.fresh /\ ~marker.has /\ s.b.has /\ s.b.ver = ver
                 /\ s.b.val = jira[ver].val \/ (s.b.val = Empty /\ loc = Empty)
      /\ marker.sent # None /\ ~s.skip =>
           /\ s.b.sent = None /\ s.b.at = 0
           /\ jira[ver].val = marker.sent \/ marker.wrote < ver \/ ~young
           /\ field.multi => (s.b.has <=> marker.has) /\ s.b.val = marker.val /\ s.b.ver = marker.ver
           /\ ~field.multi =>
                /\ s.b.has /\ s.b.ver = ver
                /\ (s.b.val = marker.sent /\ jira[ver].val = marker.sent) \/ s.b.val = Unknown
      /\ field.multi /\ marker.val # Unknown => s.b.val # Unknown
  BY <1>1, <1>2, <1>4, SettleIs
<1>8. field.multi => s.b.val # Unknown
  BY <1>7, Parts DEF BaseInv
<1>9. /\ p.out \in {None} \cup field.values
      /\ s.skip => p.out = None
      /\ ~field.multi /\ p.out # None => s.b.has /\ jira[ver].val = s.b.val
  BY <1>1, <1>2, <1>5, <1>7, <1>8, MergeIs
<1>10. /\ run'.pc = IF p.out = None THEN "commit" ELSE "write"
       /\ run'.b = s.b /\ run'.ver = ver /\ run'.out = p.out /\ run'.wrote = FALSE /\ run'.echo = FALSE /\ run'.young = young
  BY <1>6
<1>11. run' \in Running /\ run' # Idle
  <2>1. (IF p.out = None THEN "commit" ELSE "write") \in {"write", "reread", "commit"} /\ ver \in 1..Len(jira)
    BY <1>2 DEF Now
  <2>2. run' \in Running
    BY <1>3, <1>6, <1>7, <1>9, <2>1 DEF Running
  <2>3. QED
    BY <1>1, <2>2, RunningIs
<1>12. /\ s.b.ver \in Nat /\ s.b.at \in Nat
  BY <1>7, BaseIs
<1>13. /\ marker.ver <= floor /\ marker.at <= Now /\ (marker.has => 1 <= marker.ver)
  BY Parts DEF OrderInv
<1>14. TypeOK'
  <2>1. Running' = Running /\ Base' = Base
    BY <1>6 DEF Running, Base
  <2>2. blind' \in BOOLEAN
    BY <1>1, <1>6 DEF TypeOK, Mistaken
  <2>3. QED
    BY <1>1, <1>2, <1>6, <1>11, <2>1, <2>2 DEF TypeOK, Local, Now
<1>15. TouchInv'
  BY SMTT(30), <1>1, <1>6 DEF TouchInv, Now
<1>16. \/ s.b.ver = marker.ver /\ (s.b.has <=> marker.has) /\ s.b.val = marker.val
       \/ s.b.ver = ver /\ s.b.has
  BY <1>1, <1>7
<1>17. OrderInv'
  <2>1. marker.ver <= ver /\ s.b.at <= Now
    BY <1>1, <1>2, <1>7, <1>13
  <2>2. marker.ver <= s.b.ver /\ s.b.ver <= ver /\ (s.b.has => 1 <= s.b.ver)
    BY <1>1, <1>2, <1>13, <1>16
  <2>3. QED
    BY <1>2, <1>6, <1>7, <1>10, <1>13, <2>1, <2>2 DEF OrderInv, Now
<1>18. RunInv'
  <2>1. p.out # None => s.b.sent = None
    BY <1>7, <1>9
  <2>2. s.b.sent # None => young /\ jira[ver].val # s.b.sent /\ ver <= s.b.wrote
    BY <1>7
  <2>3. QED
    BY <1>6, <1>9, <1>10, <2>1, <2>2 DEF RunInv
<1>19. ObservedInv'
  <2>1. Observed(marker)
    BY Parts DEF ObservedInv
  <2>2. ASSUME s.b.has, s.b.val # Unknown, s.b.val # Empty
        PROVE  \E i \in 1..Now : jira[i].val \in {s.b.val, field.norm[s.b.val]}
    <3>1. CASE s.b.val = jira[ver].val
      BY <1>2, <3>1
    <3>2. CASE marker.has /\ s.b.val = marker.val
      BY <2>1, <2>2, <3>2 DEF Observed
    <3>3. QED
      BY <1>1, <1>7, <2>2, <3>1, <3>2
  <2>3. QED
    BY <1>6, <1>10, <2>1, <2>2 DEF ObservedInv, Observed, Now
<1>20. BaseInv'
  <2>1. CASE field.multi
    BY <1>6, <1>8, <1>10, <2>1, Parts DEF BaseInv
  <2>2. CASE ~field.multi
    <3>1. Grounded(marker)
      BY <2>2, Parts DEF BaseInv
    <3>2. Grounded(s.b) \/ (~marker.has /\ p.out = None /\ s.b.sent = None /\ s.b.val = Empty /\ s.b.ver = ver)
      <4>1. CASE s.b.ver = marker.ver /\ (s.b.has <=> marker.has) /\ s.b.val = marker.val
        BY <3>1, <4>1 DEF Grounded
      <4>2. CASE s.b.ver = ver /\ s.b.val \in {jira[ver].val, Unknown}
        BY <4>2 DEF Grounded
      <4>3. CASE marker.sent = None /\ ~marker.has /\ s.b.ver = ver /\ s.b.val = Empty
        <5>1. s.b.sent = None
          BY <1>7, <4>3
        <5>2. p.out # None => Grounded(s.b)
          BY <1>9, <2>2, <4>3 DEF Grounded
        <5>3. QED
          BY <4>3, <5>1, <5>2
      <4>4. QED
        BY <1>1, <1>7, <2>2, <4>1, <4>2, <4>3
    <3>3. Grounded(s.b) => Grounded(run.b)'
      BY <1>6, <1>10 DEF Grounded
    <3>4. Grounded(marker)'
      BY <1>6, <3>1 DEF Grounded
    <3>5. Grounded(run.b)' \/ Freshly'
      BY <1>6, <1>10, <3>2, <3>3 DEF Freshly
    <3>6. QED
      BY <1>6, <2>2, <3>4, <3>5 DEF BaseInv
  <2>3. QED
    BY <2>1, <2>2
<1>21. SyncInv'
  <2>1. SUFFICES ASSUME ~field.multi, ~blind, ~Mistaken(marker, ver)
                 PROVE  Accounted(run.b)' /\ Accounted(marker)'
    BY <1>6 DEF SyncInv
  <2>2. Accounted(marker)
    BY <1>6, <2>1, Parts DEF SyncInv
  <2>3. Accounted(marker)'
    BY <1>6, <2>2 DEF Accounted, Now
  <2>4. SUFFICES ASSUME NEW i \in 1..Now, jira[i].by = "sync"
                 PROVE  i <= s.b.ver \/ (s.b.sent # None /\ i = s.b.at)
    BY <1>6, <1>10, <2>3 DEF Accounted, Now
  <2>5. i <= marker.ver \/ (marker.sent # None /\ i = marker.at)
    BY <2>2, <2>4 DEF Accounted
  <2>6. CASE s.skip
    BY <1>7, <2>5, <2>6
  <2>7. CASE marker.sent = None
    BY <1>1, <1>2, <1>7, <1>13, <2>5, <2>7
  <2>8. CASE marker.sent # None /\ ~s.skip
    <3>1. s.b.ver = ver /\ (jira[ver].val = marker.sent \/ marker.wrote < ver \/ ~young)
      BY <1>7, <2>1, <2>8
    <3>2. ~(ver < marker.at)
      BY <1>1, <1>2, <1>3, <2>1, <2>8, <3>1 DEF Mistaken
    <3>3. QED
      BY <1>1, <1>2, <1>13, <2>5, <3>1, <3>2
  <2>9. QED
    BY <1>7, <2>6, <2>7, <2>8
<1>22. QED
  BY <1>14, <1>15, <1>17, <1>18, <1>19, <1>20, <1>21 DEF MergeInvariant

\* A commit: the base settled against the version the run read last, and the merge
\* decided again.
LEMMA CommitIs ==
  ASSUME MergeInvariant, Commit
  PROVE  \E s, p :
           /\ s.b \in Base /\ s.skip \in BOOLEAN /\ ~s.b.fresh /\ (run.b.has => s.b.has)
           /\ s.skip => /\ run.b.sent # None
                        /\ s.b.sent = run.b.sent /\ s.b.at = run.b.at
                        /\ (s.b.has <=> run.b.has) /\ s.b.val = run.b.val /\ s.b.ver = run.b.ver
           /\ run.b.sent = None =>
                /\ ~s.skip /\ s.b.sent = None /\ s.b.at = run.b.at
                /\ (s.b.has <=> run.b.has) /\ s.b.val = run.b.val /\ s.b.ver = run.b.ver
           /\ run.b.sent # None /\ ~s.skip =>
                /\ s.b.sent = None /\ s.b.at = 0
                /\ jira[run.ver].val = run.b.sent \/ run.b.wrote < run.ver
                /\ ~field.multi =>
                     /\ s.b.has /\ s.b.ver = run.ver
                     /\ \/ s.b.val = run.b.sent /\ (jira[run.ver].val = run.b.sent \/ run.echo)
                        \/ s.b.val = Unknown
           /\ field.multi => (s.b.has <=> run.b.has) /\ s.b.val = run.b.val /\ s.b.ver = run.b.ver /\ s.b.val # Unknown
           /\ Local(p.to) /\ p.conflict \in BOOLEAN /\ p.base \in Base /\ ~p.base.fresh
           /\ s.skip => p.to = loc /\ p.base = s.b
           /\ p.base.sent = s.b.sent /\ p.base.at = s.b.at
           /\ \/ /\ (p.base.has <=> s.b.has) /\ p.base.val = s.b.val /\ p.base.ver = s.b.ver
                 /\ field.multi \/ s.skip \/ jira[run.ver].val \notin field.shape \/ (s.b.has /\ jira[run.ver].val = s.b.val)
              \/ /\ ~s.skip /\ p.base.has /\ p.base.val = jira[run.ver].val /\ p.base.ver = run.ver
           /\ ~field.multi /\ p.to # loc =>
                /\ ~s.skip /\ p.to = jira[run.ver].val /\ jira[run.ver].val \in field.shape
                /\ \/ p.conflict \/ (s.b.has /\ loc = s.b.val /\ jira[run.ver].val # s.b.val)
                   \/ (~s.b.has /\ loc = Empty)
           /\ loc' = p.to /\ who' = (IF p.to = loc THEN who ELSE "sync") /\ marker' = p.base /\ noted' = p.conflict
           /\ blind' = (blind \/ Mistaken(run.b, run.ver)) /\ run' = Idle
           /\ UNCHANGED <<field, jira, floor, left>>
<1>1. /\ TypeOK /\ run.pc = "commit" /\ run # Idle /\ run.b \in Base /\ run.ver \in 1..Now
      /\ loc \in field.values /\ Local(loc) /\ run.young \in BOOLEAN
  <2>1. TypeOK /\ run.pc = "commit" /\ run # Idle
    BY Parts, RunningIs DEF Commit
  <2>2. QED
    BY <2>1, RunIs DEF TypeOK, Local
<1>2. PICK s : s = Settle(run.b, loc, run.ver, run.echo, run.young)
  OBVIOUS
<1>3. PICK m : m = Merge(s, loc, run.ver)
  OBVIOUS
<1>4. PICK p : p = Admit(m, s.b, loc)
  OBVIOUS
<1>5. /\ loc' = p.to /\ who' = (IF p.to = loc THEN who ELSE "sync") /\ marker' = p.base /\ noted' = p.conflict
      /\ blind' = (blind \/ Mistaken(run.b, run.ver)) /\ run' = Idle
      /\ UNCHANGED <<field, jira, floor, left>>
  BY <1>2, <1>3, <1>4 DEF Commit
<1>6. /\ s.b \in Base /\ s.skip \in BOOLEAN /\ ~s.b.fresh /\ (run.b.has => s.b.has)
      /\ s.skip => /\ run.b.sent # None
                   /\ s.b.sent = run.b.sent /\ s.b.at = run.b.at
                   /\ (s.b.has <=> run.b.has) /\ s.b.val = run.b.val /\ s.b.ver = run.b.ver
      /\ run.b.sent = None =>
           /\ ~s.skip /\ s.b.sent = None /\ s.b.at = run.b.at
           /\ \/ (s.b.has <=> run.b.has) /\ s.b.val = run.b.val /\ s.b.ver = run.b.ver
              \/ run.b.fresh
      /\ run.b.sent # None /\ ~s.skip =>
           /\ s.b.sent = None /\ s.b.at = 0
           /\ jira[run.ver].val = run.b.sent \/ run.b.wrote < run.ver \/ ~run.young
           /\ field.multi => (s.b.has <=> run.b.has) /\ s.b.val = run.b.val /\ s.b.ver = run.b.ver
           /\ ~field.multi =>
                /\ s.b.has /\ s.b.ver = run.ver
                /\ \/ s.b.val = run.b.sent /\ (jira[run.ver].val = run.b.sent \/ run.echo)
                   \/ s.b.val = Unknown
      /\ field.multi /\ run.b.val # Unknown => s.b.val # Unknown
  BY <1>1, <1>2, SettleIs
<1>7. /\ ~run.b.fresh /\ (field.multi => run.b.val # Unknown) /\ (run.b.sent # None => run.young)
  BY <1>1, Parts DEF OrderInv, BaseInv, RunInv
<1>8. /\ Local(p.to) /\ p.conflict \in BOOLEAN /\ p.base \in Base
      /\ s.skip => p.to = loc /\ p.base = s.b
      /\ p.base.sent = s.b.sent /\ p.base.at = s.b.at /\ (p.base.fresh <=> s.b.fresh)
      /\ \/ /\ (p.base.has <=> s.b.has) /\ p.base.val = s.b.val /\ p.base.ver = s.b.ver
            /\ field.multi \/ s.skip \/ jira[run.ver].val \notin field.shape \/ (s.b.has /\ jira[run.ver].val = s.b.val)
         \/ /\ ~s.skip /\ p.base.has /\ p.base.val = jira[run.ver].val /\ p.base.ver = run.ver
      /\ ~field.multi /\ p.to # loc =>
           /\ ~s.skip /\ p.to = jira[run.ver].val /\ jira[run.ver].val \in field.shape
           /\ \/ p.conflict \/ (s.b.has /\ loc = s.b.val /\ jira[run.ver].val # s.b.val)
              \/ (~s.b.has /\ loc = Empty)
  BY <1>1, <1>3, <1>4, <1>6, <1>7, AdmitIs
<1>9. /\ run.b.sent = None =>
           (s.b.has <=> run.b.has) /\ s.b.val = run.b.val /\ s.b.ver = run.b.ver
      /\ run.b.sent # None /\ ~s.skip => jira[run.ver].val = run.b.sent \/ run.b.wrote < run.ver
      /\ field.multi => (s.b.has <=> run.b.has) /\ s.b.val = run.b.val /\ s.b.ver = run.b.ver /\ s.b.val # Unknown
      /\ ~p.base.fresh
  BY <1>6, <1>7, <1>8
<1>10. QED
  <2>1. WITNESS s, p
  <2>2. QED
    BY <1>5, <1>6, <1>8, <1>9

\* A write that a commit takes for seen, or for lost, is in the version it read.
LEMMA ClearedIs ==
  ASSUME MergeInvariant, run # Idle, run.b.sent # None, ~Mistaken(run.b, run.ver),
         jira[run.ver].val = run.b.sent \/ run.b.wrote < run.ver
  PROVE  run.b.at <= run.ver
<1>1. run.b.at \in Nat /\ run.ver \in Nat
  BY Parts, RunIs, BaseIs
<1>2. QED
  BY <1>1 DEF Mistaken

\* The commit.
LEMMA CommitKeeps ==
  ASSUME MergeInvariant, Commit
  PROVE  MergeInvariant'
<1>1. /\ TypeOK /\ TouchInv /\ run # Idle /\ run.b \in Base /\ run.ver \in 1..Now /\ run.ver \in Nat
      /\ floor \in Nat /\ Now \in Nat /\ field.multi \in BOOLEAN /\ run.echo \in BOOLEAN
  <2>1. TypeOK /\ TouchInv /\ run # Idle
    BY Parts, RunningIs DEF Commit
  <2>2. QED
    BY <2>1, RunIs, JiraIs, FieldIs
<1>2. run.b.ver \in Nat /\ run.b.at \in Nat
  BY <1>1, BaseIs
<1>3. PICK s, p :
           /\ s.b \in Base /\ s.skip \in BOOLEAN /\ ~s.b.fresh /\ (run.b.has => s.b.has)
           /\ s.skip => /\ run.b.sent # None
                        /\ s.b.sent = run.b.sent /\ s.b.at = run.b.at
                        /\ (s.b.has <=> run.b.has) /\ s.b.val = run.b.val /\ s.b.ver = run.b.ver
           /\ run.b.sent = None =>
                /\ ~s.skip /\ s.b.sent = None /\ s.b.at = run.b.at
                /\ (s.b.has <=> run.b.has) /\ s.b.val = run.b.val /\ s.b.ver = run.b.ver
           /\ run.b.sent # None /\ ~s.skip =>
                /\ s.b.sent = None /\ s.b.at = 0
                /\ jira[run.ver].val = run.b.sent \/ run.b.wrote < run.ver
                /\ ~field.multi =>
                     /\ s.b.has /\ s.b.ver = run.ver
                     /\ \/ s.b.val = run.b.sent /\ (jira[run.ver].val = run.b.sent \/ run.echo)
                        \/ s.b.val = Unknown
           /\ field.multi => (s.b.has <=> run.b.has) /\ s.b.val = run.b.val /\ s.b.ver = run.b.ver /\ s.b.val # Unknown
           /\ Local(p.to) /\ p.conflict \in BOOLEAN /\ p.base \in Base /\ ~p.base.fresh
           /\ s.skip => p.to = loc /\ p.base = s.b
           /\ p.base.sent = s.b.sent /\ p.base.at = s.b.at
           /\ \/ /\ (p.base.has <=> s.b.has) /\ p.base.val = s.b.val /\ p.base.ver = s.b.ver
                 /\ field.multi \/ s.skip \/ jira[run.ver].val \notin field.shape \/ (s.b.has /\ jira[run.ver].val = s.b.val)
              \/ /\ ~s.skip /\ p.base.has /\ p.base.val = jira[run.ver].val /\ p.base.ver = run.ver
           /\ loc' = p.to /\ who' = (IF p.to = loc THEN who ELSE "sync") /\ marker' = p.base /\ noted' = p.conflict
           /\ blind' = (blind \/ Mistaken(run.b, run.ver)) /\ run' = Idle
           /\ UNCHANGED <<field, jira, floor, left>>
  BY CommitIs
<1>4. /\ run.ver <= floor /\ run.b.at <= Now /\ run.b.ver <= run.ver /\ (run.b.has => 1 <= run.b.ver) /\ floor <= Now
  BY <1>1, Parts, JiraIs DEF OrderInv
<1>5. TypeOK'
  <2>1. Base' = Base /\ blind' \in BOOLEAN /\ who' \in {"person", "sync"}
    BY <1>1, <1>3 DEF Base, TypeOK, Mistaken
  <2>2. Local(loc)'
    BY <1>3 DEF Local
  <2>3. QED
    BY <1>1, <1>3, <2>1, <2>2 DEF TypeOK, Now
<1>6. TouchInv'
  BY <1>1, <1>3 DEF TouchInv, Now
<1>7. \/ s.b.ver = run.b.ver /\ (s.b.has <=> run.b.has) /\ s.b.val = run.b.val
      \/ s.b.ver = run.ver /\ s.b.has
  BY <1>1, <1>3
<1>8. p.base.ver \in {run.b.ver, run.ver} /\ p.base.at <= Now /\ (p.base.has => 1 <= p.base.ver)
  BY <1>1, <1>2, <1>3, <1>4, <1>7
<1>9. OrderInv'
  BY <1>1, <1>2, <1>3, <1>4, <1>8 DEF OrderInv, Now
<1>10. RunInv'
  BY <1>3 DEF RunInv
<1>11. ObservedInv'
  <2>1. Observed(run.b)
    BY <1>1, Parts DEF ObservedInv
  <2>2. run.echo => run.wrote
    BY <1>1, Parts DEF RunInv
  <2>3. ~field.multi /\ run.wrote => run.b.at \in 1..Now /\ jira[run.b.at].val = field.norm[run.b.sent]
    BY <1>1, <1>2, <1>4, Parts DEF RunInv
  <2>4. ASSUME p.base.has, p.base.val # Unknown, p.base.val # Empty
        PROVE  \E i \in 1..Now : jira[i].val \in {p.base.val, field.norm[p.base.val]}
    <3>1. CASE p.base.val = jira[run.ver].val
      BY <1>1, <3>1
    <3>2. CASE run.b.has /\ p.base.val = run.b.val
      BY <2>1, <2>4, <3>2 DEF Observed
    <3>3. CASE run.echo /\ ~field.multi /\ p.base.val = run.b.sent
      BY <2>2, <2>3, <3>3
    <3>4. QED
      <4>1. CASE s.skip \/ run.b.sent = None \/ field.multi
        BY <1>1, <1>3, <2>4, <3>1, <3>2, <4>1
      <4>2. CASE ~s.skip /\ run.b.sent # None /\ ~field.multi
        BY <1>1, <1>3, <2>4, <3>1, <3>3, <4>2
      <4>3. QED
        BY <1>1, <1>3, <4>1, <4>2
  <2>5. QED
    BY <1>3, <2>4 DEF ObservedInv, Observed, Now
<1>12. BaseInv'
  <2>1. jira[run.ver].val # Unknown
    BY <1>1, JiraIs, FieldIs
  <2>2. CASE field.multi
    BY <1>3, <2>1, <2>2 DEF BaseInv
  <2>3. CASE ~field.multi
    <3>1. Grounded(run.b) \/ Freshly
      BY <1>1, <2>3, Parts DEF BaseInv
    <3>2. Grounded(p.base)
      <4>1. CASE p.base.val = jira[run.ver].val /\ p.base.ver = run.ver
        BY <4>1 DEF Grounded
      <4>2. CASE s.b.ver = run.ver /\ (p.base.has <=> s.b.has) /\ p.base.val = s.b.val /\ p.base.ver = s.b.ver /\ ~s.skip
        BY <1>3, <2>3, <4>2 DEF Grounded
      <4>3. CASE /\ (s.b.has <=> run.b.has) /\ s.b.val = run.b.val /\ s.b.ver = run.b.ver
                 /\ (p.base.has <=> s.b.has) /\ p.base.val = s.b.val /\ p.base.ver = s.b.ver
        <5>1. CASE Grounded(run.b)
          BY <4>3, <5>1 DEF Grounded
        <5>2. CASE Freshly
          <6>1. s.b.ver = run.ver /\ ~s.skip
            BY <1>3, <4>3, <5>2 DEF Freshly
          <6>2. QED
            BY <4>2, <4>3, <6>1
        <5>3. QED
          BY <3>1, <5>1, <5>2
      <4>4. QED
        BY <1>1, <1>3, <2>3, <4>1, <4>2, <4>3
    <3>3. QED
      BY <1>3, <2>3, <3>2 DEF BaseInv, Grounded
  <2>4. QED
    BY <2>2, <2>3
<1>13. SyncInv'
  <2>1. SUFFICES ASSUME ~field.multi, ~blind, ~Mistaken(run.b, run.ver) PROVE Accounted(marker)'
    BY <1>3 DEF SyncInv
  <2>2. SUFFICES ASSUME NEW i \in 1..Now, jira[i].by = "sync"
                 PROVE  i <= p.base.ver \/ (p.base.sent # None /\ i = p.base.at)
    BY <1>3 DEF Accounted, Now
  <2>3. i <= run.b.ver \/ (run.b.sent # None /\ i = run.b.at)
    BY <1>1, <2>1, <2>2, Parts DEF SyncInv, Accounted
  <2>4. CASE s.skip
    BY <1>3, <2>3, <2>4
  <2>5. CASE run.b.sent = None
    BY <1>1, <1>2, <1>3, <1>4, <2>3, <2>5
  <2>6. CASE run.b.sent # None /\ ~s.skip
    <3>1. p.base.ver = run.ver
      BY <1>3, <2>1, <2>6
    <3>2. run.b.at <= run.ver
      BY <1>1, <1>3, <2>1, <2>6, ClearedIs
    <3>3. QED
      BY <1>1, <1>2, <1>4, <2>3, <3>1, <3>2
  <2>7. QED
    BY <1>3, <2>4, <2>5, <2>6
<1>14. QED
  BY <1>5, <1>6, <1>9, <1>10, <1>11, <1>12, <1>13 DEF MergeInvariant

-----------------------------------------------------------------------------
(* The invariant.                                                          *)

\* A link of any origin begins with it.
LEMMA InitHolds ==
  ASSUME Init
  PROVE  MergeInvariant
<1>1. /\ field \in Fields /\ Local(loc) /\ loc \in field.values
      /\ who = "person" /\ floor = 1 /\ run = Idle /\ noted = FALSE /\ blind = FALSE
      /\ left = [edits |-> MaxEdits, jira |-> MaxJira, faults |-> MaxFaults]
  BY DEF Init, Local
<1>2. /\ field.multi \in BOOLEAN /\ Empty \in field.values /\ field.values \subseteq Value
      /\ Unknown \notin field.values /\ None \notin field.values
      /\ \A v \in field.values : field.norm[v] \in field.values
  <2>1. field \in Field
    BY <1>1, MergeAssumption
  <2>2. field.multi \in BOOLEAN /\ field.values \subseteq Value
    BY <2>1 DEF Field
  <2>3. Empty \in field.values
    BY <1>1, MergeAssumption
  <2>4. \A v \in field.values : field.norm[v] \in field.values
    BY <1>1, MergeAssumption
  <2>5. QED
    BY <2>2, <2>3, <2>4, MergeAssumption
<1>3. PICK e \in [val : field.values, by : {"jira", "touch", "sync"}] :
        /\ jira = <<e>>
        /\ marker \in Base /\ marker.at <= 1
        /\ \/ marker.has /\ marker.val = e.val /\ marker.ver = 1 /\ e.by = "touch"
           \/ ~marker.has /\ marker.ver = 0 /\ marker.val = Empty /\ e.by # "sync"
           \/ ~marker.has /\ marker.ver = 0 /\ marker.val = Empty /\ marker.sent # None /\ marker.at = 1
  <2>1. NoBase \in Base
    BY <1>2 DEF NoBase, Base
  <2>2. PICK origin \in Origins : Linked(origin)
    BY DEF Init
  <2>3. CASE jira = <<[val |-> loc, by |-> "touch"]>> /\ marker = [NoBase EXCEPT !.has = TRUE, !.val = loc, !.ver = 1]
    <3>1. marker \in Base /\ marker.has /\ marker.val = loc /\ marker.ver = 1 /\ marker.at = 0
      BY <1>1, <2>1, <2>3 DEF NoBase, Base
    <3>2. QED
      BY <1>1, <2>3, <3>1
  <2>4. CASE \E v \in Value : Normal(v) /\ marker = [NoBase EXCEPT !.fresh = origin = "create"]
                /\ jira = <<[val |-> v, by |-> IF origin = "create" THEN "touch" ELSE "jira"]>>
    <3>1. PICK v \in Value : Normal(v) /\ marker = [NoBase EXCEPT !.fresh = origin = "create"]
                /\ jira = <<[val |-> v, by |-> IF origin = "create" THEN "touch" ELSE "jira"]>>
      BY <2>4
    <3>2. marker \in Base /\ ~marker.has /\ marker.ver = 0 /\ marker.val = Empty /\ marker.at = 0
      BY <2>1, <3>1 DEF NoBase, Base
    <3> DEFINE d == [val |-> v, by |-> IF origin = "create" THEN "touch" ELSE "jira"]
    <3>3. d \in [val : field.values, by : {"jira", "touch", "sync"}] /\ d.by # "sync"
      BY <3>1 DEF Normal
    <3> HIDE DEF d
    <3>4. jira = <<d>>
      BY <3>1 DEF d
    <3>5. QED
      BY <3>2, <3>3, <3>4
  <2>5. CASE /\ loc \in field.writable /\ jira = <<[val |-> field.norm[loc], by |-> "sync"]>>
             /\ marker = [NoBase EXCEPT !.fresh = TRUE, !.sent = loc, !.at = 1]
    <3>1. marker \in Base /\ ~marker.has /\ marker.ver = 0 /\ marker.val = Empty /\ marker.sent # None /\ marker.at = 1
      BY <1>1, <1>2, <2>1, <2>5 DEF NoBase, Base
    <3>2. [val |-> field.norm[loc], by |-> "sync"] \in [val : field.values, by : {"jira", "touch", "sync"}]
      BY <1>1, <1>2
    <3>3. QED
      BY <2>5, <3>1, <3>2
  <2>6. QED
    BY <2>2, <2>3, <2>4, <2>5 DEF Linked
<1>4. Len(jira) = 1 /\ jira[1] = e /\ jira \in Seq([val : field.values, by : {"jira", "touch", "sync"}])
  BY <1>3
<1>5. TypeOK
  <2>1. left \in [edits : 0..MaxEdits, jira : 0..MaxJira, faults : 0..MaxFaults]
    BY <1>1, MergeAssumption
  <2>2. floor \in 1..Now
    BY <1>1, <1>4 DEF Now
  <2>3. QED
    BY <1>1, <1>3, <1>4, <2>1, <2>2 DEF TypeOK
<1>6. TouchInv
  <2>1. \A i, j \in 1..Now : i = j
    BY <1>4 DEF Now
  <2>2. QED
    BY <2>1 DEF TouchInv
<1>7. OrderInv
  <2>1. marker.ver <= 1 /\ marker.at <= 1 /\ (marker.has => 1 <= marker.ver)
    BY <1>3
  <2>2. QED
    BY <1>1, <1>4, <2>1 DEF OrderInv, Now
<1>8. RunInv
  BY <1>1 DEF RunInv
<1>9. ObservedInv
  <2>1. 1 \in 1..Now
    BY <1>4 DEF Now
  <2>2. QED
    BY <1>1, <1>3, <1>4, <2>1 DEF ObservedInv, Observed
<1>10. BaseInv
  <2>1. marker.val # Unknown
    BY <1>2, <1>3
  <2>2. Grounded(marker)
    BY <1>3, <1>4 DEF Grounded
  <2>3. QED
    BY <1>1, <2>1, <2>2 DEF BaseInv
<1>11. SyncInv
  <2>1. \A i \in 1..Now : i = 1
    BY <1>4 DEF Now
  <2>2. Accounted(marker)
    BY <1>3, <1>4, <2>1 DEF Accounted
  <2>3. QED
    BY <1>1, <2>2 DEF SyncInv
<1>12. QED
  BY <1>5, <1>6, <1>7, <1>8, <1>9, <1>10, <1>11 DEF MergeInvariant

\* A step that changes nothing keeps it.
LEMMA StutterHolds ==
  ASSUME MergeInvariant, UNCHANGED vars
  PROVE  MergeInvariant'
<1>1. UNCHANGED <<field, marker, run, blind, loc, who, jira, floor, left, noted>>
  BY DEF vars
<1>2. Base' = Base
  BY <1>1 DEF Base
<1>3. Running' = Running
  BY <1>1, <1>2 DEF Running
<1>4. TypeOK'
  BY <1>1, <1>2, <1>3, Parts DEF TypeOK, Local, Now
<1>5. TouchInv' /\ OrderInv' /\ RunInv'
  BY <1>1, Parts DEF TouchInv, OrderInv, RunInv, Now
<1>6. ObservedInv' /\ BaseInv' /\ SyncInv'
  BY <1>1, Parts DEF ObservedInv, Observed, BaseInv, Grounded, Freshly, SyncInv, Accounted, Now
<1>7. QED
  BY <1>4, <1>5, <1>6 DEF MergeInvariant

\* Every step of the spec keeps it.
LEMMA StepHolds ==
  ASSUME MergeInvariant, [Next]_vars
  PROVE  MergeInvariant'
<1>1. ASSUME NEW v \in Value, Edit(v) \/ JiraEdit(v)
      PROVE  MergeInvariant'
  BY <1>1, EditKeeps, JiraEditKeeps
<1>2. ASSUME NEW k \in 1..Now, Pass(k)
      PROVE  MergeInvariant'
  BY <1>2, PassKeeps
<1>3. ASSUME NEW ver \in floor..Now, NEW young \in Young(marker), Read(ver, young)
      PROVE  MergeInvariant'
  BY <1>3, ReadKeeps
<1>4. ASSUME NEW tie \in BOOLEAN, Write(tie)
      PROVE  MergeInvariant'
  BY <1>4, WriteKeeps
<1>5. ASSUME NEW ver \in floor..Now, Reread(ver)
      PROVE  MergeInvariant'
  BY <1>5, RereadKeeps
<1>6. CASE Person
  BY <1>1, <1>6 DEF Person
<1>7. CASE Time
  BY <1>2, <1>7 DEF Time
<1>8. CASE Reading
  BY <1>3, <1>8 DEF Reading
<1>9. CASE Writing
  BY <1>4, <1>9, WriteRefusedKeeps, WriteLostKeeps DEF Writing
<1>10. CASE Rereading
  BY <1>5, <1>10, RereadFailsKeeps DEF Rereading
<1>11. CASE Commit
  BY <1>11, CommitKeeps
<1>12. CASE Crash
  BY <1>12, CrashKeeps
<1>13. CASE UNCHANGED vars
  BY <1>13, StutterHolds
<1>14. QED
  BY <1>6, <1>7, <1>8, <1>9, <1>10, <1>11, <1>12, <1>13 DEF Next

\* The invariant holds in every run of the sync: whatever the fields, the edits on
\* both sides, the lag of Jira's answers and the crashes (jira/issue.go, converge, commit).
THEOREM MergeInvariance == Spec => []MergeInvariant
<1>1. Init => MergeInvariant
  BY InitHolds
<1>2. MergeInvariant /\ [Next]_vars => MergeInvariant'
  BY StepHolds
<1>3. QED
  BY <1>1, <1>2, PTL DEF Spec

\* Every variable keeps its type: the issue's value is always one the person may set,
\* which the schema's shape does not refuse (jira/issue.go, admit).
THEOREM MergeTyped == Spec => []TypeOK
<1>1. MergeInvariant => TypeOK
  BY DEF MergeInvariant
<1>2. QED
  BY <1>1, MergeInvariance, PTL

\* A base is a value that Jira was seen to hold, or accepted from the sync and made
\* something else of, or the empty one of a create (jira/merge.go, merge).
THEOREM BaseWasJiras == Spec => []BaseObserved
<1>1. MergeInvariant => BaseObserved
  BY DEF MergeInvariant, ObservedInv, Observed, BaseObserved
<1>2. QED
  BY <1>1, MergeInvariance, PTL

-----------------------------------------------------------------------------
(* What a step of the sync may not do.                                     *)

\* Between two versions with different values one is no touch.
LEMMA Changed ==
  ASSUME TypeOK, TouchInv, NEW i \in 1..Now, NEW j \in 1..Now, i <= j, jira[i].val # jira[j].val
  PROVE  \E k \in i + 1..j : k \in 1..Now /\ jira[k].by \in {"jira", "sync"}
<1>1. Now \in Nat /\ \A k \in 1..Now : jira[k].by \in {"jira", "touch", "sync"}
  BY JiraIs
<1>2. PICK k \in i + 1..j : jira[k].by # "touch"
  BY DEF TouchInv
<1>3. k \in 1..Now
  BY <1>1
<1>4. QED
  BY <1>1, <1>2, <1>3

\* A commit that takes Jira's value over the person's with no conflict is justified.
LEMMA CommitJustified ==
  ASSUME MergeInvariant, Commit, Silent, ~field.multi, ~blind'
  PROVE  FALSE
<1>1. /\ TypeOK /\ TouchInv /\ run # Idle /\ run.b \in Base /\ run.ver \in 1..Now /\ run.ver \in Nat
      /\ Now \in Nat /\ loc \in field.values /\ Unknown \notin field.values
  <2>1. TypeOK /\ TouchInv /\ run # Idle
    BY Parts, RunningIs DEF Commit
  <2>2. QED
    BY <2>1, RunIs, JiraIs, FieldIs DEF TypeOK, Local
<1>2. run.b.ver \in Nat /\ run.b.at \in Nat /\ marker.ver \in Nat
  BY <1>1, BaseIs, Parts
<1>3. PICK s, p :
           /\ (run.b.has => s.b.has)
           /\ run.b.sent = None => (s.b.has <=> run.b.has) /\ s.b.val = run.b.val /\ s.b.ver = run.b.ver
           /\ run.b.sent # None /\ ~s.skip =>
                /\ jira[run.ver].val = run.b.sent \/ run.b.wrote < run.ver
                /\ ~field.multi =>
                     \/ s.b.val = run.b.sent /\ (jira[run.ver].val = run.b.sent \/ run.echo)
                     \/ s.b.val = Unknown
           /\ ~field.multi /\ p.to # loc =>
                /\ ~s.skip /\ p.to = jira[run.ver].val /\ jira[run.ver].val \in field.shape
                /\ \/ p.conflict \/ (s.b.has /\ loc = s.b.val /\ jira[run.ver].val # s.b.val)
                   \/ (~s.b.has /\ loc = Empty)
           /\ loc' = p.to /\ who' = (IF p.to = loc THEN who ELSE "sync") /\ noted' = p.conflict
           /\ blind' = (blind \/ Mistaken(run.b, run.ver))
  BY CommitIs
<1>4. ~blind /\ ~Mistaken(run.b, run.ver) /\ ~Justified /\ ~p.conflict /\ p.to # loc
  BY <1>3 DEF Silent, Loses
<1>5. marker.ver <= run.b.ver /\ run.b.ver <= run.ver /\ (marker.has => run.b.has) /\ (run.b.has => 1 <= run.b.ver)
  BY <1>1, Parts DEF OrderInv
<1>6. ~(~marker.has /\ loc = Empty)
  BY <1>4 DEF Justified
<1>7. s.b.has /\ loc = s.b.val /\ jira[run.ver].val # s.b.val /\ jira[run.ver].val \in field.shape /\ ~s.skip
  BY <1>3, <1>4, <1>5, <1>6
<1>8. \A k \in marker.ver + 1..run.ver : jira[k].by # "jira"
  BY <1>4 DEF Justified
<1>9. Accounted(run.b)
  BY <1>1, <1>4, Parts DEF SyncInv
<1>10. CASE run.b.sent = None
  <2>1. run.b.has /\ run.b.val = loc /\ run.b.ver \in 1..Now
    BY <1>1, <1>2, <1>3, <1>5, <1>7, <1>10
  <2>2. Grounded(run.b)
    <3>1. Freshly => ~marker.has /\ loc = Empty
      BY <2>1 DEF Freshly
    <3>2. QED
      BY <1>1, <1>6, <3>1, Parts DEF BaseInv
  <2>3. jira[run.b.ver].val # jira[run.ver].val
    BY <1>1, <1>7, <2>1, <2>2 DEF Grounded
  <2>4. PICK k \in run.b.ver + 1..run.ver : k \in 1..Now /\ jira[k].by \in {"jira", "sync"}
    BY <1>1, <1>5, <2>1, <2>3, Changed
  <2>5. k \in marker.ver + 1..run.ver /\ ~(k <= run.b.ver)
    BY <1>1, <1>2, <1>5, <2>4
  <2>6. QED
    BY <1>8, <1>9, <1>10, <2>4, <2>5 DEF Accounted
<1>11. CASE run.b.sent # None
  <2>1. run.b.sent = loc /\ run.echo /\ run.b.at <= run.ver
    <3>1. s.b.val = run.b.sent /\ run.echo
      BY <1>1, <1>3, <1>7, <1>11
    <3>2. run.b.at <= run.ver
      BY <1>1, <1>3, <1>4, <1>7, <1>11, ClearedIs
    <3>3. QED
      BY <1>7, <3>1, <3>2
  <2>2. run.wrote
    BY <1>1, <2>1, Parts DEF RunInv
  <2>3. /\ run.b.sent = run.out /\ run.b.ver <= run.b.at /\ 1 <= run.b.at
        /\ jira[run.b.at].val = field.norm[run.out]
    BY <1>1, <2>2, Parts DEF RunInv
  <2>4. jira[run.b.at].val # jira[run.ver].val
    BY <1>4, <2>1, <2>2, <2>3 DEF Justified
  <2>5. run.b.at \in 1..Now
    BY <1>1, <1>2, <2>1, <2>3
  <2>6. PICK k \in run.b.at + 1..run.ver : k \in 1..Now /\ jira[k].by \in {"jira", "sync"}
    BY <1>1, <2>1, <2>4, <2>5, Changed
  <2>7. k \in marker.ver + 1..run.ver /\ ~(k <= run.b.ver) /\ k # run.b.at
    BY <1>1, <1>2, <1>5, <2>3, <2>6
  <2>8. QED
    BY <1>8, <1>9, <2>6, <2>7 DEF Accounted
<1>12. QED
  BY <1>10, <1>11

\* No value of the person is replaced in silence: not with no conflict note, unless it
\* is the base and someone changed Jira since, or the sync's own write of it was changed
\* by Jira, or there was no base and the issue had none; save for a set, and after a
\* write that no run learnt of (jira/issue.go, commit; jira/merge.go, decide).
THEOREM SilenceJustified == Spec => NeverSilent
<1>1. ASSUME MergeInvariant, [Next]_vars
      PROVE  [Silent => field.multi \/ blind']_vars
  <2>1. ASSUME who' # "sync" \/ who' = who
        PROVE  ~Silent
    BY <2>1 DEF Silent, Loses
  <2>2. CASE Commit
    BY <1>1, <2>2, CommitJustified
  <2>3. CASE Person
    BY <2>1, <2>3 DEF Person, Edit, JiraEdit
  <2>4. CASE Time
    BY <2>1, <2>4 DEF Time, Pass
  <2>5. CASE Reading
    BY <2>1, <2>5 DEF Reading, Read
  <2>6. CASE Writing
    BY <2>1, <2>6 DEF Writing, Write, WriteRefused, WriteLost
  <2>7. CASE Rereading
    BY <2>1, <2>7 DEF Rereading, Reread, RereadFails
  <2>8. CASE Crash
    BY <2>1, <2>8 DEF Crash
  <2>9. CASE UNCHANGED vars
    BY <2>9
  <2>10. QED
    BY <1>1, <2>2, <2>3, <2>4, <2>5, <2>6, <2>7, <2>8, <2>9 DEF Next
<1>2. QED
  BY <1>1, MergeInvariance, PTL DEF Spec, NeverSilent

\* A value the run has read, that someone set in Jira, is overwritten only if the base
\* is that value.
LEMMA WriteIsBased ==
  ASSUME MergeInvariant, run.pc = "write", ~field.multi,
         NEW i \in 1..run.ver, \A j \in i + 1..run.ver : jira[j].by = "touch"
  PROVE  run.b.has /\ jira[i].val = run.b.val
<1>1. TypeOK /\ TouchInv /\ run # Idle /\ run.ver \in 1..Now /\ Now \in Nat
  <2>1. TypeOK /\ TouchInv /\ run # Idle
    BY Parts, RunningIs
  <2>2. QED
    BY <2>1, RunIs, JiraIs
<1>2. run.b.has /\ run.b.val = jira[run.ver].val
  BY <1>1, Parts DEF RunInv
<1>3. i \in 1..Now /\ i <= run.ver
  BY <1>1
<1>4. jira[i].val = jira[run.ver].val
  BY <1>1, <1>3 DEF TouchInv
<1>5. QED
  BY <1>2, <1>4

\* No write of the sync undoes in Jira what a person set there and the run has read
\* (jira/merge.go, decide; jira/base.go, confirm).
THEOREM JirasKept == Spec => JiraKept
<1> DEFINE Overwrites == Len(jira') > Now /\ jira'[Now + 1].by = "sync" /\ ~field.multi
           Kept == \A i \in 1..run.ver :
                     (jira[i].by = "jira" /\ \A j \in i + 1..run.ver : jira[j].by = "touch") =>
                        run.b.has /\ jira[i].val = run.b.val
<1>1. ASSUME MergeInvariant, [Next]_vars
      PROVE  [Overwrites => Kept]_vars
  <2>1. ASSUME jira' = jira
        PROVE  ~Overwrites
    BY <1>1, <2>1, JiraIs, Parts DEF Now
  <2>2. ASSUME run.pc = "write"
        PROVE  Overwrites => Kept
    BY <1>1, <2>2, WriteIsBased
  <2>3. ASSUME NEW v \in Value, JiraEdit(v)
        PROVE  ~Overwrites
    <3> DEFINE Version == [val : field.values, by : {"jira", "touch", "sync"}]
               t == [Current EXCEPT !.by = "touch"]
               w == [val |-> v, by |-> "jira"]
    <3>1. TypeOK /\ jira \in Seq(Version)
      BY <1>1, Parts DEF TypeOK
    <3>2. t.by = "touch" /\ t \in Version
      BY <3>1, CurrentIs
    <3>3. w \in Version /\ w.by = "jira"
      BY <2>3 DEF JiraEdit, Normal
    <3>4. jira' = Append(jira, t) \/ jira' = Append(jira, w)
      BY <2>3 DEF JiraEdit
    <3> HIDE DEF t, w, Version
    <3>5. jira'[Now + 1] = t \/ jira'[Now + 1] = w
      BY <3>1, <3>2, <3>3, <3>4 DEF Now
    <3>6. QED
      BY <3>2, <3>3, <3>5
  <2> HIDE DEF Overwrites, Kept
  <2>4. CASE Person
    BY <2>1, <2>3, <2>4 DEF Person, Edit
  <2>5. CASE Writing
    BY <2>2, <2>5 DEF Writing, Write, WriteRefused, WriteLost
  <2>6. CASE Time \/ Reading \/ Rereading \/ Commit \/ Crash
    BY <2>1, <2>6 DEF Time, Pass, Reading, Read, Rereading, Reread, RereadFails, Commit, Crash
  <2>7. CASE UNCHANGED vars
    BY <2>7
  <2>8. QED
    BY <1>1, <2>4, <2>5, <2>6, <2>7 DEF Next
<1>2. QED
  BY <1>1, MergeInvariance, PTL DEF Spec, JiraKept
=============================================================================
