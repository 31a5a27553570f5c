----------------------------- MODULE SyncProofs -----------------------------
(* What holds of SyncSession for every set of nodes, records and values,   *)
(* every finite set of columns and every bound: pages that are lost, that  *)
(* overlap or that come twice leave no gap, replicas with nothing left to  *)
(* pull agree, and tombstones that are compacted when they do are missed   *)
(* by nobody.                                                              *)
EXTENDS SyncSession, CrdtDatabaseProofs, WellFoundedInduction, FiniteSetTheorems

-----------------------------------------------------------------------------
(* Numbers.                                                                *)

LEMMA LeastNatural ==
  ASSUME NEW T \in SUBSET Nat, T # {}
  PROVE  \E k \in T : \A j \in T : k <= j
<1>1. IsWellFoundedOn(OpToRel(<, Nat), Nat)
  BY NatLessThanWellFounded
<1>2. PICK k \in T : \A j \in T : ~ (<<j, k>> \in OpToRel(<, Nat))
  BY <1>1, WFMin
<1>3. \A j \in Nat : j < k => <<j, k>> \in OpToRel(<, Nat)
  BY DEF OpToRel
<1>4. k \in Nat /\ \A j \in T : j \in Nat /\ ~ (j < k)
  <2> DEFINE R == OpToRel(<, Nat)
  <2>1. \A j \in T : ~ (<<j, k>> \in R)
    BY <1>2
  <2>2. \A j \in Nat : j < k => <<j, k>> \in R
    BY <1>3
  <2> HIDE DEF R
  <2> QED
    BY <2>1, <2>2
<1> QED
  BY <1>4

LEMMA GreatestNatural ==
  ASSUME NEW T \in SUBSET Nat, T # {}, NEW b \in Nat, \A j \in T : j <= b
  PROVE  \E k \in T : \A j \in T : j <= k
<1> DEFINE U == {u \in Nat : \A j \in T : j <= u}
<1>1. U \in SUBSET Nat /\ b \in U
  OBVIOUS
<1>2. PICK u \in U : \A j \in U : u <= j
  BY <1>1, LeastNatural
<1>3. CASE u \in T
  BY <1>3
<1>4. CASE u \notin T
  <2>1. \A j \in T : j \in Nat /\ j <= u /\ j # u
    BY <1>4
  <2>2. PICK j \in T : TRUE
    OBVIOUS
  <2>3. u > 0 /\ u - 1 \in Nat /\ \A k \in T : k <= u - 1
    BY <2>1, <2>2
  <2>4. u - 1 \in U
    BY <2>3
  <2> QED
    BY <1>2, <2>3, <2>4
<1> QED
  BY <1>3, <1>4

\* Max of the community modules, for a set that has a greatest element.
LEMMA MaxIs ==
  ASSUME NEW T \in SUBSET Nat, T # {}, NEW b \in Nat, \A j \in T : j <= b
  PROVE  Max(T) \in T /\ \A j \in T : j <= Max(T)
<1>1. PICK k \in T : \A j \in T : j <= k
  BY GreatestNatural
<1>2. \E k2 \in T : \A j \in T : k2 >= j
  BY <1>1
<1> QED
  BY <1>2 DEF Max

\* Induction along a sequence of n steps.
LEMMA Steps ==
  ASSUME NEW n \in Nat, NEW S, 0 \in S,
         \A i \in 0 .. n : i \in S /\ i < n => i + 1 \in S
  PROVE  \A i \in 0 .. n : i \in S
<1> SUFFICES ASSUME NEW h \in 0 .. n, h \notin S
             PROVE  FALSE
  OBVIOUS
<1> DEFINE T == {i \in 0 .. n : i \notin S}
<1>1. T \in SUBSET Nat /\ h \in T
  OBVIOUS
<1>2. PICK k \in T : \A j \in T : k <= j
  BY <1>1, LeastNatural
<1>3. k # 0 /\ k - 1 \in 0 .. n /\ k - 1 \notin T
  BY <1>2
<1>4. k - 1 \in S /\ k - 1 < n /\ (k - 1) + 1 = k
  BY <1>3
<1> QED
  BY <1>2, <1>3, <1>4

-----------------------------------------------------------------------------
(* Sequences.                                                              *)

\* SetToSeqs lists a finite set, and all of it.
LEMMA Listed ==
  ASSUME NEW S, IsFiniteSet(S), NEW p \in SetToSeqs(S)
  PROVE  p \in Seq(S) /\ \A x \in S : \E i \in DOMAIN p : p[i] = x
<1> DEFINE n == Cardinality(S)
<1>1. n \in Nat /\ Cardinality(1 .. n) = n
  BY FS_CardinalityType, FS_Interval
<1>2. p \in Injection(1 .. n, S) /\ p \in [1 .. n -> S]
  BY DEF SetToSeqs, Injection, IsInjective
<1> HIDE DEF n
<1>3. p \in Surjection(1 .. n, S)
  BY <1>1, <1>2, FS_Injection DEF n
<1> QED
  BY <1>1, <1>2, <1>3 DEF Surjection

\* The recursive function of Views exists, so it is what its equation says.
LEMMA ViewsAre ==
  ASSUME NEW d, NEW batch, Len(batch) \in Nat
  PROVE  Views(d, batch) =
           [i \in 0 .. Len(batch) |->
              IF i = 0 THEN d
                       ELSE MergeOne(Views(d, batch)[i - 1], batch[i].change)]
<1> DEFINE n == Len(batch)
           Step(f, i) == IF i = 0 THEN d ELSE MergeOne(f[i - 1], batch[i].change)
           Upto(k) == \E f : f = [i \in 0 .. k |-> Step(f, i)]
           S == {k \in 0 .. n : Upto(k)}
<1>1. Upto(0)
  <2> DEFINE f == [i \in 0 .. 0 |-> d]
  <2>1. f = [i \in 0 .. 0 |-> Step(f, i)]
    OBVIOUS
  <2> QED
    BY <2>1
<1>2. ASSUME NEW k \in 0 .. n, k \in S, k < n
      PROVE  k + 1 \in S
  <2>1. PICK f : f = [i \in 0 .. k |-> Step(f, i)]
    BY <1>2
  <2> DEFINE g == [i \in 0 .. k + 1 |-> IF i = k + 1 THEN Step(f, i) ELSE f[i]]
  <2>2. \A i \in 0 .. k : g[i] = f[i]
    OBVIOUS
  <2>3. \A i \in 0 .. k : f[i] = Step(f, i)
    BY <2>1, Zenon
  <2>4. \A i \in 0 .. k + 1 : Step(g, i) = Step(f, i)
    <3>1. \A i \in 0 .. k + 1 : i # 0 => i - 1 \in 0 .. k
      OBVIOUS
    <3> HIDE DEF g
    <3> QED
      BY <2>2, <3>1
  <2>5. \A i \in 0 .. k + 1 : g[i] = Step(g, i)
    <3>1. \A i \in 0 .. k + 1 : i = k + 1 \/ i \in 0 .. k
      OBVIOUS
    <3>2. \A i \in 0 .. k + 1 : g[i] = IF i = k + 1 THEN Step(f, i) ELSE f[i]
      OBVIOUS
    <3> HIDE DEF g, Step
    <3> QED
      BY <2>3, <2>4, <3>1, <3>2
  <2>6. g = [i \in 0 .. k + 1 |-> g[i]]
    OBVIOUS
  <2> HIDE DEF g, Step
  <2>7. g = [i \in 0 .. k + 1 |-> Step(g, i)]
    BY <2>5, <2>6
  <2>8. Upto(k + 1)
    BY <2>7
  <2> QED
    BY <1>2, <2>8
<1>3. n \in S
  <2>1. 0 \in S
    BY <1>1
  <2>2. \A k \in 0 .. n : k \in S /\ k < n => k + 1 \in S
    BY <1>2
  <2> HIDE DEF S
  <2>3. \A i \in 0 .. n : i \in S
    BY <2>1, <2>2, Steps
  <2> QED
    BY <2>3
<1>4. PICK f : f = [i \in 0 .. n |-> Step(f, i)]
  BY <1>3
<1> DEFINE view == CHOOSE f2 : f2 = [i \in 0 .. n |-> Step(f2, i)]
<1>5. view = [i \in 0 .. n |-> Step(view, i)]
  BY <1>4
<1>6. Views(d, batch) = view
  BY DEF Views
<1> QED
  BY <1>5, <1>6

LEMMA ViewsStep ==
  ASSUME NEW d, NEW batch, Len(batch) \in Nat
  PROVE  /\ Views(d, batch)[0] = d
         /\ \A i \in 1 .. Len(batch) :
              Views(d, batch)[i] = MergeOne(Views(d, batch)[i - 1], batch[i].change)
<1> DEFINE V == Views(d, batch)
<1>0. V = [i \in 0 .. Len(batch) |->
             IF i = 0 THEN d ELSE MergeOne(V[i - 1], batch[i].change)]
  BY ViewsAre
<1> HIDE DEF V
<1>1. \A i \in 0 .. Len(batch) :
        V[i] = IF i = 0 THEN d ELSE MergeOne(V[i - 1], batch[i].change)
  BY <1>0
<1>2. \A i \in 1 .. Len(batch) : i \in 0 .. Len(batch) /\ i # 0
  OBVIOUS
<1>3. 0 \in 0 .. Len(batch)
  OBVIOUS
<1> QED
  BY <1>1, <1>2, <1>3 DEF V

-----------------------------------------------------------------------------
(* The merge of a page: what merge_changes makes of d by the changes of a  *)
(* batch, so far.                                                          *)

Finite(d) == IsFiniteSet(d.versions) /\ IsFiniteSet(d.tombs)

\* Change x has been taken by e: a greater one is there, or the deletion.
Taken(e, x) ==
  IF x.col = NoColumn
    THEN \E t \in e.tombs : t.rec = x.rec /\ NotBefore(t, x)
    ELSE \/ \E v \in e.versions : SameKey(v, x) /\ AtLeast(v, x)
         \/ \E t \in e.tombs : t.rec = x.rec

\* What is new in e came with a change that no tombstone of d screens.
Sourced(d, changes, e) ==
  /\ \A v \in e.versions :
       \/ v \in d.versions
       \/ \E x \in changes : /\ x.col # NoColumn /\ Stamp(x) = Stamp(v)
                             /\ ~ IsTombstoned(d, x)
  /\ \A t \in e.tombs :
       \/ t \in d.tombs
       \/ \E x \in changes : /\ x.col = NoColumn /\ x.rec = t.rec
                             /\ x.dv = t.dv /\ x.node = t.node

\* What e shows of a record that it does not know as deleted.
Faithful(d, changes, e) ==
  \A r \in Record : Tracked(d, r) =>
    /\ Tracked(e, r)
    /\ \A f \in Shown(e) : f.stamp.rec = r /\ ~ Entombed(e, r)
                             => f \in Shown(d) \cup Told(changes)

Joined(d, changes, e) ==
  /\ e \in Database /\ KeysUnique(e) /\ Dominated(e) /\ Finite(e)
  /\ d.clock <= e.clock
  /\ Grown(d, e)
  /\ Sourced(d, changes, e)
  /\ \A x \in changes : Taken(e, x)
  /\ Faithful(d, changes, e)

LEMMA MergeOneIs ==
  ASSUME NEW d \in Database, NEW x \in Change
  PROVE  MergedTo(d, x, MergeOne(d, x))
<1>1. ASSUME NEW e \in Database
      PROVE  [[e EXCEPT !.clock = @ + 1] EXCEPT !.clock = @ - 1] = e
  <2> DEFINE f == [e EXCEPT !.clock = @ + 1]
  <2>1. /\ f = [rows |-> e.rows, versions |-> e.versions, tombs |-> e.tombs,
                clock |-> e.clock + 1]
        /\ e = [rows |-> e.rows, versions |-> e.versions, tombs |-> e.tombs,
                clock |-> e.clock]
        /\ e.clock \in Nat
    BY DEF Database
  <2> HIDE DEF f
  <2>2. [f EXCEPT !.clock = @ - 1]
          = [rows |-> e.rows, versions |-> e.versions, tombs |-> e.tombs,
             clock |-> (e.clock + 1) - 1]
    BY <2>1
  <2>3. (e.clock + 1) - 1 = e.clock
    BY <2>1
  <2>4. [f EXCEPT !.clock = @ - 1] = e
    BY <2>1, <2>2, <2>3
  <2> QED
    BY <2>4 DEF f
<1>2. Rejected(d, x) \in Database
  BY RejectedType
<1>3. DeletionAccepted(d, x) \in Database
  BY DeletionAcceptedType
<1>4. x.col # NoColumn => ColumnAccepted(d, x) \in Database
  BY ColumnAcceptedType DEF Change
<1> QED
  BY <1>1, <1>2, <1>3, <1>4 DEF MergeOne, Merged, MergedTo

\* What one iteration does to the tables.
LEMMA MergedTables ==
  ASSUME NEW d \in Database, NEW x \in Change, NEW e, MergedTo(d, x, e)
  PROVE  /\ d.clock <= e.clock
         /\ \A v \in e.versions :
              \/ v \in d.versions
              \/ x.col # NoColumn /\ Stamp(x) = Stamp(v) /\ ~ IsTombstoned(d, x)
         /\ \A t \in e.tombs :
              \/ t \in d.tombs
              \/ /\ x.col = NoColumn /\ x.rec = t.rec
                 /\ x.dv = t.dv /\ x.node = t.node
         /\ Taken(e, x)
         /\ Finite(d) => Finite(e)
<1>0. /\ x.cv \in Nat /\ x.dv \in Nat /\ x.node \in Nat /\ d.clock \in Nat
      /\ \A v \in d.versions : v.cv \in Nat /\ v.dv \in Nat /\ v.node \in Nat
      /\ \A t \in d.tombs : t.dv \in Nat /\ t.node \in Nat
      /\ Later(d.clock, x.dv) >= d.clock
  BY NodeAssumption, DatabaseNumbers, LaterType DEF Change
<1>1. CASE x.col # NoColumn /\ Accepts(d, x) /\ e = ColumnAccepted(d, x)
  <2> DEFINE y == [rec |-> x.rec, col |-> x.col, cv |-> x.cv, dv |-> x.dv,
                   node |-> x.node, local |-> Later(d.clock, x.dv)]
             kept == {v \in d.versions : ~ SameKey(v, x)}
  <2>1. /\ e.tombs = d.tombs /\ e.clock = Later(d.clock, x.dv)
        /\ e.versions = kept \cup {y}
    BY <1>1 DEF ColumnAccepted, WithVersion
  <2>2. Stamp(x) = Stamp(y) /\ SameKey(y, x) /\ AtLeast(y, x)
    BY <1>0 DEF Stamp, SameKey, AtLeast
  <2>3. kept \subseteq d.versions
    OBVIOUS
  <2> HIDE DEF y, kept
  <2>4. Finite(d) => Finite(e)
    BY <2>1, <2>3, FS_Subset, FS_AddElement DEF Finite
  <2>5. Taken(e, x)
    BY <1>1, <2>1, <2>2 DEF Taken
  <2>6. ~ IsTombstoned(d, x)
    BY <1>1 DEF Accepts
  <2> QED
    BY <1>0, <1>1, <2>1, <2>2, <2>3, <2>4, <2>5, <2>6
<1>2. CASE x.col = NoColumn /\ ~ IsTombstoned(d, x) /\ e = DeletionAccepted(d, x)
  <2> DEFINE y == [rec |-> x.rec, dv |-> x.dv, node |-> x.node,
                   local |-> Later(d.clock, x.dv)]
             kept == {t \in d.tombs : t.rec # x.rec}
  <2>1. /\ e.versions = d.versions /\ e.clock = Later(d.clock, x.dv)
        /\ e.tombs = kept \cup {y}
    BY <1>2 DEF DeletionAccepted, WithTombstone
  <2>2. x.rec = y.rec /\ x.dv = y.dv /\ x.node = y.node /\ NotBefore(y, x)
    BY <1>0 DEF NotBefore
  <2>3. kept \subseteq d.tombs
    OBVIOUS
  <2> HIDE DEF y, kept
  <2>4. Finite(d) => Finite(e)
    BY <2>1, <2>3, FS_Subset, FS_AddElement DEF Finite
  <2>5. Taken(e, x)
    BY <1>2, <2>1, <2>2 DEF Taken
  <2> QED
    BY <1>0, <1>2, <2>1, <2>2, <2>3, <2>4, <2>5
<1>3. CASE /\ x.col # NoColumn => ~ Accepts(d, x)
           /\ x.col = NoColumn => IsTombstoned(d, x)
           /\ e = Rejected(d, x)
  <2>1. e.versions = d.versions /\ e.tombs = d.tombs /\ e.clock >= d.clock
    BY <1>3, RejectedType
  <2>2. IsTombstoned(d, x) => \E t \in d.tombs : t.rec = x.rec /\ NotBefore(t, x)
    BY DEF IsTombstoned, Screens, NotBefore
  <2>3. x.col # NoColumn /\ ~ IsTombstoned(d, x)
          => \E v \in d.versions : SameKey(v, x) /\ AtLeast(v, x)
    BY <1>0, <1>3, LoserNotGreater DEF Accepts
  <2>4. Taken(e, x)
    BY <1>3, <2>1, <2>2, <2>3 DEF Taken
  <2>5. e.clock \in Nat
    BY <1>3, RejectedType DEF Database
  <2> QED
    BY <1>0, <2>1, <2>4, <2>5 DEF Finite
<1> QED
  BY <1>1, <1>2, <1>3 DEF MergedTo

LEMMA JoinedStart ==
  ASSUME NEW d \in Database, KeysUnique(d), Dominated(d), Finite(d)
  PROVE  Joined(d, {}, d)
<1>1. Grown(d, d)
  BY GrownReflexive
<1> QED
  BY <1>1, DatabaseNumbers DEF Joined, Sourced, Faithful

LEMMA TakenStays ==
  ASSUME NEW e \in Database, NEW f \in Database, Grown(e, f),
         NEW x \in Change, Taken(e, x)
  PROVE  Taken(f, x)
<1>0. /\ x.cv \in Nat /\ x.dv \in Nat /\ x.node \in Nat
      /\ \A v \in e.versions \cup f.versions : v.cv \in Nat /\ v.dv \in Nat /\ v.node \in Nat
      /\ \A t \in e.tombs \cup f.tombs : t.dv \in Nat /\ t.node \in Nat
  BY NodeAssumption, DatabaseNumbers DEF Change
<1>1. \A t \in e.tombs : \E u \in f.tombs : u.rec = t.rec /\ NotBefore(u, t)
  BY DEF Grown, TombsKept
<1>2. CASE x.col = NoColumn
  <2>1. PICK t \in e.tombs : t.rec = x.rec /\ NotBefore(t, x)
    BY <1>2 DEF Taken
  <2>2. PICK u \in f.tombs : u.rec = t.rec /\ NotBefore(u, t)
    BY <1>1
  <2>3. NotBefore(u, x)
    BY <1>0, <2>1, <2>2, NotBeforeTransitive
  <2> QED
    BY <1>2, <2>1, <2>2, <2>3 DEF Taken
<1>3. CASE x.col # NoColumn
  <2>1. CASE \E t \in e.tombs : t.rec = x.rec
    BY <1>1, <1>3, <2>1 DEF Taken
  <2>2. CASE \E v \in e.versions : SameKey(v, x) /\ AtLeast(v, x)
    <3>1. PICK v \in e.versions : SameKey(v, x) /\ AtLeast(v, x)
      BY <2>2
    <3>2. PICK u \in f.versions : SameKey(u, v) /\ AtLeast(u, v)
      BY DEF Grown, VersionsGrown
    <3>3. AtLeast(u, x) /\ SameKey(u, x)
      BY <1>0, <3>1, <3>2, AtLeastTransitive DEF SameKey
    <3> QED
      BY <1>3, <3>2, <3>3 DEF Taken
  <2> QED
    BY <1>3, <2>1, <2>2 DEF Taken
<1> QED
  BY <1>2, <1>3

\* What e does not know as deleted, d does not either.
LEMMA UnburiedBefore ==
  ASSUME NEW d, NEW e, TombsKept(d, e), NEW r, ~ Entombed(e, r)
  PROVE  ~ Entombed(d, r)
BY DEF TombsKept, Entombed

LEMMA JoinedOne ==
  ASSUME NEW d \in Database, NEW changes \in SUBSET Change, NEW e,
         Joined(d, changes, e),
         NEW x \in Change, Texts({x}), NEW f, MergedTo(e, x, f)
  PROVE  Joined(d, changes \cup {x}, f)
<1> DEFINE all == changes \cup {x}
<1>1. /\ e \in Database /\ KeysUnique(e) /\ Dominated(e) /\ Finite(e)
      /\ d.clock <= e.clock /\ Grown(d, e) /\ Sourced(d, changes, e)
      /\ \A y \in changes : Taken(e, y)
  BY DEF Joined
<1>2. /\ f \in Database /\ KeysUnique(f) /\ Dominated(f)
      /\ Grown(e, f)
  BY <1>1, MergedToType, MergedGrown
<1>3. /\ e.clock <= f.clock
      /\ \A v \in f.versions :
           \/ v \in e.versions
           \/ x.col # NoColumn /\ Stamp(x) = Stamp(v) /\ ~ IsTombstoned(e, x)
      /\ \A t \in f.tombs :
           \/ t \in e.tombs
           \/ /\ x.col = NoColumn /\ x.rec = t.rec
              /\ x.dv = t.dv /\ x.node = t.node
      /\ Taken(f, x)
      /\ Finite(f)
  BY <1>1, MergedTables
<1>4. d.clock <= f.clock
  BY <1>1, <1>2, <1>3 DEF Database
<1>5. Grown(d, f)
  BY <1>1, <1>2, GrownTransitive
<1>6. \A y \in all : Taken(f, y)
  BY <1>1, <1>2, <1>3, TakenStays
<1>7. IsTombstoned(d, x) => IsTombstoned(e, x)
  <2> SUFFICES ASSUME NEW t \in d.tombs, t.rec = x.rec, Screens(t, x)
               PROVE  IsTombstoned(e, x)
    BY DEF IsTombstoned
  <2>1. PICK u \in e.tombs : u.rec = t.rec /\ NotBefore(u, t)
    BY <1>1 DEF Grown, TombsKept
  <2>2. /\ t.dv \in Nat /\ t.node \in Nat /\ u.dv \in Nat /\ u.node \in Nat
        /\ x.dv \in Nat /\ x.node \in Nat
    BY <1>1, NodeAssumption, DatabaseNumbers DEF Change
  <2>3. Screens(u, x)
    BY <2>1, <2>2 DEF Screens, NotBefore
  <2> QED
    BY <2>1, <2>3 DEF IsTombstoned
<1>8. Sourced(d, all, f)
  <2>1. ASSUME NEW v \in f.versions
        PROVE  \/ v \in d.versions
               \/ \E y \in all : /\ y.col # NoColumn /\ Stamp(y) = Stamp(v)
                                 /\ ~ IsTombstoned(d, y)
    BY <1>1, <1>3, <1>7 DEF Sourced
  <2>2. ASSUME NEW t \in f.tombs
        PROVE  \/ t \in d.tombs
               \/ \E y \in all : /\ y.col = NoColumn /\ y.rec = t.rec
                                 /\ y.dv = t.dv /\ y.node = t.node
    BY <1>1, <1>3 DEF Sourced
  <2> QED
    BY <2>1, <2>2 DEF Sourced
<1>9. Faithful(d, all, f)
  <2> SUFFICES ASSUME NEW r \in Record, Tracked(d, r)
               PROVE  /\ Tracked(f, r)
                      /\ \A h \in Shown(f) : h.stamp.rec = r /\ ~ Entombed(f, r)
                                               => h \in Shown(d) \cup Told(all)
    BY DEF Faithful
  <2>1. /\ Tracked(e, r)
        /\ \A h \in Shown(e) : h.stamp.rec = r /\ ~ Entombed(e, r)
                                 => h \in Shown(d) \cup Told(changes)
    BY DEF Joined, Faithful
  <2>2. Tracked(f, r)
    BY <1>1, <2>1, MergedTracked
  <2>3. Told(changes) \subseteq Told(all) /\ Told({x}) \subseteq Told(all)
    BY DEF Told
  <2>4. ASSUME NEW h \in Shown(f), h.stamp.rec = r, ~ Entombed(f, r)
        PROVE  h \in Shown(d) \cup Told(all)
    <3>1. ~ Entombed(e, r)
      BY <1>2, <2>4, UnburiedBefore DEF Grown
    <3>2. h \in Shown(e) \cup Told({x})
      BY <1>1, <1>2, <2>1, <2>4, MergedSays
    <3> QED
      BY <2>1, <2>3, <2>4, <3>1, <3>2
  <2> QED
    BY <2>2, <2>4
<1> QED
  BY <1>2, <1>3, <1>4, <1>5, <1>6, <1>8, <1>9 DEF Joined

\* The changes of a page.
Changes(batch) == {x.change : x \in ToSet(batch)}

SendsTexts(batch) ==
  \A x \in ToSet(batch) : x.change.col # NoColumn => x.change.val # Null

LEMMA ViewsJoined ==
  ASSUME NEW d \in Database, KeysUnique(d), Dominated(d), Finite(d),
         NEW batch \in Seq(SentChange), SendsTexts(batch)
  PROVE  Joined(d, Changes(batch), Views(d, batch)[Len(batch)])
<1> DEFINE n == Len(batch)
           V == Views(d, batch)
           First(i) == {batch[j].change : j \in 1 .. i}
           S == {i \in 0 .. n : Joined(d, First(i), V[i])}
<1>1. /\ n \in Nat /\ V[0] = d
      /\ \A i \in 1 .. n : V[i] = MergeOne(V[i - 1], batch[i].change)
  BY ViewsStep
<1>2. \A j \in 1 .. n : /\ batch[j] \in SentChange /\ batch[j] \in ToSet(batch)
                        /\ batch[j].change \in Change
  <2>1. \A j \in 1 .. n : j \in DOMAIN batch /\ batch[j] \in SentChange
    OBVIOUS
  <2>2. \A x \in SentChange : x.change \in Change
    BY DEF SentChange
  <2> QED
    BY <2>1, <2>2 DEF ToSet
<1> HIDE DEF V
<1>3. 0 \in S
  <2>1. First(0) = {}
    OBVIOUS
  <2>2. Joined(d, {}, d)
    BY JoinedStart
  <2>3. 0 \in 0 .. n
    BY <1>1
  <2> HIDE DEF First
  <2> QED
    BY <1>1, <2>1, <2>2, <2>3
<1>4. \A i \in 0 .. n : i \in S /\ i < n => i + 1 \in S
  <2> SUFFICES ASSUME NEW i \in 0 .. n, i \in S, i < n
               PROVE  i + 1 \in S
    OBVIOUS
  <2> DEFINE x == batch[i + 1].change
  <2>1. i + 1 \in 1 .. n /\ (i + 1) - 1 = i
    OBVIOUS
  <2>2. V[i + 1] = MergeOne(V[i], x)
    BY <1>1, <2>1
  <2>3. x \in Change /\ Texts({x})
    BY <1>2, <2>1 DEF SendsTexts, Texts
  <2>4. First(i + 1) = First(i) \cup {x}
    <3>1. \A j \in 1 .. i + 1 : j \in 1 .. i \/ j = i + 1
      OBVIOUS
    <3>2. \A j \in 1 .. i : j \in 1 .. i + 1
      OBVIOUS
    <3> QED
      BY <2>1, <3>1, <3>2
  <2>5. First(i) \in SUBSET Change
    BY <1>2
  <2>6. Joined(d, First(i), V[i])
    OBVIOUS
  <2> HIDE DEF First, x
  <2>7. V[i] \in Database
    BY <2>6 DEF Joined
  <2>8. MergedTo(V[i], x, V[i + 1])
    BY <2>2, <2>3, <2>7, MergeOneIs
  <2>9. Joined(d, First(i) \cup {x}, V[i + 1])
    BY <2>3, <2>5, <2>6, <2>8, JoinedOne
  <2>10. i + 1 \in 0 .. n
    BY <2>1
  <2> QED
    BY <2>4, <2>9, <2>10
<1>5. n \in S
  <2> HIDE DEF S
  <2>1. \A i \in 0 .. n : i \in S
    BY <1>1, <1>3, <1>4, Steps
  <2> QED
    BY <1>1, <2>1
<1>6. First(n) = Changes(batch)
  BY DEF Changes, ToSet
<1> QED
  BY <1>5, <1>6 DEF V

LEMMA MergeChangesJoins ==
  ASSUME NEW d \in Database, KeysUnique(d), Dominated(d), Finite(d),
         NEW batch \in Seq(SentChange), SendsTexts(batch),
         NEW e, e = MergeChanges(d, batch)
  PROVE  Joined(d, Changes(batch), e) /\ d.clock + 1 <= e.clock
<1> DEFINE f == Views(d, batch)[Len(batch)]
<1>1. Joined(d, Changes(batch), f)
  BY ViewsJoined
<1>2. e = [f EXCEPT !.clock = @ + 1]
  BY DEF MergeChanges
<1> HIDE DEF f
<1>3. f \in Database /\ KeysUnique(f) /\ f.clock \in Nat
  BY <1>1 DEF Joined, Database
<1>4. /\ e \in Database /\ KeysUnique(e)
      /\ e.rows = f.rows /\ e.versions = f.versions
      /\ e.tombs = f.tombs /\ e.clock = f.clock + 1
  <2>1. f.clock + 1 \in Nat /\ e = [f EXCEPT !.clock = f.clock + 1]
    BY <1>2, <1>3
  <2>2. /\ e = [rows |-> f.rows, versions |-> f.versions, tombs |-> f.tombs,
                clock |-> f.clock + 1]
        /\ e \in Database /\ KeysUnique(e)
    BY <1>3, <2>1, PutClock
  <2> QED
    BY <2>2
<1>5. Dominated(e)
  <2>1. \A v \in f.versions : v.dv \in Nat /\ v.local \in Nat
    BY <1>3 DEF Database, VersionRow
  <2>2. \A t \in f.tombs : t.dv \in Nat /\ t.local \in Nat
    BY <1>3 DEF Database, TombRow
  <2> QED
    BY <1>1, <1>3, <1>4, <2>1, <2>2 DEF Joined, Dominated
<1>6. d.clock + 1 <= e.clock
  BY <1>1, <1>3, <1>4 DEF Joined, Database
<1>7. Shown(e) = Shown(f)
  BY <1>4 DEF Shown
<1> QED
  BY <1>1, <1>3, <1>4, <1>5, <1>6, <1>7
  DEF Joined, Finite, Grown, TombsKept, VersionsGrown, Sourced, Taken, Faithful,
      Tracked, Entombed, Database

-----------------------------------------------------------------------------
(* The transaction of a user and the processing after it.                  *)

LEMMA ImageFinite ==
  ASSUME NEW f, IsFiniteSet(DOMAIN f)
  PROVE  IsFiniteSet({f[s] : s \in DOMAIN f})
<1> DEFINE S == DOMAIN f
           T == {f[s] : s \in S}
           g == [s \in S |-> f[s]]
<1>1. g \in Surjection(S, T)
  BY DEF Surjection
<1> QED
  BY <1>1, FS_Surjection

LEMMA ProcessedFinite ==
  ASSUME NEW d, Finite(d), NEW n, NEW pend, IsFiniteSet(pend)
  PROVE  Finite(ProcessPending(d, n, pend))
<1> DEFINE e == ProcessPending(d, n, pend)
           W == Written(d, pend)
           D == {q \in pend : q.op = "DELETE"}
           keptVersions == {v \in d.versions : /\ v.rec \notin Deleted(pend)
                                               /\ \A p \in W : ~ SameKey(v, p)}
           keptTombs == {t \in d.tombs : t.rec \notin Deleted(pend)}
           newVersions == {NextVersion(d, n, p) : p \in W}
           newTombs == {NextTombstone(d, n, r) : r \in Deleted(pend)}
<1>1. e.versions = keptVersions \cup newVersions /\ e.tombs = keptTombs \cup newTombs
  BY DEF ProcessPending
<1>2. IsFiniteSet(keptVersions) /\ IsFiniteSet(keptTombs)
  BY FS_Subset DEF Finite
<1>3. IsFiniteSet(W) /\ IsFiniteSet(D)
  BY FS_Subset DEF Written
<1>4. IsFiniteSet(newVersions)
  <2> DEFINE f == [p \in W |-> NextVersion(d, n, p)]
  <2>1. newVersions = {f[p] : p \in DOMAIN f}
    OBVIOUS
  <2>2. DOMAIN f = W
    OBVIOUS
  <2> HIDE DEF f, W
  <2> QED
    BY <1>3, <2>1, <2>2, ImageFinite
<1>5. IsFiniteSet(newTombs)
  <2> DEFINE f == [q \in D |-> NextTombstone(d, n, q.rec)]
  <2>1. newTombs = {f[q] : q \in DOMAIN f}
    BY DEF Deleted
  <2>2. DOMAIN f = D
    OBVIOUS
  <2> HIDE DEF f, D
  <2> QED
    BY <1>3, <2>1, <2>2, ImageFinite
<1> HIDE DEF e, keptVersions, keptTombs, newVersions, newTombs
<1> QED
  BY <1>1, <1>2, <1>4, <1>5, FS_Union DEF Finite, e

\* A statement of the user on the row of record r, as its triggers report it.
Statement(d, r, rows, pend) ==
  /\ rows \in SUBSET Row
  /\ WellFormed(pend)
  /\ IsFiniteSet(pend)
  /\ Writes(d, r, rows, pend)

\* What the transaction and its processing at n make of d.
Processed(d, n, e) ==
  /\ e \in Database /\ KeysUnique(e) /\ Dominated(e) /\ Finite(e)
  /\ e.clock = d.clock + 1
  /\ TombsKept(d, e) /\ VersionsKept(d, e)
  /\ \A v \in e.versions :
       \/ v \in d.versions
       \/ /\ v.dv = e.clock /\ v.local = e.clock /\ v.node = n
          /\ v.cv = 1 \/ \E u \in d.versions : v.cv = u.cv + 1
  /\ \A t \in e.tombs :
       \/ t \in d.tombs
       \/ t.dv = e.clock /\ t.local = e.clock /\ t.node = n
  /\ \A r \in Record : Tracked(d, r) =>
       /\ Tracked(e, r)
       /\ \A f \in Shown(e) : f.stamp.rec = r /\ ~ Entombed(e, r)
                => f \in Shown(d) \/ (f.stamp.dv = e.clock /\ f.stamp.node = n)

LEMMA StatementProcessed ==
  ASSUME NEW d \in Database, KeysUnique(d), Dominated(d), Finite(d),
         NEW n \in Node, NEW r \in Record, NEW rows, NEW pend,
         Statement(d, r, rows, pend),
         NEW e, e = ProcessPending([d EXCEPT !.rows = rows], n, pend)
  PROVE  Processed(d, n, e)
<1> DEFINE g == [d EXCEPT !.rows = rows]
<1>1. /\ g = [rows |-> rows, versions |-> d.versions, tombs |-> d.tombs,
              clock |-> d.clock]
      /\ g \in Database /\ KeysUnique(g)
  BY PutRows DEF Statement, Writes
<1>2. e = ProcessPending(g, n, pend)
  OBVIOUS
<1> HIDE DEF g
<1>3. /\ g.rows = rows /\ g.versions = d.versions /\ g.tombs = d.tombs
      /\ g.clock = d.clock
  BY <1>1
<1>4. Dominated(g) /\ Finite(g)
  BY <1>3 DEF Dominated, Finite
<1>5. WellFormed(pend) /\ IsFiniteSet(pend) /\ Writes(d, r, rows, pend)
  BY DEF Statement
<1>6. e \in Database /\ KeysUnique(e) /\ Dominated(e) /\ Finite(e)
  BY <1>1, <1>2, <1>4, <1>5, ProcessPendingType, ProcessPendingKeys,
     ProcessPendingDominated, ProcessedFinite
<1>7. TombsKept(g, e) /\ VersionsKept(g, e)
  BY <1>1, <1>2, <1>4, <1>5, CommitKept
<1>8. TombsKept(d, e) /\ VersionsKept(d, e)
  BY <1>3, <1>7 DEF TombsKept, VersionsKept
<1>9. e.clock = d.clock + 1
  BY <1>2, <1>3 DEF ProcessPending
<1>10. ASSUME NEW p
       PROVE  LET v == NextVersion(g, n, p)
              IN  /\ v.dv = e.clock /\ v.local = e.clock /\ v.node = n
                  /\ v.cv = 1 \/ \E u \in d.versions : v.cv = u.cv + 1
  <2> DEFINE known == {v \in d.versions : SameKey(v, p)}
             v == NextVersion(g, n, p)
  <2>1. v.dv = e.clock /\ v.local = e.clock /\ v.node = n
    BY <1>3, <1>9 DEF NextVersion
  <2>2. v.cv = CvOf(known) + 1
    BY <1>3 DEF NextVersion, ColVersion
  <2>3. CASE known = {}
    BY <2>1, <2>2, <2>3 DEF CvOf
  <2>4. CASE known # {}
    <3> DEFINE u == CHOOSE w \in known : TRUE
    <3>1. u \in known
      BY <2>4
    <3>2. CvOf(known) = u.cv
      BY <2>4 DEF CvOf
    <3>3. u \in d.versions
      BY <3>1
    <3> HIDE DEF u, known, v
    <3> QED
      BY <2>1, <2>2, <3>2, <3>3 DEF v
  <2> QED
    BY <2>3, <2>4
<1>11. /\ \A v \in e.versions :
            v \in d.versions \/ \E p \in Written(g, pend) : v = NextVersion(g, n, p)
       /\ \A t \in e.tombs :
            t \in d.tombs \/ \E q \in Deleted(pend) : t = NextTombstone(g, n, q)
  BY <1>2, <1>3 DEF ProcessPending
<1>12. \A q : LET t == NextTombstone(g, n, q)
              IN  t.dv = e.clock /\ t.local = e.clock /\ t.node = n
  BY <1>3, <1>9 DEF NextTombstone
<1>13. \A q \in Record : Tracked(d, q) => Tracked(e, q)
  BY <1>2, <1>3, <1>5, ProcessedTracked
<1>14. \A f \in Shown(e) : ~ Entombed(e, f.stamp.rec)
         => f \in Shown(d) \/ (f.stamp.dv = e.clock /\ f.stamp.node = n)
  BY <1>2, <1>3, <1>5, <1>9, ProcessedSays
<1> QED
  BY <1>6, <1>8, <1>9, <1>10, <1>11, <1>12, <1>13, <1>14 DEF Processed

-----------------------------------------------------------------------------
(* A page of n for m: what is behind the cursor and not m's own.           *)

\* x carries a version or a tombstone of d, one that m has not seen.
Carries(d, since, m, x) ==
  \/ \E v \in d.versions :
       /\ v.local > since /\ v.node # m /\ x.local = v.local
       /\ x.change.col # NoColumn /\ Stamp(x.change) = Stamp(v)
       /\ x.change.val = WireValue(d.rows, v) /\ x.change.val # Null
  \/ \E t \in d.tombs :
       /\ t.local > since /\ t.node # m /\ x.local = t.local
       /\ x.change.col = NoColumn /\ x.change.rec = t.rec
       /\ x.change.dv = t.dv /\ x.change.node = t.node

\* The page has everything of d that m has not seen.
Complete(d, since, m, p) ==
  /\ \A v \in d.versions : v.local > since /\ v.node # m =>
       \E x \in ToSet(p) : x.change.col # NoColumn /\ Stamp(x.change) = Stamp(v)
  /\ \A t \in d.tombs : t.local > since /\ t.node # m =>
       \E x \in ToSet(p) : /\ x.change.col = NoColumn /\ x.change.rec = t.rec
                           /\ x.change.dv = t.dv /\ x.change.node = t.node

LEMMA PageIs ==
  ASSUME NEW d \in Database, Finite(d), NEW since \in Nat, NEW m,
         NEW p \in Pages(d, since, Excluded(m))
  PROVE  /\ p \in Seq(SentChange)
         /\ \A x \in ToSet(p) : Carries(d, since, m, x)
         /\ Complete(d, since, m, p)
<1> DEFINE freshVersions == Fresh(d.versions, since, Excluded(m))
           freshTombs == Fresh(d.tombs, since, Excluded(m))
           C(v) == Sent(ColumnChange(d.rows, v), v)
           D(t) == Sent(Deletion(t), t)
           columns == SentColumns(d, since, Excluded(m))
           deletions == SentDeletions(d, since, Excluded(m))
<1>1. /\ \A v : v \in freshVersions <=> v \in d.versions /\ v.local > since /\ v.node # m
      /\ \A t : t \in freshTombs <=> t \in d.tombs /\ t.local > since /\ t.node # m
  BY DEF Fresh, Excluded
<1>2. columns = {C(v) : v \in freshVersions} /\ deletions = {D(t) : t \in freshTombs}
  BY DEF SentColumns, SentDeletions
<1>3. ASSUME NEW v \in d.versions
      PROVE  /\ C(v) \in SentChange
             /\ C(v).local = v.local
             /\ C(v).change.col # NoColumn /\ Stamp(C(v).change) = Stamp(v)
             /\ C(v).change.val = WireValue(d.rows, v) /\ C(v).change.val # Null
  <2>1. v \in VersionRow /\ d.rows \in SUBSET Row
    BY DEF Database
  <2>2. v.col \in Column /\ v.col # NoColumn /\ v.local \in Nat
    BY <2>1, ColumnAssumption DEF VersionRow
  <2>3. WireValue(d.rows, v) \in Value
    BY <2>1, <2>2, WireValueType
  <2>4. WireValue(d.rows, v) # Null /\ WireValue(d.rows, v) \in Cell
    BY <2>3, ValueAssumption DEF Cell
  <2>5. ColumnChange(d.rows, v) \in Change
    BY <2>1, <2>4 DEF ColumnChange, Change, VersionRow
  <2>6. /\ C(v) \in SentChange /\ C(v).local = v.local
        /\ C(v).change = ColumnChange(d.rows, v)
    BY <2>2, <2>5 DEF Sent, SentChange
  <2> HIDE DEF C
  <2> QED
    BY <2>2, <2>4, <2>6 DEF ColumnChange, Stamp
<1>4. ASSUME NEW t \in d.tombs
      PROVE  /\ D(t) \in SentChange
             /\ D(t).local = t.local
             /\ D(t).change.col = NoColumn /\ D(t).change.rec = t.rec
             /\ D(t).change.dv = t.dv /\ D(t).change.node = t.node
  <2>1. t \in TombRow
    BY DEF Database
  <2>2. Deletion(t) \in Change /\ t.local \in Nat
    BY <2>1 DEF Deletion, Change, TombRow, Cell
  <2>3. D(t) \in SentChange /\ D(t).local = t.local /\ D(t).change = Deletion(t)
    BY <2>2 DEF Sent, SentChange
  <2> HIDE DEF D
  <2> QED
    BY <2>3 DEF Deletion
<1>5. IsFiniteSet(columns)
  <2> DEFINE f == [v \in freshVersions |-> C(v)]
  <2>1. columns = {f[v] : v \in DOMAIN f} /\ DOMAIN f = freshVersions
    BY <1>2
  <2>2. IsFiniteSet(freshVersions)
    BY FS_Subset DEF Finite, Fresh
  <2> HIDE DEF f, C, freshVersions, columns
  <2> QED
    BY <2>1, <2>2, ImageFinite
<1>6. IsFiniteSet(deletions)
  <2> DEFINE f == [t \in freshTombs |-> D(t)]
  <2>1. deletions = {f[t] : t \in DOMAIN f} /\ DOMAIN f = freshTombs
    BY <1>2
  <2>2. IsFiniteSet(freshTombs)
    BY FS_Subset DEF Finite, Fresh
  <2> HIDE DEF f, D, freshTombs, deletions
  <2> QED
    BY <2>1, <2>2, ImageFinite
<1>7. p \in SetToSeqs(columns \cup deletions)
  BY DEF Pages
<1> HIDE DEF C, D, columns, deletions, freshVersions, freshTombs
<1>8. IsFiniteSet(columns \cup deletions)
  BY <1>5, <1>6, FS_Union
<1>9. /\ p \in Seq(columns \cup deletions)
      /\ \A x \in columns \cup deletions : \E i \in DOMAIN p : p[i] = x
  BY <1>7, <1>8, Listed
<1>10. columns \cup deletions \subseteq SentChange
  BY <1>1, <1>2, <1>3, <1>4
<1>11. p \in Seq(SentChange)
  BY <1>9, <1>10
<1>12. \A x : x \in ToSet(p) <=> x \in columns \/ x \in deletions
  <2>1. \A i \in DOMAIN p : p[i] \in columns \cup deletions
    BY <1>9
  <2> QED
    BY <1>9, <2>1 DEF ToSet
<1>13. \A x \in ToSet(p) : Carries(d, since, m, x)
  BY <1>1, <1>2, <1>3, <1>4, <1>12 DEF Carries
<1>14. Complete(d, since, m, p)
  <2>1. ASSUME NEW v \in d.versions, v.local > since, v.node # m
        PROVE  \E x \in ToSet(p) : x.change.col # NoColumn /\ Stamp(x.change) = Stamp(v)
    <3>1. C(v) \in ToSet(p)
      BY <1>1, <1>2, <1>12, <2>1
    <3> QED
      BY <1>3, <3>1
  <2>2. ASSUME NEW t \in d.tombs, t.local > since, t.node # m
        PROVE  \E x \in ToSet(p) : /\ x.change.col = NoColumn /\ x.change.rec = t.rec
                                   /\ x.change.dv = t.dv /\ x.change.node = t.node
    <3>1. D(t) \in ToSet(p)
      BY <1>1, <1>2, <1>12, <2>2
    <3> QED
      BY <1>4, <3>1
  <2> QED
    BY <2>1, <2>2 DEF Complete
<1> QED
  BY <1>11, <1>13, <1>14

-----------------------------------------------------------------------------
(* The steps of the system, by what they do to the files.                  *)

FilesInv ==
  \A n \in Node :
    /\ Dominated(db[n]) /\ Finite(db[n])
    /\ \A t \in db[n].tombs : \E u \in mourned[n] :
         u.rec = t.rec /\ u.dv = t.dv /\ u.node = t.node
    /\ \A u \in mourned[n] : u.dv <= db[n].clock

PagesInv ==
  \A m, n \in Node : \A x \in ToSet(page[m][n]) :
    /\ x.change.node # m
    /\ x.change.col # NoColumn => x.change.val # Null
    /\ x.local > cursor[m][n]

TypeInv == TypeOK /\ FilesInv /\ PagesInv

\* n's file becomes e, whose tombstones are remembered.
Stores(n, e) ==
  /\ db'[n] = e
  /\ \A u : u \in mourned'[n] <=>
       \/ u \in mourned[n]
       \/ \E t \in e.tombs : u = [rec |-> t.rec, dv |-> t.dv, node |-> t.node]
  /\ \A k \in Node \ {n} : db'[k] = db[k] /\ mourned'[k] = mourned[k]
  /\ db' \in [Node -> Database] /\ mourned' \in [Node -> SUBSET Mourning]

CommitStep(n) ==
  /\ \E e : Processed(db[n], n, e) /\ Stores(n, e)
  /\ UNCHANGED <<cursor, page>>

AskStep(m, n) ==
  /\ m # n /\ page[m][n] = NoPage
  /\ \E p \in Pages(db[n], cursor[m][n], Excluded(m)) :
       page' = [page EXCEPT ![m][n] = p]
  /\ UNCHANGED <<db, cursor, mourned>>

MergeStep(m, n) ==
  /\ page[m][n] # NoPage
  /\ \E e : /\ Joined(db[m], Changes(page[m][n]), e) /\ db[m].clock + 1 <= e.clock
            /\ Stores(m, e)
  /\ page' = [page EXCEPT ![m][n] = NoPage]
  /\ \/ cursor' = cursor
     \/ cursor' = [cursor EXCEPT ![m][n] = Max({x.local : x \in ToSet(page[m][n])})]

DropStep(m, n) ==
  /\ page' = [page EXCEPT ![m][n] = NoPage]
  /\ UNCHANGED <<db, cursor, mourned>>

CompactStep(n) ==
  /\ \E e \in Database, version \in Nat :
       /\ MayCompact(n, version)
       /\ KeysUnique(e) /\ e.rows = db[n].rows /\ e.versions = db[n].versions
       /\ e.clock = db[n].clock /\ e.tombs = {t \in db[n].tombs : t.dv >= version}
       /\ db'[n] = e /\ \A k \in Node \ {n} : db'[k] = db[k]
  /\ db' \in [Node -> Database]
  /\ UNCHANGED <<cursor, page, mourned>>

StepKinds ==
  \/ UNCHANGED <<db, cursor, page, mourned>>
  \/ \E n \in Node : CommitStep(n) \/ CompactStep(n)
  \/ \E m, n \in Node : AskStep(m, n) \/ MergeStep(m, n) \/ DropStep(m, n)

LEMMA StoreIs ==
  ASSUME TypeOK, NEW n \in Node, NEW e \in Database, Store(n, e)
  PROVE  Stores(n, e)
<1> DEFINE graves == {[rec |-> t.rec, dv |-> t.dv, node |-> t.node] : t \in e.tombs}
<1>1. /\ db' = [db EXCEPT ![n] = e]
      /\ mourned' = [mourned EXCEPT ![n] = @ \cup graves]
  BY DEF Store
<1>2. graves \in SUBSET Mourning
  BY DEF Database, TombRow, Mourning
<1>3. \A u : u \in graves <=>
        \E t \in e.tombs : u = [rec |-> t.rec, dv |-> t.dv, node |-> t.node]
  OBVIOUS
<1> HIDE DEF graves
<1> QED
  BY <1>1, <1>2, <1>3 DEF Stores, TypeOK

LEMMA StatementIs ==
  ASSUME TypeOK, NEW n \in Node, InsertRow(n) \/ UpdateRow(n) \/ DeleteRow(n)
  PROVE  \E r \in Record : \E rows, pend :
           Statement(db[n], r, rows, pend) /\ Commit(n, rows, pend)
<1>0. /\ db[n].rows \in SUBSET Row
      /\ \A a, b \in db[n].rows : a.rec = b.rec => a = b
  BY DEF TypeOK, Database, KeysUnique
<1>1. CASE InsertRow(n)
  <2>1. PICK r \in Record, cells \in [Column -> UserCell] :
          Commit(n, RowsBut(db[n].rows, r) \cup {[rec |-> r, cells |-> cells]},
                 [op : {"INSERT"}, rec : {r}, col : Column])
    BY <1>1 DEF InsertRow
  <2> DEFINE new == [rec |-> r, cells |-> cells]
             pend == [op : {"INSERT"}, rec : {r}, col : Column]
  <2>2. new \in Row /\ new.rec = r
    BY UserCellAssumption DEF Row
  <2>3. \A p \in pend : p.rec = r /\ p.op # "DELETE"
    OBVIOUS
  <2>4. \A c \in Column : \E p \in pend : p.col = c
    <3>1. \A c \in Column : [op |-> "INSERT", rec |-> r, col |-> c] \in pend
      OBVIOUS
    <3> QED
      BY <3>1
  <2>5. WellFormed(pend)
    BY ColumnAssumption DEF WellFormed, Pending
  <2>6. IsFiniteSet(pend)
    <3> DEFINE f == [c \in Column |-> [op |-> "INSERT", rec |-> r, col |-> c]]
    <3>1. DOMAIN f = Column /\ IsFiniteSet(DOMAIN f)
      BY TableAssumption
    <3>2. \A q \in pend : q.col \in Column /\ q = f[q.col]
      OBVIOUS
    <3> HIDE DEF f, pend
    <3>3. pend \subseteq {f[c] : c \in DOMAIN f}
      BY <3>1, <3>2
    <3>4. IsFiniteSet({f[c] : c \in DOMAIN f})
      BY <3>1, ImageFinite
    <3> QED
      BY <3>3, <3>4, FS_Subset
  <2>7. Commit(n, RowsBut(db[n].rows, r) \cup {new}, pend)
    BY <2>1
  <2> HIDE DEF new, pend
  <2>8. pend # {}
    BY <2>4, TableAssumption
  <2>9. RowsBut(db[n].rows, r) \cup {new} \in SUBSET Row
    BY <1>0, <2>2 DEF RowsBut
  <2>10. Writes(db[n], r, RowsBut(db[n].rows, r) \cup {new}, pend)
    BY <1>0, <2>2, <2>3, <2>4, <2>8 DEF Writes, RowsBut
  <2> QED
    BY <2>5, <2>6, <2>7, <2>9, <2>10 DEF Statement
<1>2. CASE UpdateRow(n)
  <2>0. PICK row \in db[n].rows, c \in Column, cell \in UserCell :
          Commit(n, RowsBut(db[n].rows, row.rec)
                      \cup {[row EXCEPT !.cells[c] = cell]},
                 {[op |-> "UPDATE", rec |-> row.rec, col |-> c]})
    BY <1>2 DEF UpdateRow
  <2> DEFINE new == [row EXCEPT !.cells[c] = cell]
             p == [op |-> "UPDATE", rec |-> row.rec, col |-> c]
  <2>1. row \in Row /\ row.rec \in Record /\ cell \in Cell
    BY <1>0, UserCellAssumption DEF Row
  <2>2. /\ new \in Row /\ new.rec = row.rec
        /\ \A k \in Column : k # c => row.cells[k] = new.cells[k]
    BY <2>1 DEF Row
  <2>3. /\ p.rec = row.rec /\ p.op = "UPDATE" /\ p.col = c
        /\ p \in Pending
    BY <2>1 DEF Pending
  <2>4. Commit(n, RowsBut(db[n].rows, row.rec) \cup {new}, {p})
    BY <2>0
  <2> HIDE DEF new, p
  <2>5. WellFormed({p}) /\ IsFiniteSet({p})
    BY <2>3, ColumnAssumption, FS_Singleton DEF WellFormed
  <2>6. RowsBut(db[n].rows, row.rec) \cup {new} \in SUBSET Row
    BY <1>0, <2>2 DEF RowsBut
  <2>7. Writes(db[n], row.rec, RowsBut(db[n].rows, row.rec) \cup {new}, {p})
    BY <1>0, <2>2, <2>3 DEF Writes, RowsBut
  <2> QED
    BY <2>1, <2>4, <2>5, <2>6, <2>7 DEF Statement
<1>3. CASE DeleteRow(n)
  <2>0. PICK row \in db[n].rows :
          Commit(n, db[n].rows \ {row},
                 {[op |-> "DELETE", rec |-> row.rec, col |-> NoColumn]})
    BY <1>3 DEF DeleteRow
  <2> DEFINE p == [op |-> "DELETE", rec |-> row.rec, col |-> NoColumn]
             rows == db[n].rows \ {row}
  <2>1. row.rec \in Record
    BY <1>0 DEF Row
  <2>2. /\ p.rec = row.rec /\ p.op = "DELETE" /\ p.col = NoColumn
        /\ p \in Pending
    BY <2>1 DEF Pending
  <2>3. Commit(n, rows, {p})
    BY <2>0
  <2> HIDE DEF p
  <2>4. WellFormed({p}) /\ IsFiniteSet({p})
    BY <2>2, ColumnAssumption, FS_Singleton DEF WellFormed
  <2>5. rows \in SUBSET Row /\ \A a \in rows : a.rec # row.rec
    BY <1>0
  <2>6. \A a : a.rec # row.rec => (a \in rows <=> a \in db[n].rows)
    OBVIOUS
  <2>7. \A a, b \in rows : a.rec = b.rec => a = b
    BY <1>0
  <2> HIDE DEF rows
  <2>8. Writes(db[n], row.rec, rows, {p})
    BY <2>2, <2>5, <2>6, <2>7 DEF Writes
  <2> QED
    BY <2>1, <2>3, <2>4, <2>5, <2>8 DEF Statement
<1> QED
  BY <1>1, <1>2, <1>3

LEMMA CommitIs ==
  ASSUME TypeInv, NEW n \in Node, InsertRow(n) \/ UpdateRow(n) \/ DeleteRow(n)
  PROVE  CommitStep(n) /\ writes' \in 0 .. MaxWrites /\ faults' \in 0 .. MaxFaults
<1>1. PICK r \in Record : \E rows, pend :
        Statement(db[n], r, rows, pend) /\ Commit(n, rows, pend)
  BY StatementIs DEF TypeInv
<1>2. PICK rows, pend : Statement(db[n], r, rows, pend) /\ Commit(n, rows, pend)
  BY <1>1
<1> DEFINE e == ProcessPending([db[n] EXCEPT !.rows = rows], n, pend)
<1>3. db[n] \in Database /\ KeysUnique(db[n]) /\ Dominated(db[n]) /\ Finite(db[n])
  BY DEF TypeInv, TypeOK, FilesInv
<1>4. Processed(db[n], n, e)
  BY <1>2, <1>3, StatementProcessed
<1>5. /\ Store(n, e) /\ UNCHANGED <<cursor, page, faults>>
      /\ writes < MaxWrites /\ writes' = writes + 1
  BY <1>2 DEF Commit
<1> HIDE DEF e
<1>6. Stores(n, e)
  BY <1>4, <1>5, StoreIs DEF Processed, TypeInv
<1> QED
  BY <1>4, <1>5, <1>6, BoundAssumption DEF CommitStep, TypeInv, TypeOK

LEMMA MergeIs ==
  ASSUME TypeInv, NEW m \in Node, NEW n \in Node, Deliver(m, n) \/ DeliverAgain(m, n)
  PROVE  MergeStep(m, n) /\ writes' \in 0 .. MaxWrites /\ faults' \in 0 .. MaxFaults
<1>1. MergePage(m, n)
  BY DEF Deliver, DeliverAgain
<1>2. PICK e \in {MergeChanges(db[m], page[m][n])} : Store(m, e)
  BY <1>1 DEF MergePage
<1>3. db[m] \in Database /\ KeysUnique(db[m]) /\ Dominated(db[m]) /\ Finite(db[m])
  BY DEF TypeInv, TypeOK, FilesInv
<1>4. page[m][n] \in Seq(SentChange) /\ SendsTexts(page[m][n])
  BY DEF TypeInv, TypeOK, PagesInv, SendsTexts
<1>5. Joined(db[m], Changes(page[m][n]), e) /\ db[m].clock + 1 <= e.clock
  BY <1>2, <1>3, <1>4, MergeChangesJoins
<1>6. Stores(m, e)
  BY <1>2, <1>5, StoreIs DEF Joined, TypeInv
<1>7. /\ page[m][n] # NoPage /\ page' = [page EXCEPT ![m][n] = NoPage]
      /\ writes' = writes
  BY <1>1 DEF MergePage
<1>8. /\ faults' \in 0 .. MaxFaults
      /\ \/ cursor' = cursor
         \/ cursor' = [cursor EXCEPT ![m][n] = Max({x.local : x \in ToSet(page[m][n])})]
  BY BoundAssumption DEF Deliver, DeliverAgain, Fail, TypeInv, TypeOK
<1> QED
  BY <1>5, <1>6, <1>7, <1>8 DEF MergeStep, TypeInv, TypeOK

LEMMA CompactIs ==
  ASSUME TypeInv, NEW n \in Node, CompactTombstones(n)
  PROVE  CompactStep(n)
<1>1. PICK version \in {t.dv + 1 : t \in db[n].tombs} :
        /\ MayCompact(n, version)
        /\ db' = [db EXCEPT ![n].tombs = {t \in @ : t.dv >= version}]
        /\ UNCHANGED <<cursor, page, mourned>>
  BY DEF CompactTombstones
<1> DEFINE left == {t \in db[n].tombs : t.dv >= version}
           e == [db[n] EXCEPT !.tombs = left]
<1>2. db[n] \in Database /\ KeysUnique(db[n])
  BY DEF TypeInv, TypeOK
<1>3. version \in Nat
  BY <1>2, DatabaseNumbers
<1>4. left \in SUBSET TombRow /\ \A a, b \in left : a.rec = b.rec => a = b
  BY <1>2 DEF Database, KeysUnique
<1>5. /\ e = [rows |-> db[n].rows, versions |-> db[n].versions, tombs |-> left,
              clock |-> db[n].clock]
      /\ e \in Database /\ KeysUnique(e)
  BY <1>2, <1>4, PutTombs
<1>6. db' = [db EXCEPT ![n] = e]
  BY <1>1
<1> HIDE DEF e
<1>7. /\ db'[n] = e /\ \A k \in Node \ {n} : db'[k] = db[k]
      /\ db' \in [Node -> Database]
  BY <1>5, <1>6 DEF TypeInv, TypeOK
<1>8. /\ e.rows = db[n].rows /\ e.versions = db[n].versions
      /\ e.clock = db[n].clock /\ e.tombs = left
  BY <1>5
<1> QED
  BY <1>1, <1>3, <1>5, <1>7, <1>8 DEF CompactStep

LEMMA NextIs ==
  ASSUME TypeInv, [Next]_vars
  PROVE  StepKinds /\ writes' \in 0 .. MaxWrites /\ faults' \in 0 .. MaxFaults
<1> DEFINE Counts == writes' \in 0 .. MaxWrites /\ faults' \in 0 .. MaxFaults
<1>0. UNCHANGED <<writes, faults>> => Counts
  BY DEF TypeInv, TypeOK
<1>1. CASE UNCHANGED vars
  BY <1>0, <1>1 DEF vars, StepKinds
<1>2. ASSUME NEW n \in Node, InsertRow(n) \/ UpdateRow(n) \/ DeleteRow(n)
      PROVE  StepKinds /\ Counts
  BY <1>2, CommitIs DEF StepKinds
<1>3. ASSUME NEW n \in Node, CompactTombstones(n)
      PROVE  StepKinds /\ Counts
  <2>1. CompactStep(n) /\ UNCHANGED <<writes, faults>>
    BY <1>3, CompactIs DEF CompactTombstones
  <2> QED
    BY <1>0, <2>1 DEF StepKinds
<1>4. ASSUME NEW m \in Node, NEW n \in Node, Ask(m, n)
      PROVE  StepKinds /\ Counts
  BY <1>0, <1>4 DEF Ask, AskStep, StepKinds
<1>5. ASSUME NEW m \in Node, NEW n \in Node, Deliver(m, n) \/ DeliverAgain(m, n)
      PROVE  StepKinds /\ Counts
  BY <1>5, MergeIs DEF StepKinds
<1>6. ASSUME NEW m \in Node, NEW n \in Node, RefusePage(m, n)
      PROVE  StepKinds /\ Counts
  BY <1>0, <1>6 DEF RefusePage, DropStep, StepKinds
<1>7. ASSUME NEW m \in Node, NEW n \in Node, LosePage(m, n)
      PROVE  StepKinds /\ Counts
  <2>1. DropStep(m, n) /\ UNCHANGED writes
    BY <1>7 DEF LosePage, DropStep
  <2>2. Counts
    BY <1>7, <2>1, BoundAssumption DEF LosePage, Fail, TypeInv, TypeOK
  <2> QED
    BY <2>1, <2>2 DEF StepKinds
<1> QED
  BY <1>1, <1>2, <1>3, <1>4, <1>5, <1>6, <1>7 DEF Next, Pull

-----------------------------------------------------------------------------
(* Types, primary keys, clocks and cursors.                                *)

LEMMA StoredFiles ==
  ASSUME TypeInv, NEW n \in Node, NEW e, Stores(n, e),
         e \in Database, KeysUnique(e), Dominated(e), Finite(e),
         db[n].clock <= e.clock
  PROVE  /\ FilesInv'
         /\ db' \in [Node -> Database] /\ mourned' \in [Node -> SUBSET Mourning]
         /\ \A k \in Node : KeysUnique(db'[k]) /\ db[k].clock <= db'[k].clock
<1>1. /\ db'[n] = e /\ \A k \in Node \ {n} : db'[k] = db[k] /\ mourned'[k] = mourned[k]
      /\ db' \in [Node -> Database] /\ mourned' \in [Node -> SUBSET Mourning]
  BY DEF Stores
<1>2. \A k \in Node : KeysUnique(db'[k]) /\ db[k].clock <= db'[k].clock
  <2>1. \A k \in Node : KeysUnique(db[k]) /\ db[k].clock \in Nat
    BY DEF TypeInv, TypeOK, Database
  <2> QED
    BY <1>1, <2>1
<1>3. \A t \in e.tombs : \E u \in mourned'[n] :
        u.rec = t.rec /\ u.dv = t.dv /\ u.node = t.node
  <2> SUFFICES ASSUME NEW t \in e.tombs
               PROVE  \E u \in mourned'[n] :
                        u.rec = t.rec /\ u.dv = t.dv /\ u.node = t.node
    OBVIOUS
  <2> DEFINE u == [rec |-> t.rec, dv |-> t.dv, node |-> t.node]
  <2>1. u \in mourned'[n]
    BY DEF Stores
  <2>2. u.rec = t.rec /\ u.dv = t.dv /\ u.node = t.node
    OBVIOUS
  <2> QED
    BY <2>1, <2>2
<1>4. \A u \in mourned'[n] : u.dv <= e.clock
  <2> SUFFICES ASSUME NEW u \in mourned'[n]
               PROVE  u.dv <= e.clock
    OBVIOUS
  <2>1. CASE u \in mourned[n]
    <3>1. u.dv <= db[n].clock /\ u.dv \in Nat
      BY <2>1 DEF TypeInv, TypeOK, FilesInv, Mourning
    <3>2. db[n].clock \in Nat /\ e.clock \in Nat
      BY DEF TypeInv, TypeOK, Database
    <3> QED
      BY <3>1, <3>2
  <2>2. CASE \E t \in e.tombs : u = [rec |-> t.rec, dv |-> t.dv, node |-> t.node]
    BY <2>2 DEF Dominated
  <2> QED
    BY <2>1, <2>2 DEF Stores
<1>5. FilesInv'
  BY <1>1, <1>3, <1>4 DEF FilesInv, TypeInv
<1> QED
  BY <1>1, <1>2, <1>5

\* The cursor that Deliver takes from a page.
LEMMA NextCursor ==
  ASSUME TypeInv, NEW m \in Node, NEW n \in Node, page[m][n] # NoPage
  PROVE  LET next == Max({x.local : x \in ToSet(page[m][n])})
         IN  /\ next \in Nat
             /\ \E x \in ToSet(page[m][n]) : x.local = next
             /\ \A x \in ToSet(page[m][n]) : x.local \in Nat /\ x.local <= next
             /\ cursor[m][n] < next /\ next <= db[n].clock
<1> DEFINE p == page[m][n]
           T == {x.local : x \in ToSet(p)}
<1>1. p \in Seq(SentChange) /\ p # << >>
  BY DEF TypeInv, TypeOK, NoPage
<1>2. ToSet(p) # {} /\ \A x \in ToSet(p) : x \in SentChange
  <2>1. 1 \in DOMAIN p
    BY <1>1
  <2>2. \A i \in DOMAIN p : p[i] \in SentChange
    BY <1>1
  <2> QED
    BY <2>1, <2>2 DEF ToSet
<1>3. \A x \in ToSet(p) : /\ x.local \in Nat /\ x.local <= db[n].clock
                          /\ cursor[m][n] < x.local
  BY <1>2 DEF TypeInv, TypeOK, PagesInv, SentChange
<1>4. T \in SUBSET Nat /\ T # {} /\ (\A j \in T : j <= db[n].clock)
      /\ db[n].clock \in Nat
  BY <1>2, <1>3 DEF TypeInv, TypeOK, Database
<1>5. Max(T) \in T /\ \A j \in T : j <= Max(T)
  BY <1>4, MaxIs
<1>6. /\ \E x \in ToSet(p) : x.local = Max(T)
      /\ \A x \in ToSet(p) : x.local <= Max(T)
  BY <1>5
<1> QED
  BY <1>3, <1>4, <1>5, <1>6

LEMMA EmptyPage ==
  NoPage \in Seq(SentChange) /\ ToSet(NoPage) = {}
BY DEF NoPage, ToSet

\* The pages after a step that takes one from the network.
LEMMA PageGone ==
  ASSUME TypeOK, NEW m \in Node, NEW n \in Node,
         page' = [page EXCEPT ![m][n] = NoPage]
  PROVE  /\ page' \in [Node -> [Node -> Seq(SentChange)]]
         /\ \A k, l \in Node : \A x \in ToSet(page'[k][l]) :
              x \in ToSet(page[k][l]) /\ ~ (k = m /\ l = n)
<1>1. /\ page \in [Node -> [Node -> Seq(SentChange)]]
      /\ \A k, l \in Node : page'[k][l] = IF k = m /\ l = n THEN NoPage ELSE page[k][l]
  BY DEF TypeOK
<1> QED
  BY <1>1, EmptyPage DEF TypeOK

LEMMA SentNumbers ==
  ASSUME TypeOK
  PROVE  \A k, l \in Node : \A x \in ToSet(page[k][l]) :
           x \in SentChange /\ x.local \in Nat /\ x.change \in Change
<1> SUFFICES ASSUME NEW k \in Node, NEW l \in Node, NEW x \in ToSet(page[k][l])
             PROVE  x \in SentChange /\ x.local \in Nat /\ x.change \in Change
  OBVIOUS
<1>1. page[k][l] \in Seq(SentChange)
  BY DEF TypeOK
<1>2. PICK i \in DOMAIN page[k][l] : x = page[k][l][i]
  BY DEF ToSet
<1>3. x \in SentChange
  BY <1>1, <1>2
<1> QED
  BY <1>3 DEF SentChange

LEMMA TypeStep ==
  ASSUME TypeInv, [Next]_vars
  PROVE  TypeInv'
<1>0. /\ writes' \in 0 .. MaxWrites /\ faults' \in 0 .. MaxFaults
      /\ \A k, l \in Node : cursor[k][l] \in Nat /\ cursor[k][l] <= db[l].clock
      /\ \A k \in Node : db[k].clock \in Nat
      /\ \A k, l \in Node : \A x \in ToSet(page[k][l]) :
           x.local \in Nat /\ x.local <= db[l].clock
  BY NextIs, SentNumbers DEF TypeInv, TypeOK, Database
<1>1. CASE UNCHANGED <<db, cursor, page, mourned>>
  BY <1>0, <1>1 DEF TypeInv, TypeOK, FilesInv, PagesInv
<1>2. ASSUME NEW n \in Node, CommitStep(n)
      PROVE  TypeInv'
  <2>1. PICK e : Processed(db[n], n, e) /\ Stores(n, e)
    BY <1>2 DEF CommitStep
  <2>2. cursor' = cursor /\ page' = page
    BY <1>2 DEF CommitStep
  <2>3. db[n].clock <= e.clock
    BY <1>0, <2>1 DEF Processed
  <2>4. /\ FilesInv'
        /\ db' \in [Node -> Database] /\ mourned' \in [Node -> SUBSET Mourning]
        /\ \A k \in Node : KeysUnique(db'[k]) /\ db[k].clock <= db'[k].clock
    BY <2>1, <2>3, StoredFiles DEF Processed
  <2>5. \A k \in Node : db'[k].clock \in Nat
    BY <2>4 DEF Database
  <2>6. /\ \A k, l \in Node : cursor'[k][l] <= db'[l].clock
        /\ \A k, l \in Node : \A x \in ToSet(page'[k][l]) : x.local <= db'[l].clock
    BY <1>0, <2>2, <2>4, <2>5
  <2> QED
    BY <1>0, <2>2, <2>4, <2>6 DEF TypeInv, TypeOK, PagesInv
<1>3. ASSUME NEW n \in Node, CompactStep(n)
      PROVE  TypeInv'
  <2>1. PICK e \in Database, version \in Nat :
          /\ KeysUnique(e) /\ e.rows = db[n].rows /\ e.versions = db[n].versions
          /\ e.clock = db[n].clock /\ e.tombs = {t \in db[n].tombs : t.dv >= version}
          /\ db'[n] = e /\ \A k \in Node \ {n} : db'[k] = db[k]
    BY <1>3 DEF CompactStep
  <2>2. /\ cursor' = cursor /\ page' = page /\ mourned' = mourned
        /\ db' \in [Node -> Database]
    BY <1>3 DEF CompactStep
  <2>3. e.tombs \subseteq db[n].tombs
    BY <2>1
  <2>4. \A k \in Node : /\ KeysUnique(db'[k]) /\ db'[k].clock = db[k].clock
                        /\ db'[k].versions = db[k].versions
                        /\ db'[k].tombs \subseteq db[k].tombs
    BY <2>1, <2>3 DEF TypeInv, TypeOK
  <2>5. FilesInv'
    <3>1. \A k \in Node : IsFiniteSet(db'[k].tombs)
      BY <2>4, FS_Subset DEF TypeInv, FilesInv, Finite
    <3> QED
      BY <2>2, <2>4, <3>1 DEF TypeInv, FilesInv, Dominated, Finite
  <2> QED
    BY <1>0, <2>2, <2>4, <2>5 DEF TypeInv, TypeOK, PagesInv
<1>4. ASSUME NEW m \in Node, NEW n \in Node, AskStep(m, n)
      PROVE  TypeInv'
  <2>1. PICK p \in Pages(db[n], cursor[m][n], Excluded(m)) :
          page' = [page EXCEPT ![m][n] = p]
    BY <1>4 DEF AskStep
  <2>2. db' = db /\ cursor' = cursor /\ mourned' = mourned
    BY <1>4 DEF AskStep
  <2>3. /\ p \in Seq(SentChange)
        /\ \A x \in ToSet(p) : Carries(db[n], cursor[m][n], m, x)
    BY <1>0, PageIs DEF TypeInv, TypeOK, FilesInv
  <2>4. \A x \in ToSet(p) : /\ x.change.node # m /\ x.local <= db[n].clock
                            /\ x.change.col # NoColumn => x.change.val # Null
                            /\ x.local > cursor[m][n]
    <3> SUFFICES ASSUME NEW x \in ToSet(p)
                 PROVE  /\ x.change.node # m /\ x.local <= db[n].clock
                        /\ x.change.col # NoColumn => x.change.val # Null
                        /\ x.local > cursor[m][n]
      OBVIOUS
    <3>1. Dominated(db[n])
      BY DEF TypeInv, FilesInv
    <3> QED
      BY <2>3, <3>1 DEF Carries, Dominated, Stamp
  <2>5. /\ page' \in [Node -> [Node -> Seq(SentChange)]]
        /\ \A k, l \in Node : page'[k][l] = IF k = m /\ l = n THEN p ELSE page[k][l]
    BY <2>1, <2>3 DEF TypeInv, TypeOK
  <2>6. /\ PagesInv'
        /\ \A k, l \in Node : \A x \in ToSet(page'[k][l]) : x.local <= db'[l].clock
    <3> SUFFICES ASSUME NEW k \in Node, NEW l \in Node, NEW x \in ToSet(page'[k][l])
                 PROVE  /\ x.change.node # k /\ x.local <= db[l].clock
                        /\ x.change.col # NoColumn => x.change.val # Null
                        /\ x.local > cursor[k][l]
      BY <2>2 DEF PagesInv
    <3>1. CASE k = m /\ l = n
      BY <2>4, <2>5, <3>1
    <3>2. CASE ~ (k = m /\ l = n)
      <4>1. page'[k][l] = page[k][l]
        BY <2>5, <3>2
      <4>2. x \in ToSet(page[k][l])
        BY <4>1
      <4> QED
        BY <1>0, <4>2 DEF TypeInv, PagesInv
    <3> QED
      BY <3>1, <3>2
  <2> QED
    BY <1>0, <2>2, <2>5, <2>6 DEF TypeInv, TypeOK, FilesInv
<1>5. ASSUME NEW m \in Node, NEW n \in Node, MergeStep(m, n)
      PROVE  TypeInv'
  <2>1. PICK e : /\ Joined(db[m], Changes(page[m][n]), e)
                 /\ db[m].clock + 1 <= e.clock /\ Stores(m, e)
    BY <1>5 DEF MergeStep
  <2>2. page[m][n] # NoPage /\ page' = [page EXCEPT ![m][n] = NoPage]
    BY <1>5 DEF MergeStep
  <2> DEFINE next == Max({x.local : x \in ToSet(page[m][n])})
  <2>3. next \in Nat /\ next <= db[n].clock
    BY <2>2, NextCursor
  <2>4. cursor' = cursor \/ cursor' = [cursor EXCEPT ![m][n] = next]
    BY <1>5 DEF MergeStep
  <2> HIDE DEF next
  <2>5. /\ cursor' \in [Node -> [Node -> Nat]]
        /\ \A k, l \in Node : cursor'[k][l] <= db[l].clock
        /\ \A k, l \in Node : ~ (k = m /\ l = n) => cursor'[k][l] = cursor[k][l]
    <3>1. cursor \in [Node -> [Node -> Nat]]
      BY DEF TypeInv, TypeOK
    <3>2. CASE cursor' = cursor
      BY <1>0, <3>1, <3>2
    <3>3. CASE cursor' = [cursor EXCEPT ![m][n] = next]
      <4>1. \A k, l \in Node :
              cursor'[k][l] = IF k = m /\ l = n THEN next ELSE cursor[k][l]
        BY <3>1, <3>3
      <4>2. cursor' \in [Node -> [Node -> Nat]]
        BY <2>3, <3>1, <3>3
      <4> QED
        BY <1>0, <2>3, <4>1, <4>2
    <3> QED
      BY <2>4, <3>2, <3>3
  <2>6. db[m].clock <= e.clock /\ e \in Database
    BY <2>1 DEF Joined
  <2>7. /\ FilesInv'
        /\ db' \in [Node -> Database] /\ mourned' \in [Node -> SUBSET Mourning]
        /\ \A k \in Node : KeysUnique(db'[k]) /\ db[k].clock <= db'[k].clock
    BY <2>1, <2>6, StoredFiles DEF Joined
  <2>8. \A k \in Node : db'[k].clock \in Nat
    BY <2>7 DEF Database
  <2>9. /\ page' \in [Node -> [Node -> Seq(SentChange)]]
        /\ \A k, l \in Node : \A x \in ToSet(page'[k][l]) :
             x \in ToSet(page[k][l]) /\ ~ (k = m /\ l = n)
    BY <2>2, PageGone DEF TypeInv
  <2>10. \A k, l \in Node : \A x \in ToSet(page'[k][l]) : x.local <= db'[l].clock
    <3> SUFFICES ASSUME NEW k \in Node, NEW l \in Node, NEW x \in ToSet(page'[k][l])
                 PROVE  x.local <= db'[l].clock
      OBVIOUS
    <3>1. x \in ToSet(page[k][l])
      BY <2>9
    <3>2. x.local \in Nat /\ x.local <= db[l].clock
      BY <1>0, <3>1
    <3> QED
      BY <1>0, <2>7, <2>8, <3>2
  <2>11. PagesInv'
    <3> SUFFICES ASSUME NEW k \in Node, NEW l \in Node, NEW x \in ToSet(page'[k][l])
                 PROVE  /\ x.change.node # k
                        /\ x.change.col # NoColumn => x.change.val # Null
                        /\ x.local > cursor'[k][l]
      BY DEF PagesInv
    <3>1. x \in ToSet(page[k][l]) /\ ~ (k = m /\ l = n)
      BY <2>9
    <3>2. cursor'[k][l] = cursor[k][l]
      BY <2>5, <3>1
    <3> QED
      BY <3>1, <3>2 DEF TypeInv, PagesInv
  <2>12. \A k, l \in Node : cursor'[k][l] <= db'[l].clock
    <3>1. \A k, l \in Node : cursor'[k][l] \in Nat
      BY <2>5
    <3> QED
      BY <1>0, <2>5, <2>7, <2>8, <3>1
  <2> QED
    BY <1>0, <2>5, <2>7, <2>9, <2>10, <2>11, <2>12 DEF TypeInv, TypeOK
<1>6. ASSUME NEW m \in Node, NEW n \in Node, DropStep(m, n)
      PROVE  TypeInv'
  <2>1. /\ page' \in [Node -> [Node -> Seq(SentChange)]]
        /\ \A k, l \in Node : \A x \in ToSet(page'[k][l]) : x \in ToSet(page[k][l])
    BY <1>6, PageGone DEF DropStep, TypeInv
  <2>2. db' = db /\ cursor' = cursor /\ mourned' = mourned
    BY <1>6 DEF DropStep
  <2>3. /\ PagesInv'
        /\ \A k, l \in Node : \A x \in ToSet(page'[k][l]) : x.local <= db'[l].clock
    <3> SUFFICES ASSUME NEW k \in Node, NEW l \in Node, NEW x \in ToSet(page'[k][l])
                 PROVE  /\ x.change.node # k /\ x.local <= db[l].clock
                        /\ x.change.col # NoColumn => x.change.val # Null
                        /\ x.local > cursor[k][l]
      BY <2>2 DEF PagesInv
    <3>1. x \in ToSet(page[k][l])
      BY <2>1
    <3> QED
      BY <1>0, <3>1 DEF TypeInv, PagesInv
  <2> QED
    BY <1>0, <2>1, <2>2, <2>3 DEF TypeInv, TypeOK, FilesInv
<1> QED
  BY <1>1, <1>2, <1>3, <1>4, <1>5, <1>6, NextIs DEF StepKinds

LEMMA TypeInit == Init => TypeInv
<1> SUFFICES ASSUME Init
             PROVE  TypeInv
  OBVIOUS
<1>1. \A n \in Node : db[n] = EmptyDatabase /\ mourned[n] = {}
  BY DEF Init
<1>2. \A m, n \in Node : cursor[m][n] = 0 /\ page[m][n] = NoPage
  BY DEF Init
<1>3. /\ EmptyDatabase \in Database /\ KeysUnique(EmptyDatabase)
      /\ EmptyDatabase.versions = {} /\ EmptyDatabase.tombs = {}
      /\ EmptyDatabase.clock = 0
  BY DEF EmptyDatabase, Database, KeysUnique
<1>4. FilesInv
  BY <1>1, <1>3, FS_EmptySet DEF FilesInv, Dominated, Finite
<1>5. PagesInv
  BY <1>2, EmptyPage DEF PagesInv
<1>6. /\ db \in [Node -> Database] /\ mourned \in [Node -> SUBSET Mourning]
      /\ cursor \in [Node -> [Node -> Nat]]
      /\ page \in [Node -> [Node -> Seq(SentChange)]]
  BY <1>3, EmptyPage DEF Init
<1>7. writes \in 0 .. MaxWrites /\ faults \in 0 .. MaxFaults
  BY BoundAssumption DEF Init
<1> QED
  BY <1>1, <1>2, <1>3, <1>4, <1>5, <1>6, <1>7, EmptyPage DEF TypeInv, TypeOK

LEMMA TypeInvariant == Spec => []TypeInv
<1>1. TypeInv /\ [Next]_vars => TypeInv'
  BY TypeStep
<1> QED
  BY <1>1, TypeInit, PTL DEF Spec

\* Files, cursors and pages keep their types, the primary keys hold, and no
\* cursor and no page is ahead of the clock that it was read from.
THEOREM TypeCorrect == Spec => []TypeOK
<1>1. TypeInv => TypeOK
  BY DEF TypeInv
<1> QED
  BY <1>1, TypeInvariant, PTL

-----------------------------------------------------------------------------
(* What a step may add to a replica, and what it may not take away.        *)

\* y is what a transaction of the user at n has just written.
JustWritten(n, y) ==
  /\ y.dv = db'[n].clock /\ y.local = db'[n].clock /\ y.node = n
  /\ db'[n].clock = db[n].clock + 1
  /\ UNCHANGED <<cursor, page>>

\* v came to n in a page, past the tombstones of n.
CameIn(n, v) ==
  \E k \in Node : \E x \in ToSet(page[n][k]) :
    /\ x.change.col # NoColumn /\ Stamp(x.change) = Stamp(v)
    /\ ~ IsTombstoned(db[n], x.change)

\* t came to n in a page.
DeletionCameIn(n, t) ==
  \E k \in Node : \E x \in ToSet(page[n][k]) :
    /\ x.change.col = NoColumn /\ x.change.rec = t.rec
    /\ x.change.dv = t.dv /\ x.change.node = t.node

Arrivals ==
  \A n \in Node :
    /\ \A v \in db'[n].versions :
         v \in db[n].versions \/ JustWritten(n, v) \/ CameIn(n, v)
    /\ \A t \in db'[n].tombs :
         t \in db[n].tombs \/ JustWritten(n, t) \/ DeletionCameIn(n, t)
    /\ \A u \in mourned'[n] :
         u \in mourned[n] \/ \E t \in db'[n].tombs :
           u = [rec |-> t.rec, dv |-> t.dv, node |-> t.node]

PageArrivals ==
  \A m, n \in Node : \A x \in ToSet(page'[m][n]) :
    \/ x \in ToSet(page[m][n])
    \/ m # n /\ Carries(db[n], cursor[m][n], m, x)

Growth ==
  \A n \in Node :
    /\ mourned[n] \subseteq mourned'[n]
    /\ db[n].clock <= db'[n].clock
    /\ \A v \in db[n].versions :
         \/ \E u \in db'[n].versions : SameKey(u, v) /\ AtLeast(u, v)
         \/ \E u \in mourned'[n] : u.rec = v.rec

LEMMA Reflexive ==
  ASSUME NEW d \in Database, NEW v \in d.versions
  PROVE  SameKey(v, v) /\ AtLeast(v, v)
BY DatabaseNumbers DEF SameKey, AtLeast

LEMMA Remembered ==
  ASSUME NEW n, NEW e, Stores(n, e), NEW t \in e.tombs
  PROVE  \E u \in mourned'[n] : u.rec = t.rec /\ u.dv = t.dv /\ u.node = t.node
<1> DEFINE u == [rec |-> t.rec, dv |-> t.dv, node |-> t.node]
<1>1. u \in mourned'[n]
  BY DEF Stores
<1>2. u.rec = t.rec /\ u.dv = t.dv /\ u.node = t.node
  OBVIOUS
<1> QED
  BY <1>1, <1>2

LEMMA CommitArrives ==
  ASSUME TypeInv, NEW n \in Node, CommitStep(n)
  PROVE  Arrivals /\ Growth
<1>1. PICK e : Processed(db[n], n, e) /\ Stores(n, e)
  BY DEF CommitStep
<1>2. cursor' = cursor /\ page' = page
  BY DEF CommitStep
<1>3. /\ db'[n] = e /\ \A k \in Node \ {n} : db'[k] = db[k] /\ mourned'[k] = mourned[k]
      /\ \A u : u \in mourned'[n] <=>
           \/ u \in mourned[n]
           \/ \E t \in e.tombs : u = [rec |-> t.rec, dv |-> t.dv, node |-> t.node]
  BY <1>1 DEF Stores
<1>4. \A v \in e.versions : v \in db[n].versions \/ JustWritten(n, v)
  BY <1>1, <1>2, <1>3 DEF Processed, JustWritten
<1>5. \A t \in e.tombs : t \in db[n].tombs \/ JustWritten(n, t)
  BY <1>1, <1>2, <1>3 DEF Processed, JustWritten
<1>6. Arrivals
  BY <1>3, <1>4, <1>5 DEF Arrivals
<1>7. \A k \in Node : db[k] \in Database /\ db[k].clock \in Nat
  BY DEF TypeInv, TypeOK, Database
<1>8. \A k \in Node : db[k].clock <= db'[k].clock
  BY <1>1, <1>3, <1>7 DEF Processed
<1>9. \A v \in db[n].versions :
        \/ \E u \in e.versions : SameKey(u, v) /\ AtLeast(u, v)
        \/ \E u \in mourned'[n] : u.rec = v.rec
  BY <1>1, Remembered DEF Processed, VersionsKept
<1> QED
  BY <1>3, <1>6, <1>7, <1>8, <1>9, Reflexive DEF Growth

LEMMA MergeArrives ==
  ASSUME TypeInv, NEW m \in Node, NEW n \in Node, MergeStep(m, n)
  PROVE  Arrivals /\ Growth
<1>1. PICK e : /\ Joined(db[m], Changes(page[m][n]), e)
               /\ db[m].clock + 1 <= e.clock /\ Stores(m, e)
  BY DEF MergeStep
<1>3. /\ db'[m] = e /\ \A k \in Node \ {m} : db'[k] = db[k] /\ mourned'[k] = mourned[k]
      /\ \A u : u \in mourned'[m] <=>
           \/ u \in mourned[m]
           \/ \E t \in e.tombs : u = [rec |-> t.rec, dv |-> t.dv, node |-> t.node]
  BY <1>1 DEF Stores
<1>4. \A v \in e.versions : v \in db[m].versions \/ CameIn(m, v)
  BY <1>1 DEF Joined, Sourced, Changes, CameIn
<1>5. \A t \in e.tombs : t \in db[m].tombs \/ DeletionCameIn(m, t)
  BY <1>1 DEF Joined, Sourced, Changes, DeletionCameIn
<1>6. Arrivals
  BY <1>3, <1>4, <1>5 DEF Arrivals
<1>7. \A k \in Node : db[k] \in Database /\ db[k].clock \in Nat
  BY DEF TypeInv, TypeOK, Database
<1>8. \A k \in Node : db[k].clock <= db'[k].clock
  BY <1>1, <1>3, <1>7 DEF Joined
<1>9. \A v \in db[m].versions :
        \E u \in e.versions : SameKey(u, v) /\ AtLeast(u, v)
  BY <1>1 DEF Joined, Grown, VersionsGrown
<1> QED
  BY <1>3, <1>6, <1>7, <1>8, <1>9, Reflexive DEF Growth

LEMMA CompactArrives ==
  ASSUME TypeInv, NEW n \in Node, CompactStep(n)
  PROVE  Arrivals /\ Growth
<1>1. /\ \A k \in Node : /\ db'[k].versions = db[k].versions
                         /\ db'[k].tombs \subseteq db[k].tombs
                         /\ db'[k].clock = db[k].clock
      /\ mourned' = mourned
  BY DEF CompactStep
<1>2. \A k \in Node : db[k] \in Database /\ db[k].clock \in Nat
  BY DEF TypeInv, TypeOK, Database
<1> QED
  BY <1>1, <1>2, Reflexive DEF Arrivals, Growth

LEMMA StepArrives ==
  ASSUME TypeInv, [Next]_vars
  PROVE  Arrivals /\ PageArrivals /\ Growth
<1>0. \A k \in Node : db[k] \in Database /\ db[k].clock \in Nat
  BY DEF TypeInv, TypeOK, Database
<1>1. ASSUME UNCHANGED <<db, mourned>>
      PROVE  Arrivals /\ Growth
  BY <1>0, <1>1, Reflexive DEF Arrivals, Growth
<1>2. Arrivals /\ Growth
  BY <1>1, NextIs, CommitArrives, MergeArrives, CompactArrives
  DEF StepKinds, AskStep, DropStep
<1>3. ASSUME UNCHANGED page
      PROVE  PageArrivals
  BY <1>3 DEF PageArrivals
<1>4. ASSUME NEW m \in Node, NEW n \in Node, page' = [page EXCEPT ![m][n] = NoPage]
      PROVE  PageArrivals
  BY <1>4, PageGone DEF PageArrivals, TypeInv
<1>5. ASSUME NEW m \in Node, NEW n \in Node, AskStep(m, n)
      PROVE  PageArrivals
  <2>1. PICK p \in Pages(db[n], cursor[m][n], Excluded(m)) :
          page' = [page EXCEPT ![m][n] = p]
    BY <1>5 DEF AskStep
  <2>2. \A x \in ToSet(p) : Carries(db[n], cursor[m][n], m, x)
    BY <1>0, PageIs DEF TypeInv, TypeOK, FilesInv
  <2>3. \A k, l \in Node : page'[k][l] = IF k = m /\ l = n THEN p ELSE page[k][l]
    BY <2>1 DEF TypeInv, TypeOK
  <2> SUFFICES ASSUME NEW k \in Node, NEW l \in Node, NEW x \in ToSet(page'[k][l])
               PROVE  \/ x \in ToSet(page[k][l])
                      \/ k # l /\ Carries(db[l], cursor[k][l], k, x)
    BY DEF PageArrivals
  <2>4. CASE k = m /\ l = n
    <3>1. x \in ToSet(p)
      BY <2>3, <2>4
    <3> QED
      BY <1>5, <2>2, <2>4, <3>1 DEF AskStep
  <2>5. CASE ~ (k = m /\ l = n)
    <3>1. page'[k][l] = page[k][l]
      BY <2>3, <2>5
    <3> QED
      BY <3>1
  <2> QED
    BY <2>4, <2>5
<1>6. PageArrivals
  BY <1>3, <1>4, <1>5, NextIs
  DEF StepKinds, CommitStep, CompactStep, MergeStep, DropStep
<1> QED
  BY <1>2, <1>6

\* What a replica covers or mourns it does for ever.
LEMMA CoversStays ==
  ASSUME TypeInv, TypeInv', Growth, NEW m \in Node,
         NEW v, v.cv \in Nat, v.dv \in Nat, v.node \in Nat, Covers(m, v)
  PROVE  Covers(m, v)'
<1>1. CASE \E u \in mourned[m] : u.rec = v.rec
  BY <1>1 DEF Growth, Covers
<1>2. CASE \E u \in db[m].versions : SameKey(u, v) /\ AtLeast(u, v)
  <2>1. PICK u \in db[m].versions : SameKey(u, v) /\ AtLeast(u, v)
    BY <1>2
  <2>2. CASE \E w \in mourned'[m] : w.rec = u.rec
    BY <2>1, <2>2 DEF Covers, SameKey
  <2>3. CASE \E w \in db'[m].versions : SameKey(w, u) /\ AtLeast(w, u)
    <3>1. PICK w \in db'[m].versions : SameKey(w, u) /\ AtLeast(w, u)
      BY <2>3
    <3>2. /\ u.cv \in Nat /\ u.dv \in Nat /\ u.node \in Nat
          /\ w.cv \in Nat /\ w.dv \in Nat /\ w.node \in Nat
      BY DatabaseNumbers DEF TypeInv, TypeOK
    <3>3. AtLeast(w, v) /\ SameKey(w, v)
      BY <2>1, <3>1, <3>2, AtLeastTransitive DEF SameKey
    <3> QED
      BY <3>3 DEF Covers
  <2> QED
    BY <2>2, <2>3 DEF Growth
<1> QED
  BY <1>1, <1>2 DEF Covers

LEMMA MournsStays ==
  ASSUME Growth, NEW m \in Node, NEW t, Mourns(m, t)
  PROVE  Mourns(m, t)'
BY DEF Growth, Mourns

-----------------------------------------------------------------------------
(* What is behind a cursor, and what a page will put behind it.            *)

\* What a step does to the cursor of m at n and to the page between them.
LEMMA LinkSteps ==
  ASSUME TypeInv, [Next]_vars, NEW m \in Node, NEW n \in Node
  PROVE  \/ /\ cursor'[m][n] = cursor[m][n]
            /\ page'[m][n] = page[m][n] \/ page'[m][n] = NoPage
         \/ /\ cursor'[m][n] = cursor[m][n] /\ page[m][n] = NoPage
            /\ Complete(db[n], cursor[m][n], m, page'[m][n])
         \/ /\ page[m][n] # NoPage /\ page'[m][n] = NoPage
            /\ cursor'[m][n] = Max({x.local : x \in ToSet(page[m][n])})
            /\ \A x \in ToSet(page[m][n]) : Taken(db'[m], x.change)
<1> DEFINE Goal ==
      \/ /\ cursor'[m][n] = cursor[m][n]
         /\ page'[m][n] = page[m][n] \/ page'[m][n] = NoPage
      \/ /\ cursor'[m][n] = cursor[m][n] /\ page[m][n] = NoPage
         /\ Complete(db[n], cursor[m][n], m, page'[m][n])
      \/ /\ page[m][n] # NoPage /\ page'[m][n] = NoPage
         /\ cursor'[m][n] = Max({x.local : x \in ToSet(page[m][n])})
         /\ \A x \in ToSet(page[m][n]) : Taken(db'[m], x.change)
<1>0. /\ page \in [Node -> [Node -> Seq(SentChange)]]
      /\ cursor \in [Node -> [Node -> Nat]]
  BY DEF TypeInv, TypeOK
<1>1. ASSUME UNCHANGED <<cursor, page>>
      PROVE  Goal
  BY <1>1
<1>2. ASSUME NEW k \in Node, NEW l \in Node,
             page' = [page EXCEPT ![k][l] = NoPage], cursor' = cursor
      PROVE  Goal
  BY <1>0, <1>2
<1>3. ASSUME NEW k \in Node, NEW l \in Node, AskStep(k, l)
      PROVE  Goal
  <2>1. PICK p \in Pages(db[l], cursor[k][l], Excluded(k)) :
          page' = [page EXCEPT ![k][l] = p]
    BY <1>3 DEF AskStep
  <2>2. Complete(db[l], cursor[k][l], k, p)
    BY <1>0, PageIs DEF TypeInv, TypeOK, FilesInv
  <2>3. page'[m][n] = IF m = k /\ n = l THEN p ELSE page[m][n]
    BY <1>0, <2>1
  <2>4. cursor' = cursor /\ page[k][l] = NoPage
    BY <1>3 DEF AskStep
  <2> QED
    BY <2>2, <2>3, <2>4
<1>4. ASSUME NEW k \in Node, NEW l \in Node, MergeStep(k, l)
      PROVE  Goal
  <2>1. PICK e : Joined(db[k], Changes(page[k][l]), e) /\ Stores(k, e)
    BY <1>4 DEF MergeStep
  <2>2. \A x \in ToSet(page[k][l]) : Taken(db'[k], x.change)
    BY <2>1 DEF Joined, Stores, Changes
  <2> DEFINE next == Max({x.local : x \in ToSet(page[k][l])})
  <2>3. /\ page[k][l] # NoPage
        /\ page' = [page EXCEPT ![k][l] = NoPage]
        /\ cursor' = cursor \/ cursor' = [cursor EXCEPT ![k][l] = next]
    BY <1>4 DEF MergeStep
  <2>4. CASE cursor' = cursor
    BY <1>2, <2>3, <2>4
  <2>5. CASE cursor' = [cursor EXCEPT ![k][l] = next]
    <3> HIDE DEF next
    <3>1. /\ page'[m][n] = IF m = k /\ n = l THEN NoPage ELSE page[m][n]
          /\ cursor'[m][n] = IF m = k /\ n = l THEN next ELSE cursor[m][n]
      BY <1>0, <2>3, <2>5
    <3> QED
      BY <2>2, <2>3, <3>1 DEF next
  <2> QED
    BY <2>3, <2>4, <2>5
<1> QED
  BY <1>1, <1>2, <1>3, <1>4, NextIs
  DEF StepKinds, CommitStep, CompactStep, DropStep

ColumnSent(m, n, v) ==
  \E y \in ToSet(page[m][n]) : y.change.col # NoColumn /\ Stamp(y.change) = Stamp(v)

DeletionSent(m, n, t) ==
  \E y \in ToSet(page[m][n]) :
    /\ y.change.col = NoColumn /\ y.change.rec = t.rec
    /\ y.change.dv = t.dv /\ y.change.node = t.node

\* m has v if it is behind m's cursor, and the page has it if it will be.
VersionSeen(m, n, v) ==
  /\ v.local <= cursor[m][n] => Covers(m, v)
  /\ \A x \in ToSet(page[m][n]) :
       v.local <= x.local => v.local <= cursor[m][n] \/ ColumnSent(m, n, v)

TombSeen(m, n, t) ==
  /\ t.local <= cursor[m][n] => Mourns(m, t)
  /\ \A x \in ToSet(page[m][n]) :
       t.local <= x.local => t.local <= cursor[m][n] \/ DeletionSent(m, n, t)

GapInv ==
  \A m, n \in Node : m # n =>
    /\ \A v \in db[n].versions : v.node = n => VersionSeen(m, n, v)
    /\ \A t \in db[n].tombs : t.node = n => TombSeen(m, n, t)

LEMMA TakenCovers ==
  ASSUME NEW e, NEW graves,
         \A t \in e.tombs : \E u \in graves : u.rec = t.rec,
         NEW x, x.col # NoColumn, Taken(e, x), NEW v, Stamp(x) = Stamp(v)
  PROVE  \/ \E u \in e.versions : SameKey(u, v) /\ AtLeast(u, v)
         \/ \E u \in graves : u.rec = v.rec
<1>1. x.rec = v.rec /\ x.col = v.col /\ x.cv = v.cv /\ x.dv = v.dv /\ x.node = v.node
  BY DEF Stamp
<1>2. CASE \E u \in e.versions : SameKey(u, x) /\ AtLeast(u, x)
  BY <1>1, <1>2 DEF SameKey, AtLeast
<1>3. CASE \E t \in e.tombs : t.rec = x.rec
  BY <1>1, <1>3
<1> QED
  BY <1>2, <1>3 DEF Taken

LEMMA TakenMourns ==
  ASSUME NEW e, NEW graves,
         \A t \in e.tombs : \E u \in graves :
           u.rec = t.rec /\ u.dv = t.dv /\ u.node = t.node,
         NEW x, x.col = NoColumn, Taken(e, x),
         NEW t, x.rec = t.rec, x.dv = t.dv, x.node = t.node
  PROVE  \E u \in graves : u.rec = t.rec /\ NotBefore(u, t)
<1>1. PICK w \in e.tombs : w.rec = x.rec /\ NotBefore(w, x)
  BY DEF Taken
<1>2. PICK u \in graves : u.rec = w.rec /\ u.dv = w.dv /\ u.node = w.node
  OBVIOUS
<1> QED
  BY <1>1, <1>2 DEF NotBefore

LEMMA VersionSeenStays ==
  ASSUME TypeInv, TypeInv', [Next]_vars, NEW m \in Node, NEW n \in Node, m # n,
         NEW v \in db[n].versions, v.node = n, VersionSeen(m, n, v)
  PROVE  VersionSeen(m, n, v)'
<1>0. db[n] \in Database /\ cursor[m][n] \in Nat
  BY DEF TypeInv, TypeOK
<1>1. v.cv \in Nat /\ v.dv \in Nat /\ v.node \in Nat /\ v.local \in Nat
  BY <1>0, NodeAssumption DEF Database, VersionRow
<1>2. Covers(m, v) => Covers(m, v)'
  BY <1>1, StepArrives, CoversStays
<1>3. CASE /\ cursor'[m][n] = cursor[m][n]
           /\ page'[m][n] = page[m][n] \/ page'[m][n] = NoPage
  BY <1>2, <1>3, EmptyPage DEF VersionSeen, ColumnSent
<1>4. CASE /\ cursor'[m][n] = cursor[m][n] /\ page[m][n] = NoPage
           /\ Complete(db[n], cursor[m][n], m, page'[m][n])
  <2>1. v.local <= cursor[m][n] \/ (v.local > cursor[m][n] /\ v.node # m)
    BY <1>0, <1>1
  <2>2. v.local <= cursor[m][n] \/ ColumnSent(m, n, v)'
    BY <1>4, <2>1 DEF Complete, ColumnSent
  <2> QED
    BY <1>2, <1>4, <2>2 DEF VersionSeen
<1>5. CASE /\ page[m][n] # NoPage /\ page'[m][n] = NoPage
           /\ cursor'[m][n] = Max({x.local : x \in ToSet(page[m][n])})
           /\ \A x \in ToSet(page[m][n]) : Taken(db'[m], x.change)
  <2> DEFINE next == Max({x.local : x \in ToSet(page[m][n])})
  <2>1. PICK x \in ToSet(page[m][n]) : x.local = next
    BY <1>5, NextCursor
  <2>2. ASSUME v.local <= next
        PROVE  Covers(m, v)'
    <3>1. CASE v.local <= cursor[m][n]
      BY <1>2, <3>1 DEF VersionSeen
    <3>2. CASE ColumnSent(m, n, v)
      <4>1. PICK y \in ToSet(page[m][n]) :
              y.change.col # NoColumn /\ Stamp(y.change) = Stamp(v)
        BY <3>2 DEF ColumnSent
      <4>2. Taken(db'[m], y.change)
        BY <1>5
      <4>3. \A t \in db'[m].tombs : \E u \in mourned'[m] : u.rec = t.rec
        BY DEF TypeInv, FilesInv
      <4> QED
        BY <4>1, <4>2, <4>3, TakenCovers DEF Covers
    <3> QED
      BY <2>1, <2>2, <3>1, <3>2 DEF VersionSeen
  <2> QED
    BY <1>5, <2>2, EmptyPage DEF VersionSeen
<1> QED
  BY <1>3, <1>4, <1>5, LinkSteps

LEMMA TombSeenStays ==
  ASSUME TypeInv, TypeInv', [Next]_vars, NEW m \in Node, NEW n \in Node, m # n,
         NEW t \in db[n].tombs, t.node = n, TombSeen(m, n, t)
  PROVE  TombSeen(m, n, t)'
<1>0. db[n] \in Database /\ cursor[m][n] \in Nat
  BY DEF TypeInv, TypeOK
<1>1. t.dv \in Nat /\ t.node \in Nat /\ t.local \in Nat
  BY <1>0, NodeAssumption DEF Database, TombRow
<1>2. Mourns(m, t) => Mourns(m, t)'
  BY StepArrives, MournsStays
<1>3. CASE /\ cursor'[m][n] = cursor[m][n]
           /\ page'[m][n] = page[m][n] \/ page'[m][n] = NoPage
  BY <1>2, <1>3, EmptyPage DEF TombSeen, DeletionSent
<1>4. CASE /\ cursor'[m][n] = cursor[m][n] /\ page[m][n] = NoPage
           /\ Complete(db[n], cursor[m][n], m, page'[m][n])
  <2>1. t.local <= cursor[m][n] \/ (t.local > cursor[m][n] /\ t.node # m)
    BY <1>0, <1>1
  <2>2. t.local <= cursor[m][n] \/ DeletionSent(m, n, t)'
    BY <1>4, <2>1 DEF Complete, DeletionSent
  <2> QED
    BY <1>2, <1>4, <2>2 DEF TombSeen
<1>5. CASE /\ page[m][n] # NoPage /\ page'[m][n] = NoPage
           /\ cursor'[m][n] = Max({x.local : x \in ToSet(page[m][n])})
           /\ \A x \in ToSet(page[m][n]) : Taken(db'[m], x.change)
  <2> DEFINE next == Max({x.local : x \in ToSet(page[m][n])})
  <2>1. PICK x \in ToSet(page[m][n]) : x.local = next
    BY <1>5, NextCursor
  <2>2. ASSUME t.local <= next
        PROVE  Mourns(m, t)'
    <3>1. CASE t.local <= cursor[m][n]
      BY <1>2, <3>1 DEF TombSeen
    <3>2. CASE DeletionSent(m, n, t)
      <4>1. PICK y \in ToSet(page[m][n]) :
              /\ y.change.col = NoColumn /\ y.change.rec = t.rec
              /\ y.change.dv = t.dv /\ y.change.node = t.node
        BY <3>2 DEF DeletionSent
      <4>2. Taken(db'[m], y.change)
        BY <1>5
      <4>3. \A w \in db'[m].tombs : \E u \in mourned'[m] :
              u.rec = w.rec /\ u.dv = w.dv /\ u.node = w.node
        BY DEF TypeInv, FilesInv
      <4> DEFINE z == y.change
      <4>4. \E u \in mourned'[m] : u.rec = t.rec /\ NotBefore(u, t)
        <5>1. /\ z.col = NoColumn /\ z.rec = t.rec /\ z.dv = t.dv /\ z.node = t.node
              /\ Taken(db'[m], z)
          BY <4>1, <4>2
        <5> DEFINE e == db'[m]
                   graves == mourned'[m]
        <5>2. \A w \in e.tombs : \E u \in graves :
                u.rec = w.rec /\ u.dv = w.dv /\ u.node = w.node
          BY <4>3
        <5>3. Taken(e, z)
          BY <5>1
        <5> HIDE DEF z, e, graves
        <5>4. \E u \in graves : u.rec = t.rec /\ NotBefore(u, t)
          BY <5>1, <5>2, <5>3, TakenMourns
        <5> QED
          BY <5>4 DEF graves
      <4> QED
        BY <4>4 DEF Mourns
    <3> QED
      BY <2>1, <2>2, <3>1, <3>2 DEF TombSeen
  <2> QED
    BY <1>5, <2>2, EmptyPage DEF TombSeen
<1> QED
  BY <1>3, <1>4, <1>5, LinkSteps

\* What a replica has just written is beyond every cursor and every page.
LEMMA JustWrittenUnseen ==
  ASSUME TypeInv, NEW m \in Node, NEW n \in Node, NEW y, JustWritten(n, y)
  PROVE  /\ ~ (y.local <= cursor'[m][n])
         /\ \A x \in ToSet(page'[m][n]) : ~ (y.local <= x.local)
<1>1. db[n].clock \in Nat /\ cursor[m][n] \in Nat /\ cursor[m][n] <= db[n].clock
  BY DEF TypeInv, TypeOK, Database
<1>2. y.local = db[n].clock + 1 /\ cursor' = cursor /\ page' = page
  BY DEF JustWritten
<1>3. \A x \in ToSet(page[m][n]) : x.local \in Nat /\ x.local <= db[n].clock
  BY SentNumbers DEF TypeInv, TypeOK
<1> QED
  BY <1>1, <1>2, <1>3

LEMMA GapStep ==
  ASSUME TypeInv, TypeInv', GapInv, [Next]_vars
  PROVE  GapInv'
<1> SUFFICES ASSUME NEW m \in Node, NEW n \in Node, m # n
             PROVE  /\ \A v \in db'[n].versions : v.node = n => VersionSeen(m, n, v)'
                    /\ \A t \in db'[n].tombs : t.node = n => TombSeen(m, n, t)'
  BY DEF GapInv
<1>0. /\ \A v \in db'[n].versions :
           v \in db[n].versions \/ JustWritten(n, v) \/ CameIn(n, v)
      /\ \A t \in db'[n].tombs :
           t \in db[n].tombs \/ JustWritten(n, t) \/ DeletionCameIn(n, t)
  BY StepArrives DEF Arrivals
<1>1. ASSUME NEW v \in db'[n].versions, v.node = n
      PROVE  VersionSeen(m, n, v)'
  <2>1. CASE v \in db[n].versions
    BY <1>1, <2>1, VersionSeenStays DEF GapInv
  <2>2. CASE JustWritten(n, v)
    BY <2>2, JustWrittenUnseen DEF VersionSeen
  <2>3. ~ CameIn(n, v)
    BY <1>1 DEF CameIn, Stamp, TypeInv, PagesInv
  <2> QED
    BY <1>0, <2>1, <2>2, <2>3
<1>2. ASSUME NEW t \in db'[n].tombs, t.node = n
      PROVE  TombSeen(m, n, t)'
  <2>1. CASE t \in db[n].tombs
    BY <1>2, <2>1, TombSeenStays DEF GapInv
  <2>2. CASE JustWritten(n, t)
    BY <2>2, JustWrittenUnseen DEF TombSeen
  <2>3. ~ DeletionCameIn(n, t)
    BY <1>2 DEF DeletionCameIn, TypeInv, PagesInv
  <2> QED
    BY <1>0, <2>1, <2>2, <2>3
<1> QED
  BY <1>1, <1>2

LEMMA GapInvariant == Spec => []GapInv
<1>1. Init => GapInv
  BY DEF Init, EmptyDatabase, GapInv
<1>2. TypeInv /\ TypeInv' /\ GapInv /\ [Next]_vars => GapInv'
  BY GapStep
<1> QED
  BY <1>1, <1>2, TypeInvariant, PTL DEF Spec

\* Pages that were lost, that overlap or that came twice leave no gap behind a
\* cursor: what a replica wrote itself and a cursor has passed, the replica of
\* the cursor has.
THEOREM CursorsCorrect == Spec => []CursorsLeaveNoGap
<1>1. GapInv => CursorsLeaveNoGap
  BY DEF GapInv, VersionSeen, TombSeen, CursorsLeaveNoGap
<1> QED
  BY <1>1, GapInvariant, PTL

-----------------------------------------------------------------------------
(* The replica that wrote a deletion keeps it, or a later one of the record *)
(* is kept by the replica that wrote that, until every replica mourns it;   *)
(* and so it is with versions, whose order has no end either.               *)

Stamped(x) == x.dv \in Nat /\ x.node \in Nat

Numbered(x) == x.cv \in Nat /\ x.dv \in Nat /\ x.node \in Nat

DeletionHeld(u) ==
  \/ \A k \in Node : Mourns(k, u)
  \/ \E h \in Node : \E t \in db[h].tombs :
       t.node = h /\ t.rec = u.rec /\ NotBefore(t, u)

VersionHeld(v) ==
  \/ ~ NeverDeleted(v.rec)
  \/ \E h \in Node : \E y \in db[h].versions :
       y.node = h /\ SameKey(y, v) /\ AtLeast(y, v)

OwnTombs == \A n \in Node : \A t \in db[n].tombs : t.node = n => t.local = t.dv

HeldPage ==
  \A m, n \in Node : \A x \in ToSet(page[m][n]) :
    IF x.change.col = NoColumn THEN DeletionHeld(x.change) ELSE VersionHeld(x.change)

HeldInv ==
  /\ OwnTombs
  /\ HeldPage
  /\ \A m \in Node : /\ \A u \in mourned[m] : DeletionHeld(u)
                     /\ \A v \in db[m].versions : VersionHeld(v)

LEMMA RowsType ==
  ASSUME NEW d \in Database
  PROVE  /\ d.clock \in Nat
         /\ \A v \in d.versions : Numbered(v) /\ v \in VersionRow
         /\ \A t \in d.tombs : Stamped(t) /\ t \in TombRow
<1>1. d.versions \in SUBSET VersionRow /\ d.tombs \in SUBSET TombRow /\ d.clock \in Nat
  BY DEF Database
<1> QED
  BY <1>1, DatabaseNumbers DEF Stamped, Numbered

LEMMA FilesType ==
  ASSUME TypeInv, NEW n \in Node
  PROVE  /\ db[n] \in Database /\ KeysUnique(db[n]) /\ db[n].clock \in Nat
         /\ \A v \in db[n].versions : Numbered(v) /\ v \in VersionRow
         /\ \A t \in db[n].tombs : Stamped(t) /\ t \in TombRow
         /\ \A u \in mourned[n] : Stamped(u) /\ u \in Mourning
<1>1. db[n] \in Database /\ KeysUnique(db[n]) /\ mourned[n] \in SUBSET Mourning
  BY DEF TypeInv, TypeOK
<1>2. \A u \in Mourning : Stamped(u)
  BY NodeAssumption DEF Mourning, Stamped
<1> QED
  BY <1>1, <1>2, RowsType

LEMMA SentType ==
  ASSUME NEW p \in Seq(SentChange), NEW x \in ToSet(p)
  PROVE  Stamped(x.change) /\ Numbered(x.change) /\ x.change \in Change
<1>1. PICK i \in DOMAIN p : x = p[i]
  BY DEF ToSet
<1>2. x \in SentChange
  BY <1>1
<1>3. x.change \in Change
  BY <1>2 DEF SentChange
<1> QED
  BY <1>3, NodeAssumption DEF Change, Stamped, Numbered

\* What the tombstone of t's home comes to in a merge.
LEMMA MergeHoldsDeletion ==
  ASSUME TypeInv, TypeInv', HeldPage, NEW m \in Node, NEW n \in Node, MergeStep(m, n),
         NEW t \in db[m].tombs, t.node = m
  PROVE  \/ \A k \in Node : Mourns(k, t)'
         \/ \E h \in Node : \E w \in db'[h].tombs :
              w.node = h /\ w.rec = t.rec /\ NotBefore(w, t)
<1>1. PICK e : Joined(db[m], Changes(page[m][n]), e) /\ Stores(m, e)
  BY DEF MergeStep
<1>2. /\ db'[m] = e /\ (\A k \in Node \ {m} : db'[k] = db[k])
      /\ TombsKept(db[m], e)
      /\ \A w \in e.tombs : \/ w \in db[m].tombs
                            \/ \E x \in Changes(page[m][n]) :
                                 /\ x.col = NoColumn /\ x.rec = w.rec
                                 /\ x.dv = w.dv /\ x.node = w.node
  BY <1>1 DEF Joined, Stores, Grown, Sourced
<1>3. PICK w \in e.tombs : w.rec = t.rec /\ NotBefore(w, t)
  BY <1>2 DEF TombsKept
<1>4. Stamped(w) /\ Stamped(t)
  BY <1>1, FilesType, RowsType DEF Joined
<1>5. CASE w \in db[m].tombs
  BY <1>2, <1>3, <1>5, FilesType DEF KeysUnique
<1>6. CASE \E x \in Changes(page[m][n]) : /\ x.col = NoColumn /\ x.rec = w.rec
                                         /\ x.dv = w.dv /\ x.node = w.node
  <2>1. PICK x \in ToSet(page[m][n]) :
          /\ x.change.col = NoColumn /\ x.change.rec = w.rec
          /\ x.change.dv = w.dv /\ x.change.node = w.node
    BY <1>6 DEF Changes
  <2>2. DeletionHeld(x.change)
    BY <2>1 DEF HeldPage
  <2>3. CASE \A k \in Node : Mourns(k, x.change)
    <3> SUFFICES ASSUME NEW k \in Node
                 PROVE  Mourns(k, t)'
      OBVIOUS
    <3>1. PICK u \in mourned[k] : u.rec = x.change.rec /\ NotBefore(u, x.change)
      BY <2>3 DEF Mourns
    <3>2. Stamped(u)
      BY FilesType
    <3>3. u.rec = t.rec /\ NotBefore(u, t)
      BY <1>3, <1>4, <2>1, <3>1, <3>2 DEF NotBefore, Stamped
    <3>4. u \in mourned'[k]
      BY MergeArrives DEF Growth
    <3> QED
      BY <3>3, <3>4 DEF Mourns
  <2>4. CASE \E h \in Node : \E z \in db[h].tombs :
               z.node = h /\ z.rec = x.change.rec /\ NotBefore(z, x.change)
    <3>0. PICK h \in Node : \E z \in db[h].tombs :
            z.node = h /\ z.rec = x.change.rec /\ NotBefore(z, x.change)
      BY <2>4
    <3>1. PICK z \in db[h].tombs :
            z.node = h /\ z.rec = x.change.rec /\ NotBefore(z, x.change)
      BY <3>0
    <3>2. Stamped(z)
      BY FilesType
    <3>3. z.rec = t.rec /\ NotBefore(z, t) /\ NotBefore(z, w)
      BY <1>3, <1>4, <2>1, <3>1, <3>2 DEF NotBefore, Stamped
    <3>4. CASE h # m
      BY <1>2, <3>1, <3>3, <3>4
    <3>5. CASE h = m
      <4>1. z = t
        BY <3>3, <3>5, FilesType DEF KeysUnique
      <4>2. w.node = m
        BY <1>3, <1>4, <3>3, <4>1 DEF NotBefore, Stamped
      <4> QED
        BY <1>2, <1>3, <4>2
    <3> QED
      BY <3>4, <3>5
  <2> QED
    BY <2>2, <2>3, <2>4 DEF DeletionHeld
<1> QED
  BY <1>2, <1>5, <1>6

\* And what the version of v's home comes to.
LEMMA MergeHoldsVersion ==
  ASSUME TypeInv, TypeInv', HeldPage, NEW m \in Node, NEW n \in Node, MergeStep(m, n),
         NEW v \in db[m].versions, v.node = m
  PROVE  \/ \E k \in Node : \E u \in mourned'[k] : u.rec = v.rec
         \/ \E h \in Node : \E w \in db'[h].versions :
              w.node = h /\ SameKey(w, v) /\ AtLeast(w, v)
<1>1. PICK e : Joined(db[m], Changes(page[m][n]), e) /\ Stores(m, e)
  BY DEF MergeStep
<1>2. /\ db'[m] = e /\ (\A k \in Node \ {m} : db'[k] = db[k])
      /\ VersionsGrown(db[m], e)
      /\ \A w \in e.versions : \/ w \in db[m].versions
                               \/ \E x \in Changes(page[m][n]) :
                                    x.col # NoColumn /\ Stamp(x) = Stamp(w)
  BY <1>1 DEF Joined, Stores, Grown, Sourced
<1>3. PICK w \in e.versions : SameKey(w, v) /\ AtLeast(w, v)
  BY <1>2 DEF VersionsGrown
<1>4. Numbered(w) /\ Numbered(v)
  BY <1>1, FilesType, RowsType DEF Joined
<1>5. CASE w \in db[m].versions
  BY <1>2, <1>3, <1>5, FilesType DEF KeysUnique, SameKey
<1>6. CASE \E x \in Changes(page[m][n]) : x.col # NoColumn /\ Stamp(x) = Stamp(w)
  <2>1. PICK x \in ToSet(page[m][n]) :
          x.change.col # NoColumn /\ Stamp(x.change) = Stamp(w)
    BY <1>6 DEF Changes
  <2>2. VersionHeld(x.change)
    BY <2>1 DEF HeldPage
  <2>3. /\ x.change.rec = w.rec /\ x.change.col = w.col /\ x.change.cv = w.cv
        /\ x.change.dv = w.dv /\ x.change.node = w.node
    BY <2>1 DEF Stamp
  <2>4. CASE ~ NeverDeleted(x.change.rec)
    <3>1. PICK k \in Node : \E u \in mourned[k] : u.rec = v.rec
      BY <1>3, <2>3, <2>4 DEF NeverDeleted, SameKey
    <3> QED
      BY <3>1, MergeArrives DEF Growth
  <2>5. CASE \E h \in Node : \E z \in db[h].versions :
               z.node = h /\ SameKey(z, x.change) /\ AtLeast(z, x.change)
    <3>0. PICK h \in Node : \E z \in db[h].versions :
            z.node = h /\ SameKey(z, x.change) /\ AtLeast(z, x.change)
      BY <2>5
    <3>1. PICK z \in db[h].versions :
            z.node = h /\ SameKey(z, x.change) /\ AtLeast(z, x.change)
      BY <3>0
    <3>2. Numbered(z)
      BY FilesType
    <3>3. SameKey(z, v) /\ AtLeast(z, v) /\ AtLeast(z, w)
      BY <1>3, <1>4, <2>3, <3>1, <3>2 DEF AtLeast, Numbered, SameKey
    <3>4. CASE h # m
      BY <1>2, <3>1, <3>3, <3>4
    <3>5. CASE h = m
      <4>1. z = v
        BY <3>3, <3>5, FilesType DEF KeysUnique, SameKey
      <4>2. w.node = m
        BY <1>3, <1>4, <3>3, <4>1 DEF AtLeast, Numbered
      <4> QED
        BY <1>2, <1>3, <4>2
    <3> QED
      BY <3>4, <3>5
  <2> QED
    BY <2>2, <2>4, <2>5 DEF VersionHeld
<1> QED
  BY <1>2, <1>5, <1>6

LEMMA CommitHolds ==
  ASSUME TypeInv, TypeInv', NEW n \in Node, CommitStep(n)
  PROVE  /\ \A t \in db[n].tombs : t.node = n =>
              \E w \in db'[n].tombs : w.node = n /\ w.rec = t.rec /\ NotBefore(w, t)
         /\ \A v \in db[n].versions : v.node = n =>
              \/ \E u \in mourned'[n] : u.rec = v.rec
              \/ \E w \in db'[n].versions :
                   w.node = n /\ SameKey(w, v) /\ AtLeast(w, v)
<1>1. PICK e : Processed(db[n], n, e) /\ Stores(n, e)
  BY DEF CommitStep
<1>2. db'[n] = e /\ TombsKept(db[n], e) /\ VersionsKept(db[n], e)
  BY <1>1 DEF Processed, Stores
<1>3. \A w \in e.tombs : w \in db[n].tombs \/ w.node = n
  BY <1>1 DEF Processed
<1>4. \A w \in e.versions : w \in db[n].versions \/ w.node = n
  BY <1>1 DEF Processed
<1>5. KeysUnique(db[n])
  BY FilesType
<1>6. ASSUME NEW t \in db[n].tombs, t.node = n
      PROVE  \E w \in e.tombs : w.node = n /\ w.rec = t.rec /\ NotBefore(w, t)
  BY <1>2, <1>3, <1>5, <1>6 DEF TombsKept, KeysUnique
<1>7. ASSUME NEW v \in db[n].versions, v.node = n
      PROVE  \/ \E u \in mourned'[n] : u.rec = v.rec
             \/ \E w \in e.versions : w.node = n /\ SameKey(w, v) /\ AtLeast(w, v)
  <2>1. CASE \E w \in e.versions : SameKey(w, v) /\ AtLeast(w, v)
    BY <1>4, <1>5, <1>7, <2>1 DEF KeysUnique, SameKey
  <2>2. CASE \E w \in e.tombs : w.rec = v.rec
    BY <1>1, <2>2, Remembered
  <2> QED
    BY <1>2, <2>1, <2>2 DEF VersionsKept
<1> QED
  BY <1>2, <1>6, <1>7

\* Whatever allows to compact, what it removes is mourned by every replica.
LEMMA CompactHolds ==
  ASSUME TypeInv, GapInv, OwnTombs, NEW n \in Node, CompactStep(n),
         NEW t \in db[n].tombs, t.node = n
  PROVE  t \in db'[n].tombs \/ \A k \in Node : Mourns(k, t)
<1>1. PICK e \in Database, version \in Nat :
        /\ MayCompact(n, version)
        /\ e.tombs = {w \in db[n].tombs : w.dv >= version}
        /\ db'[n] = e
  BY DEF CompactStep
<1>2. CASE t.dv >= version
  BY <1>1, <1>2
<1>3. CASE ~ (t.dv >= version)
  <2>0. t.local = t.dv /\ Stamped(t) /\ t.local \in Nat
    BY FilesType DEF OwnTombs, TombRow
  <2>1. ASSUME NEW k \in Node
        PROVE  Mourns(k, t)
    <3>1. CASE k = n
      BY <2>0, <3>1 DEF TypeInv, FilesInv, Mourns, NotBefore, Stamped
    <3>2. CASE k # n
      <4>0. cursor[k][n] \in Nat
        BY DEF TypeInv, TypeOK
      <4>1. CASE version <= cursor[k][n]
        <5>1. t.local <= cursor[k][n]
          BY <1>1, <1>3, <2>0, <4>0, <4>1 DEF Stamped
        <5> QED
          BY <3>2, <5>1 DEF GapInv, TombSeen
      <4>2. CASE \A w \in db[n].tombs : w.dv < version => Settled(w.rec)
        <5>1. Settled(t.rec)
          BY <1>1, <1>3, <2>0, <4>2 DEF Stamped
        <5>2. t \notin Fresh(db[n].tombs, cursor[k][n], Excluded(k))
          BY <3>2, <5>1 DEF Settled
        <5>3. ~ (t.local > cursor[k][n])
          BY <3>2, <5>2 DEF Fresh, Excluded
        <5>4. t.local <= cursor[k][n]
          BY <2>0, <4>0, <5>3
        <5> QED
          BY <3>2, <5>4 DEF GapInv, TombSeen
      <4> QED
        BY <1>1, <3>2, <4>1, <4>2 DEF MayCompact
    <3> QED
      BY <3>1, <3>2
  <2> QED
    BY <2>1
<1> QED
  BY <1>2, <1>3

LEMMA DeletionHeldStays ==
  ASSUME TypeInv, TypeInv', GapInv, HeldInv, [Next]_vars,
         NEW u, Stamped(u), DeletionHeld(u)
  PROVE  DeletionHeld(u)'
<1>0. Growth
  BY StepArrives
<1>1. ASSUME NEW t, Stamped(t), t.rec = u.rec, NotBefore(t, u),
             \/ \A k \in Node : Mourns(k, t)'
             \/ \E h \in Node : \E w \in db'[h].tombs :
                  w.node = h /\ w.rec = t.rec /\ NotBefore(w, t)
      PROVE  DeletionHeld(u)'
  <2>1. CASE \A k \in Node : Mourns(k, t)'
    <3> SUFFICES ASSUME NEW k \in Node
                 PROVE  Mourns(k, u)'
      BY DEF DeletionHeld
    <3>1. PICK w \in mourned'[k] : w.rec = t.rec /\ NotBefore(w, t)
      BY <2>1 DEF Mourns
    <3>2. w \in Mourning
      BY DEF TypeInv, TypeOK
    <3>3. Stamped(w)
      BY <3>2, NodeAssumption DEF Mourning, Stamped
    <3>4. NotBefore(w, u)
      BY <1>1, <3>1, <3>3, NotBeforeTransitive DEF Stamped
    <3> QED
      BY <1>1, <3>1, <3>4 DEF Mourns
  <2>2. CASE \E h \in Node : \E w \in db'[h].tombs :
               w.node = h /\ w.rec = t.rec /\ NotBefore(w, t)
    <3>1. PICK h \in Node : \E w \in db'[h].tombs :
            w.node = h /\ w.rec = t.rec /\ NotBefore(w, t)
      BY <2>2
    <3>2. PICK w \in db'[h].tombs : w.node = h /\ w.rec = t.rec /\ NotBefore(w, t)
      BY <3>1
    <3>3. db'[h] \in Database
      BY DEF TypeInv, TypeOK
    <3>4. Stamped(w)
      BY <3>3, RowsType
    <3>5. NotBefore(w, u)
      BY <1>1, <3>2, <3>4, NotBeforeTransitive DEF Stamped
    <3> QED
      BY <1>1, <3>2, <3>5 DEF DeletionHeld
  <2> QED
    BY <1>1, <2>1, <2>2
<1>2. CASE \A k \in Node : Mourns(k, u)
  BY <1>0, <1>2, MournsStays DEF DeletionHeld
<1>3. CASE \E h \in Node : \E t \in db[h].tombs :
             t.node = h /\ t.rec = u.rec /\ NotBefore(t, u)
  <2>0. PICK h \in Node : \E t \in db[h].tombs :
          t.node = h /\ t.rec = u.rec /\ NotBefore(t, u)
    BY <1>3
  <2>1. PICK t \in db[h].tombs : t.node = h /\ t.rec = u.rec /\ NotBefore(t, u)
    BY <2>0
  <2>2. Stamped(t) /\ NotBefore(t, t)
    BY FilesType DEF NotBefore, Stamped
  <2>3. ASSUME db'[h] = db[h]
        PROVE  DeletionHeld(u)'
    BY <2>1, <2>3 DEF DeletionHeld
  <2>4. ASSUME NEW n \in Node, CommitStep(n)
        PROVE  DeletionHeld(u)'
    <3>1. CASE h = n
      BY <1>1, <2>1, <2>2, <2>4, <3>1, CommitHolds
    <3>2. CASE h # n
      BY <2>3, <2>4, <3>2 DEF CommitStep, Stores
    <3> QED
      BY <3>1, <3>2
  <2>5. ASSUME NEW n \in Node, CompactStep(n)
        PROVE  DeletionHeld(u)'
    <3>1. CASE h = n
      <4>1. CASE t \in db'[n].tombs
        BY <1>1, <2>1, <2>2, <3>1, <4>1
      <4>2. CASE \A k \in Node : Mourns(k, t)
        <5>1. \A k \in Node : Mourns(k, t)'
          BY <1>0, <4>2, MournsStays
        <5> QED
          BY <1>1, <2>1, <2>2, <5>1
      <4> QED
        BY <2>1, <2>5, <3>1, <4>1, <4>2, CompactHolds DEF HeldInv
    <3>2. CASE h # n
      BY <2>3, <2>5, <3>2 DEF CompactStep
    <3> QED
      BY <3>1, <3>2
  <2>6. ASSUME NEW m \in Node, NEW n \in Node, MergeStep(m, n)
        PROVE  DeletionHeld(u)'
    <3>1. CASE h = m
      BY <1>1, <2>1, <2>2, <2>6, <3>1, MergeHoldsDeletion DEF HeldInv
    <3>2. CASE h # m
      BY <2>3, <2>6, <3>2 DEF MergeStep, Stores
    <3> QED
      BY <3>1, <3>2
  <2> QED
    BY <2>3, <2>4, <2>5, <2>6, NextIs DEF StepKinds, AskStep, DropStep
<1> QED
  BY <1>2, <1>3 DEF DeletionHeld

LEMMA VersionHeldStays ==
  ASSUME TypeInv, TypeInv', HeldInv, [Next]_vars,
         NEW v, Numbered(v), VersionHeld(v)
  PROVE  VersionHeld(v)'
<1>0. Growth
  BY StepArrives
<1>1. ASSUME NEW y, Numbered(y), SameKey(y, v), AtLeast(y, v),
             \/ \E k \in Node : \E u \in mourned'[k] : u.rec = y.rec
             \/ \E h \in Node : \E w \in db'[h].versions :
                  w.node = h /\ SameKey(w, y) /\ AtLeast(w, y)
      PROVE  VersionHeld(v)'
  <2>1. CASE \E k \in Node : \E u \in mourned'[k] : u.rec = y.rec
    BY <1>1, <2>1 DEF VersionHeld, NeverDeleted, SameKey
  <2>2. CASE \E h \in Node : \E w \in db'[h].versions :
               w.node = h /\ SameKey(w, y) /\ AtLeast(w, y)
    <3>1. PICK h \in Node : \E w \in db'[h].versions :
            w.node = h /\ SameKey(w, y) /\ AtLeast(w, y)
      BY <2>2
    <3>2. PICK w \in db'[h].versions : w.node = h /\ SameKey(w, y) /\ AtLeast(w, y)
      BY <3>1
    <3>3. db'[h] \in Database
      BY DEF TypeInv, TypeOK
    <3>4. Numbered(w)
      BY <3>3, RowsType
    <3>5. AtLeast(w, v) /\ SameKey(w, v)
      BY <1>1, <3>2, <3>4, AtLeastTransitive DEF Numbered, SameKey
    <3> QED
      BY <3>2, <3>5 DEF VersionHeld
  <2> QED
    BY <1>1, <2>1, <2>2
<1>2. CASE ~ NeverDeleted(v.rec)
  BY <1>0, <1>2 DEF VersionHeld, NeverDeleted, Growth
<1>3. CASE \E h \in Node : \E y \in db[h].versions :
             y.node = h /\ SameKey(y, v) /\ AtLeast(y, v)
  <2>0. PICK h \in Node : \E y \in db[h].versions :
          y.node = h /\ SameKey(y, v) /\ AtLeast(y, v)
    BY <1>3
  <2>1. PICK y \in db[h].versions : y.node = h /\ SameKey(y, v) /\ AtLeast(y, v)
    BY <2>0
  <2>2. Numbered(y)
    BY FilesType
  <2>3. ASSUME db'[h].versions = db[h].versions
        PROVE  VersionHeld(v)'
    BY <2>1, <2>3 DEF VersionHeld
  <2>4. ASSUME NEW n \in Node, CommitStep(n)
        PROVE  VersionHeld(v)'
    <3>1. CASE h = n
      BY <1>1, <2>1, <2>2, <2>4, <3>1, CommitHolds
    <3>2. CASE h # n
      BY <2>3, <2>4, <3>2 DEF CommitStep, Stores
    <3> QED
      BY <3>1, <3>2
  <2>5. ASSUME NEW n \in Node, CompactStep(n)
        PROVE  VersionHeld(v)'
    BY <2>3, <2>5 DEF CompactStep
  <2>6. ASSUME NEW m \in Node, NEW n \in Node, MergeStep(m, n)
        PROVE  VersionHeld(v)'
    <3>1. CASE h = m
      BY <1>1, <2>1, <2>2, <2>6, <3>1, MergeHoldsVersion DEF HeldInv
    <3>2. CASE h # m
      BY <2>3, <2>6, <3>2 DEF MergeStep, Stores
    <3> QED
      BY <3>1, <3>2
  <2> QED
    BY <2>3, <2>4, <2>5, <2>6, NextIs DEF StepKinds, AskStep, DropStep
<1> QED
  BY <1>2, <1>3 DEF VersionHeld

\* Both are about the numbers of a row, not about the row.
LEMMA HeldBy ==
  ASSUME NEW x, NEW y, x.rec = y.rec, x.dv = y.dv, x.node = y.node
  PROVE  /\ DeletionHeld(x) => DeletionHeld(y)
         /\ x.col = y.col /\ x.cv = y.cv /\ VersionHeld(x) => VersionHeld(y)
BY DEF DeletionHeld, VersionHeld, Mourns, NotBefore, SameKey, AtLeast

\* Versions and deletions that arrive are held already, or are at home.
LEMMA HeldNew ==
  ASSUME TypeInv, HeldInv, Arrivals, NEW m \in Node
  PROVE  /\ \A v \in db'[m].versions : VersionHeld(v) \/ JustWritten(m, v)
         /\ \A t \in db'[m].tombs : DeletionHeld(t) \/ JustWritten(m, t)
<1>1. ASSUME NEW v \in db'[m].versions
      PROVE  VersionHeld(v) \/ JustWritten(m, v)
  <2>1. CASE CameIn(m, v)
    <3>1. PICK k \in Node : \E x \in ToSet(page[m][k]) :
            x.change.col # NoColumn /\ Stamp(x.change) = Stamp(v)
      BY <2>1 DEF CameIn
    <3>2. PICK x \in ToSet(page[m][k]) :
            x.change.col # NoColumn /\ Stamp(x.change) = Stamp(v)
      BY <3>1
    <3> DEFINE z == x.change
    <3>3. VersionHeld(z)
      BY <3>2 DEF HeldInv, HeldPage
    <3>4. z.rec = v.rec /\ z.dv = v.dv /\ z.node = v.node /\ z.col = v.col /\ z.cv = v.cv
      BY <3>2 DEF Stamp
    <3> HIDE DEF z
    <3> QED
      BY <3>3, <3>4, HeldBy
  <2> QED
    BY <2>1 DEF Arrivals, HeldInv
<1>2. ASSUME NEW t \in db'[m].tombs
      PROVE  DeletionHeld(t) \/ JustWritten(m, t)
  <2>1. CASE DeletionCameIn(m, t)
    <3>1. PICK k \in Node : \E x \in ToSet(page[m][k]) :
            /\ x.change.col = NoColumn /\ x.change.rec = t.rec
            /\ x.change.dv = t.dv /\ x.change.node = t.node
      BY <2>1 DEF DeletionCameIn
    <3>2. PICK x \in ToSet(page[m][k]) :
            /\ x.change.col = NoColumn /\ x.change.rec = t.rec
            /\ x.change.dv = t.dv /\ x.change.node = t.node
      BY <3>1
    <3> DEFINE z == x.change
    <3>3. DeletionHeld(z)
      BY <3>2 DEF HeldInv, HeldPage
    <3>4. z.rec = t.rec /\ z.dv = t.dv /\ z.node = t.node
      BY <3>2
    <3> HIDE DEF z
    <3> QED
      BY <3>3, <3>4, HeldBy
  <2>2. CASE t \in db[m].tombs
    <3>1. PICK u \in mourned[m] : u.rec = t.rec /\ u.dv = t.dv /\ u.node = t.node
      BY <2>2 DEF TypeInv, FilesInv
    <3>2. DeletionHeld(u)
      BY DEF HeldInv
    <3> QED
      BY <3>1, <3>2, HeldBy
  <2> QED
    BY <2>1, <2>2 DEF Arrivals
<1> QED
  BY <1>1, <1>2

LEMMA HeldStep ==
  ASSUME TypeInv, TypeInv', GapInv, HeldInv, [Next]_vars
  PROVE  HeldInv'
<1>0. Arrivals /\ PageArrivals
  BY StepArrives
<1>1. \A m \in Node : /\ \A v \in db'[m].versions : Numbered(v)
                      /\ \A t \in db'[m].tombs : Stamped(t)
  BY RowsType DEF TypeInv, TypeOK
<1>2. ASSUME NEW m \in Node, NEW v \in db'[m].versions
      PROVE  VersionHeld(v)'
  <2>1. Numbered(v)
    BY <1>1, <1>2
  <2>2. CASE VersionHeld(v)
    BY <2>1, <2>2, VersionHeldStays
  <2>3. CASE JustWritten(m, v)
    <3>1. v.node = m /\ SameKey(v, v) /\ AtLeast(v, v)
      BY <2>1, <2>3 DEF JustWritten, SameKey, AtLeast, Numbered
    <3> QED
      BY <1>2, <3>1 DEF VersionHeld
  <2> QED
    BY <1>0, <1>2, <2>2, <2>3, HeldNew
<1>3. ASSUME NEW m \in Node, NEW t \in db'[m].tombs
      PROVE  DeletionHeld(t)' /\ (t.node = m => t.local = t.dv)
  <2>1. Stamped(t)
    BY <1>1, <1>3
  <2>2. DeletionHeld(t)'
    <3>1. CASE DeletionHeld(t)
      BY <2>1, <3>1, DeletionHeldStays
    <3>2. CASE JustWritten(m, t)
      <4>1. t.node = m /\ NotBefore(t, t)
        BY <2>1, <3>2 DEF JustWritten, NotBefore, Stamped
      <4> QED
        BY <1>3, <4>1 DEF DeletionHeld
    <3> QED
      BY <1>0, <1>3, <3>1, <3>2, HeldNew
  <2>3. ASSUME t.node = m
        PROVE  t.local = t.dv
    BY <1>0, <1>3, <2>3
    DEF Arrivals, JustWritten, DeletionCameIn, HeldInv, OwnTombs, TypeInv, PagesInv
  <2> QED
    BY <2>2, <2>3
<1>4. ASSUME NEW m \in Node, NEW u \in mourned'[m]
      PROVE  DeletionHeld(u)'
  <2>1. CASE u \in mourned[m]
    <3>1. Stamped(u) /\ DeletionHeld(u)
      BY <1>4, <2>1, FilesType DEF HeldInv
    <3> QED
      BY <3>1, DeletionHeldStays
  <2>2. CASE \E t \in db'[m].tombs : u = [rec |-> t.rec, dv |-> t.dv, node |-> t.node]
    <3>1. PICK t \in db'[m].tombs : u = [rec |-> t.rec, dv |-> t.dv, node |-> t.node]
      BY <2>2
    <3>2. t.rec = u.rec /\ t.dv = u.dv /\ t.node = u.node
      BY <3>1
    <3>3. Stamped(u)
      BY <1>1, <1>4, <3>1, <3>2 DEF Stamped
    <3>4. CASE DeletionHeld(t)
      BY <3>2, <3>3, <3>4, HeldBy, DeletionHeldStays
    <3>5. CASE JustWritten(m, t)
      <4>1. t.node = m /\ t.rec = u.rec /\ NotBefore(t, u)
        BY <3>2, <3>3, <3>5 DEF JustWritten, NotBefore, Stamped
      <4> QED
        BY <1>4, <3>1, <4>1 DEF DeletionHeld
    <3> QED
      BY <1>0, <1>4, <3>1, <3>4, <3>5, HeldNew
  <2> QED
    BY <1>0, <1>4, <2>1, <2>2 DEF Arrivals
<1>5. ASSUME NEW m \in Node, NEW n \in Node, NEW x \in ToSet(page'[m][n])
      PROVE  IF x.change.col = NoColumn THEN DeletionHeld(x.change)'
                                        ELSE VersionHeld(x.change)'
  <2> DEFINE z == x.change
  <2>1. Stamped(z) /\ Numbered(z)
    <3>1. page'[m][n] \in Seq(SentChange)
      BY DEF TypeInv, TypeOK
    <3> QED
      BY <1>5, <3>1, SentType
  <2>2. IF z.col = NoColumn THEN DeletionHeld(z) ELSE VersionHeld(z)
    <3>1. CASE x \in ToSet(page[m][n])
      BY <3>1 DEF HeldInv, HeldPage
    <3>2. ASSUME NEW v \in db[n].versions, z.col # NoColumn, Stamp(z) = Stamp(v)
          PROVE  VersionHeld(z)
      <4>1. VersionHeld(v)
        BY DEF HeldInv
      <4>2. z.rec = v.rec /\ z.dv = v.dv /\ z.node = v.node /\ z.col = v.col /\ z.cv = v.cv
        BY <3>2 DEF Stamp
      <4> HIDE DEF z
      <4> QED
        BY <4>1, <4>2, HeldBy
    <3>3. ASSUME NEW t \in db[n].tombs, z.rec = t.rec, z.dv = t.dv, z.node = t.node
          PROVE  DeletionHeld(z)
      <4>1. PICK u \in mourned[n] : u.rec = t.rec /\ u.dv = t.dv /\ u.node = t.node
        BY DEF TypeInv, FilesInv
      <4>2. DeletionHeld(u)
        BY DEF HeldInv
      <4> HIDE DEF z
      <4> QED
        BY <3>3, <4>1, <4>2, HeldBy
    <3>4. CASE Carries(db[n], cursor[m][n], m, x)
      BY <3>2, <3>3, <3>4 DEF Carries
    <3> QED
      BY <1>0, <1>5, <3>1, <3>4 DEF PageArrivals
  <2> HIDE DEF z
  <2>3. IF z.col = NoColumn THEN DeletionHeld(z)' ELSE VersionHeld(z)'
    BY <2>1, <2>2, DeletionHeldStays, VersionHeldStays
  <2> QED
    BY <2>3 DEF z
<1> QED
  BY <1>2, <1>3, <1>4, <1>5 DEF HeldInv, HeldPage, OwnTombs

LEMMA HeldInvariant == Spec => [](TypeInv /\ GapInv /\ HeldInv)
<1>1. Init => HeldInv
  BY EmptyPage DEF Init, EmptyDatabase, HeldInv, OwnTombs, HeldPage
<1>2. TypeInv /\ TypeInv' /\ GapInv /\ HeldInv /\ [Next]_vars => HeldInv'
  BY HeldStep
<1> QED
  BY <1>1, <1>2, TypeInvariant, GapInvariant, PTL DEF Spec

-----------------------------------------------------------------------------
(* Of a record that nobody ever deleted, files and pages show one value for *)
(* a version.                                                              *)

Says(f) ==
  \/ \E n \in Node : f \in Shown(db[n])
  \/ \E m, n \in Node : f \in Told(Changes(page[m][n]))

\* No version is ahead of the clock of the node that made it.
PastInv ==
  /\ \A n \in Node : \A v \in db[n].versions : v.dv <= db[v.node].clock
  /\ \A m, n \in Node : \A x \in ToSet(page[m][n]) :
       x.change.col # NoColumn => x.change.dv <= db[x.change.node].clock

SaidInv ==
  /\ \A r \in Record : NeverDeleted(r) => \A n \in Node : Tracked(db[n], r)
  /\ \A f, g : Says(f) /\ Says(g) /\ f.stamp = g.stamp /\ NeverDeleted(f.stamp.rec)
                 => f.val = g.val

LEMMA PastStep ==
  ASSUME TypeInv, TypeInv', PastInv, [Next]_vars
  PROVE  PastInv'
<1>0. Arrivals /\ PageArrivals /\ Growth
  BY StepArrives
<1>1. \A n \in Node : /\ db[n].clock \in Nat /\ db'[n].clock \in Nat
                      /\ db[n].clock <= db'[n].clock
  BY <1>0, FilesType, RowsType DEF Growth, TypeInv, TypeOK
<1>2. \A x : x.dv \in Nat /\ x.node \in Node /\ x.dv <= db[x.node].clock
               => x.dv <= db'[x.node].clock
  BY <1>1
<1>3. ASSUME NEW n \in Node, NEW v \in db'[n].versions
      PROVE  v.dv <= db'[v.node].clock
  <2>0. v.dv \in Nat /\ v.node \in Node
    <3>1. db'[n] \in Database
      BY DEF TypeInv, TypeOK
    <3> QED
      BY <1>3, <3>1, RowsType DEF VersionRow
  <2>1. CASE v \in db[n].versions
    BY <1>2, <2>0, <2>1 DEF PastInv
  <2>2. CASE JustWritten(n, v)
    BY <1>1, <2>0, <2>2 DEF JustWritten
  <2>3. CASE CameIn(n, v)
    <3>1. PICK k \in Node : \E x \in ToSet(page[n][k]) :
            x.change.col # NoColumn /\ Stamp(x.change) = Stamp(v)
      BY <2>3 DEF CameIn
    <3>2. PICK x \in ToSet(page[n][k]) :
            x.change.col # NoColumn /\ Stamp(x.change) = Stamp(v)
      BY <3>1
    <3>3. v.dv = x.change.dv /\ v.node = x.change.node
      BY <3>2 DEF Stamp
    <3> QED
      BY <1>2, <2>0, <3>2, <3>3 DEF PastInv
  <2> QED
    BY <1>0, <1>3, <2>1, <2>2, <2>3 DEF Arrivals
<1>4. ASSUME NEW m \in Node, NEW n \in Node, NEW x \in ToSet(page'[m][n]),
             x.change.col # NoColumn
      PROVE  x.change.dv <= db'[x.change.node].clock
  <2> DEFINE z == x.change
  <2>0. z.dv \in Nat /\ z.node \in Node
    <3>1. page'[m][n] \in Seq(SentChange)
      BY DEF TypeInv, TypeOK
    <3> QED
      BY <1>4, <3>1, SentType DEF Change
  <2>1. CASE x \in ToSet(page[m][n])
    BY <1>2, <1>4, <2>0, <2>1 DEF PastInv
  <2>2. CASE Carries(db[n], cursor[m][n], m, x)
    <3>1. PICK v \in db[n].versions : Stamp(z) = Stamp(v)
      BY <1>4, <2>2 DEF Carries
    <3>2. z.dv = v.dv /\ z.node = v.node
      BY <3>1 DEF Stamp
    <3> QED
      BY <1>2, <2>0, <3>2 DEF PastInv
  <2> QED
    BY <1>0, <1>4, <2>1, <2>2 DEF PageArrivals
<1> QED
  BY <1>3, <1>4 DEF PastInv

LEMMA ShownOnce ==
  ASSUME NEW d \in Database, KeysUnique(d), NEW f \in Shown(d), NEW g \in Shown(d),
         f.stamp = g.stamp
  PROVE  f = g
<1>1. PICK v \in d.versions : f = [stamp |-> Stamp(v), val |-> WireValue(d.rows, v)]
  BY DEF Shown
<1>2. PICK u \in d.versions : g = [stamp |-> Stamp(u), val |-> WireValue(d.rows, u)]
  BY DEF Shown
<1>3. Stamp(u) = Stamp(v)
  BY <1>1, <1>2
<1>4. u.rec = v.rec /\ u.col = v.col
  BY <1>3 DEF Stamp
<1> QED
  BY <1>1, <1>2, <1>4 DEF KeysUnique

\* The node of a stamp has gone past it.
LEMMA SaidBefore ==
  ASSUME TypeInv, PastInv, NEW f, Says(f)
  PROVE  f.stamp.rec \in Record /\ f.stamp.node \in Node
         /\ f.stamp.dv \in Nat /\ f.stamp.dv <= db[f.stamp.node].clock
<1>1. ASSUME NEW n \in Node, f \in Shown(db[n])
      PROVE  f.stamp.rec \in Record /\ f.stamp.node \in Node
             /\ f.stamp.dv \in Nat /\ f.stamp.dv <= db[f.stamp.node].clock
  <2>1. PICK v \in db[n].versions : f = [stamp |-> Stamp(v), val |-> WireValue(db[n].rows, v)]
    BY <1>1 DEF Shown
  <2>2. f.stamp.rec = v.rec /\ f.stamp.node = v.node /\ f.stamp.dv = v.dv
    BY <2>1 DEF Stamp
  <2>3. v \in VersionRow /\ v.dv <= db[v.node].clock
    BY FilesType DEF PastInv
  <2> QED
    BY <2>2, <2>3 DEF VersionRow
<1>2. ASSUME NEW m \in Node, NEW n \in Node, f \in Told(Changes(page[m][n]))
      PROVE  f.stamp.rec \in Record /\ f.stamp.node \in Node
             /\ f.stamp.dv \in Nat /\ f.stamp.dv <= db[f.stamp.node].clock
  <2>1. PICK z \in Changes(page[m][n]) :
          z.col # NoColumn /\ f = [stamp |-> Stamp(z), val |-> z.val]
    BY <1>2 DEF Told
  <2>2. PICK x \in ToSet(page[m][n]) : z = x.change
    BY DEF Changes
  <2>3. page[m][n] \in Seq(SentChange)
    BY DEF TypeInv, TypeOK
  <2>4. z \in Change
    BY <2>2, <2>3, SentType
  <2>5. z.dv <= db[z.node].clock
    BY <2>1, <2>2 DEF PastInv
  <2>6. f.stamp.rec = z.rec /\ f.stamp.node = z.node /\ f.stamp.dv = z.dv
    BY <2>1 DEF Stamp
  <2> QED
    BY <2>4, <2>5, <2>6 DEF Change
<1> QED
  BY <1>1, <1>2 DEF Says

\* f is about a version that n has just made.
NewFact(n, f) ==
  /\ f \in Shown(db'[n])
  /\ f.stamp.node = n /\ f.stamp.dv = db[n].clock + 1

LEMMA ShownNext ==
  ASSUME TypeInv, TypeInv', [Next]_vars, SaidInv,
         NEW k \in Node, NEW f \in Shown(db'[k]), NeverDeleted(f.stamp.rec)'
  PROVE  Says(f) \/ NewFact(k, f)
<1>0. Growth
  BY StepArrives
<1>1. NeverDeleted(f.stamp.rec)
  BY <1>0 DEF Growth, NeverDeleted
<1>2. ~ Entombed(db'[k], f.stamp.rec)
  BY DEF TypeInv, FilesInv, NeverDeleted, Entombed
<1>3. f.stamp.rec \in Record /\ Tracked(db[k], f.stamp.rec)
  <2>1. PICK v \in db'[k].versions : f.stamp = Stamp(v)
    BY DEF Shown
  <2>2. db'[k] \in Database
    BY DEF TypeInv, TypeOK
  <2>3. v.rec \in Record /\ f.stamp.rec = v.rec
    BY <2>1, <2>2, RowsType DEF VersionRow, Stamp
  <2> QED
    BY <1>1, <2>3 DEF SaidInv
<1>4. ASSUME db'[k].rows = db[k].rows, db'[k].versions = db[k].versions
      PROVE  Says(f)
  BY <1>4 DEF Shown, Says
<1>5. ASSUME NEW n \in Node, CommitStep(n)
      PROVE  Says(f) \/ NewFact(k, f)
  <2>1. PICK e : Processed(db[n], n, e) /\ Stores(n, e)
    BY <1>5 DEF CommitStep
  <2>2. CASE k = n
    <3>1. f \in Shown(db[n]) \/ (f.stamp.dv = e.clock /\ f.stamp.node = n)
      BY <1>2, <1>3, <2>1, <2>2 DEF Processed, Stores
    <3> QED
      BY <2>1, <2>2, <3>1 DEF Says, NewFact, Processed
  <2>3. CASE k # n
    BY <1>4, <2>1, <2>3 DEF Stores
  <2> QED
    BY <2>2, <2>3
<1>6. ASSUME NEW m \in Node, NEW n \in Node, MergeStep(m, n)
      PROVE  Says(f)
  <2>1. PICK e : Joined(db[m], Changes(page[m][n]), e) /\ Stores(m, e)
    BY <1>6 DEF MergeStep
  <2>2. CASE k = m
    <3>1. f \in Shown(db[m]) \cup Told(Changes(page[m][n]))
      BY <1>2, <1>3, <2>1, <2>2 DEF Joined, Faithful, Stores
    <3> QED
      BY <3>1 DEF Says
  <2>3. CASE k # m
    BY <1>4, <2>1, <2>3 DEF Stores
  <2> QED
    BY <2>2, <2>3
<1>7. ASSUME NEW n \in Node, CompactStep(n)
      PROVE  Says(f)
  BY <1>4, <1>7 DEF CompactStep
<1> QED
  BY <1>4, <1>5, <1>6, <1>7, NextIs DEF StepKinds, AskStep, DropStep

LEMMA ToldNext ==
  ASSUME TypeInv, [Next]_vars, NEW m \in Node, NEW n \in Node,
         NEW f \in Told(Changes(page'[m][n]))
  PROVE  Says(f)
<1>1. PICK z \in Changes(page'[m][n]) :
        z.col # NoColumn /\ f = [stamp |-> Stamp(z), val |-> z.val]
  BY DEF Told
<1>2. PICK x \in ToSet(page'[m][n]) : z = x.change
  BY DEF Changes
<1>3. CASE x \in ToSet(page[m][n])
  BY <1>1, <1>2, <1>3 DEF Says, Told, Changes
<1>4. CASE Carries(db[n], cursor[m][n], m, x)
  <2>1. PICK v \in db[n].versions :
          Stamp(x.change) = Stamp(v) /\ x.change.val = WireValue(db[n].rows, v)
    BY <1>1, <1>2, <1>4 DEF Carries
  <2>2. f \in Shown(db[n])
    BY <1>1, <1>2, <2>1 DEF Shown
  <2> QED
    BY <2>2 DEF Says
<1> QED
  BY <1>2, <1>3, <1>4, StepArrives DEF PageArrivals

LEMMA TrackedStep ==
  ASSUME TypeInv, TypeInv', [Next]_vars, SaidInv, NEW k \in Node, NEW r \in Record,
         NeverDeleted(r)'
  PROVE  Tracked(db'[k], r)
<1>0. Growth
  BY StepArrives
<1>1. NeverDeleted(r)
  BY <1>0 DEF Growth, NeverDeleted
<1>2. Tracked(db[k], r) /\ ~ Entombed(db[k], r)
  BY <1>1 DEF SaidInv, TypeInv, FilesInv, NeverDeleted, Entombed
<1>3. ASSUME db'[k].rows = db[k].rows, db'[k].versions = db[k].versions
      PROVE  Tracked(db'[k], r)
  BY <1>2, <1>3 DEF Tracked
<1>4. ASSUME NEW n \in Node, CommitStep(n)
      PROVE  Tracked(db'[k], r)
  BY <1>2, <1>3, <1>4 DEF CommitStep, Processed, Stores
<1>5. ASSUME NEW m \in Node, NEW n \in Node, MergeStep(m, n)
      PROVE  Tracked(db'[k], r)
  BY <1>2, <1>3, <1>5 DEF MergeStep, Joined, Faithful, Stores
<1>6. ASSUME NEW n \in Node, CompactStep(n)
      PROVE  Tracked(db'[k], r)
  BY <1>3, <1>6 DEF CompactStep
<1> QED
  BY <1>3, <1>4, <1>5, <1>6, NextIs DEF StepKinds, AskStep, DropStep

LEMMA SaidStep ==
  ASSUME TypeInv, TypeInv', [Next]_vars, PastInv, PastInv', SaidInv
  PROVE  SaidInv'
<1>0. Growth
  BY StepArrives
<1>1. ASSUME NEW f, Says(f)', NeverDeleted(f.stamp.rec)'
      PROVE  Says(f) \/ \E n \in Node : NewFact(n, f)
  <2>1. ASSUME NEW n \in Node, f \in Shown(db'[n])
        PROVE  Says(f) \/ NewFact(n, f)
    BY <1>1, <2>1, ShownNext
  <2>2. ASSUME NEW m \in Node, NEW n \in Node, f \in Told(Changes(page'[m][n]))
        PROVE  Says(f)
    BY <2>2, ToldNext
  <2>3. \/ \E n \in Node : f \in Shown(db'[n])
        \/ \E m, n \in Node : f \in Told(Changes(page'[m][n]))
    BY <1>1 DEF Says
  <2> QED
    BY <2>1, <2>2, <2>3
<1>2. ASSUME NEW f, NEW g, NEW n \in Node, NewFact(n, f), Says(g), f.stamp = g.stamp
      PROVE  FALSE
  BY <1>2, SaidBefore, FilesType DEF NewFact
<1>3. ASSUME NEW f, NEW g, NEW n \in Node, NEW k \in Node,
             NewFact(n, f), NewFact(k, g), f.stamp = g.stamp
      PROVE  f = g
  <2>1. k = n
    BY <1>3 DEF NewFact
  <2>2. db'[n] \in Database /\ KeysUnique(db'[n])
    BY DEF TypeInv, TypeOK
  <2> QED
    BY <1>3, <2>1, <2>2, ShownOnce DEF NewFact
<1>4. ASSUME NEW f, NEW g, Says(f)', Says(g)', f.stamp = g.stamp,
             NeverDeleted(f.stamp.rec)'
      PROVE  f.val = g.val
  <2>1. NeverDeleted(f.stamp.rec)
    BY <1>0, <1>4 DEF Growth, NeverDeleted
  <2>2. /\ Says(f) \/ \E n \in Node : NewFact(n, f)
        /\ Says(g) \/ \E n \in Node : NewFact(n, g)
    BY <1>1, <1>4
  <2>3. CASE Says(f) /\ Says(g)
    BY <1>4, <2>1, <2>3 DEF SaidInv
  <2> QED
    BY <1>2, <1>3, <1>4, <2>2, <2>3
<1>5. \A r \in Record : NeverDeleted(r)' => \A n \in Node : Tracked(db'[n], r)
  BY TrackedStep
<1> QED
  BY <1>4, <1>5 DEF SaidInv

LEMMA SaidInit == Init => PastInv /\ SaidInv
<1> SUFFICES ASSUME Init
             PROVE  PastInv /\ SaidInv
  OBVIOUS
<1>1. \A n \in Node : db[n].versions = {} /\ db[n].rows = {}
  BY DEF Init, EmptyDatabase
<1>2. \A m, n \in Node : ToSet(page[m][n]) = {}
  BY EmptyPage DEF Init
<1>3. \A n \in Node : Shown(db[n]) = {}
  BY <1>1 DEF Shown
<1>4. \A m, n \in Node : Told(Changes(page[m][n])) = {}
  BY <1>2 DEF Told, Changes
<1> QED
  BY <1>1, <1>2, <1>3, <1>4 DEF PastInv, SaidInv, Says, Tracked

SyncInv == TypeInv /\ GapInv /\ HeldInv /\ PastInv /\ SaidInv

LEMMA SyncInvariant == Spec => []SyncInv
<1>1. TypeInv /\ TypeInv' /\ PastInv /\ [Next]_vars => PastInv'
  BY PastStep
<1>2. TypeInv /\ TypeInv' /\ PastInv /\ PastInv' /\ SaidInv /\ [Next]_vars => SaidInv'
  BY SaidStep
<1> QED
  BY <1>1, <1>2, SaidInit, HeldInvariant, PTL DEF Spec, SyncInv

-----------------------------------------------------------------------------
(* Records whose own changes have been pulled by everybody.                 *)

\* Those of a settled record have.
LEMMA SettledPulled ==
  ASSUME TypeInv, NEW r, Settled(r)
  PROVE  OwnPulled(r)
<1> SUFFICES ASSUME NEW m \in Node, NEW n \in Node, m # n,
                    NEW z \in db[n].versions \cup db[n].tombs, z.rec = r, z.node = n
             PROVE  z.local <= cursor[m][n]
  BY DEF OwnPulled
<1>1. z \notin Fresh(db[n].versions, cursor[m][n], Excluded(m))
  BY DEF Settled
<1>2. z \notin Fresh(db[n].tombs, cursor[m][n], Excluded(m))
  BY DEF Settled
<1>3. ~ (z.local > cursor[m][n])
  BY <1>1, <1>2 DEF Fresh, Excluded
<1>4. cursor[m][n] \in Nat
  BY DEF TypeInv, TypeOK
<1>5. z.local \in Nat
  BY FilesType DEF VersionRow, TombRow
<1> QED
  BY <1>3, <1>4, <1>5

LEMMA SyncedMourn ==
  ASSUME TypeInv, GapInv, HeldInv, NEW m \in Node, NEW u \in mourned[m],
         OwnPulled(u.rec), NEW n \in Node
  PROVE  Mourns(n, u)
<1>1. CASE \A k \in Node : Mourns(k, u)
  BY <1>1
<1>2. CASE \E h \in Node : \E t \in db[h].tombs :
             t.node = h /\ t.rec = u.rec /\ NotBefore(t, u)
  <2>0. PICK h \in Node : \E t \in db[h].tombs :
          t.node = h /\ t.rec = u.rec /\ NotBefore(t, u)
    BY <1>2
  <2>1. PICK t \in db[h].tombs : t.node = h /\ t.rec = u.rec /\ NotBefore(t, u)
    BY <2>0
  <2>2. Stamped(t) /\ Stamped(u)
    BY FilesType
  <2>3. Mourns(n, t)
    <3>1. CASE n = h
      BY <2>2, <3>1 DEF TypeInv, FilesInv, Mourns, NotBefore, Stamped
    <3>2. CASE n # h
      BY <2>1, <3>2 DEF OwnPulled, GapInv, TombSeen
    <3> QED
      BY <3>1, <3>2
  <2>4. PICK w \in mourned[n] : w.rec = t.rec /\ NotBefore(w, t)
    BY <2>3 DEF Mourns
  <2>5. NotBefore(w, u)
    BY <2>1, <2>2, <2>4, FilesType, NotBeforeTransitive DEF Stamped
  <2> QED
    BY <2>1, <2>4, <2>5 DEF Mourns
<1> QED
  BY <1>1, <1>2 DEF HeldInv, DeletionHeld

\* The home of a version has it, or a greater one, and so has everybody.
LEMMA SyncedCover ==
  ASSUME TypeInv, GapInv, HeldInv, NEW m \in Node, NEW v \in db[m].versions,
         OwnPulled(v.rec), NeverDeleted(v.rec), NEW n \in Node
  PROVE  \E u \in db[n].versions : SameKey(u, v) /\ AtLeast(u, v)
<1>0. PICK h \in Node : \E y \in db[h].versions :
        y.node = h /\ SameKey(y, v) /\ AtLeast(y, v)
  BY DEF HeldInv, VersionHeld
<1>1. PICK y \in db[h].versions : y.node = h /\ SameKey(y, v) /\ AtLeast(y, v)
  BY <1>0
<1>2. Numbered(y) /\ Numbered(v)
  BY FilesType
<1>3. CASE n = h
  BY <1>1, <1>3
<1>4. CASE n # h
  <2>1. Covers(n, y)
    BY <1>1, <1>4 DEF SameKey, OwnPulled, GapInv, VersionSeen
  <2>2. \A w \in mourned[n] : w.rec # y.rec
    BY <1>1 DEF NeverDeleted, SameKey
  <2>3. PICK u \in db[n].versions : SameKey(u, y) /\ AtLeast(u, y)
    BY <2>1, <2>2 DEF Covers
  <2>4. AtLeast(u, v)
    BY <1>1, <1>2, <2>3, FilesType, AtLeastTransitive DEF Numbered
  <2> QED
    BY <1>1, <2>3, <2>4 DEF SameKey
<1> QED
  BY <1>3, <1>4

LEMMA Agreement ==
  ASSUME SyncInv
  PROVE  SyncedReplicasAgree
<1> SUFFICES ASSUME NEW r \in Record, OwnPulled(r), NEW m \in Node, NEW n \in Node
             PROVE  /\ \A t \in mourned[m] : t.rec = r => Mourns(n, t)
                    /\ \A v \in db[m].versions : v.rec = r /\ NeverDeleted(r) =>
                         \E u \in db[n].versions :
                           /\ Stamp(u) = Stamp(v)
                           /\ WireValue(db[n].rows, u) = WireValue(db[m].rows, v)
  BY DEF SyncedReplicasAgree
<1>0. TypeInv /\ GapInv /\ HeldInv /\ SaidInv
  BY DEF SyncInv
<1>1. \A t \in mourned[m] : t.rec = r => Mourns(n, t)
  BY <1>0, SyncedMourn
<1>2. ASSUME NEW v \in db[m].versions, v.rec = r, NeverDeleted(v.rec)
      PROVE  \E u \in db[n].versions :
               /\ Stamp(u) = Stamp(v)
               /\ WireValue(db[n].rows, u) = WireValue(db[m].rows, v)
  <2>1. PICK u \in db[n].versions : SameKey(u, v) /\ AtLeast(u, v)
    BY <1>0, <1>2, SyncedCover
  <2>2. NeverDeleted(u.rec) /\ OwnPulled(u.rec)
    BY <1>2, <2>1 DEF SameKey
  <2>3. PICK w \in db[m].versions : SameKey(w, u) /\ AtLeast(w, u)
    BY <1>0, <2>2, SyncedCover
  <2>4. w = v
    BY <1>0, <2>1, <2>3, FilesType DEF SameKey, KeysUnique
  <2>5. Numbered(u) /\ Numbered(v)
    BY <1>0, FilesType
  <2>6. u.cv = v.cv /\ u.dv = v.dv /\ u.node = v.node
    BY <2>1, <2>3, <2>4, <2>5 DEF AtLeast, Numbered
  <2>7. Stamp(u) = Stamp(v)
    BY <2>1, <2>6 DEF Stamp, SameKey
  <2> DEFINE f == [stamp |-> Stamp(v), val |-> WireValue(db[m].rows, v)]
             g == [stamp |-> Stamp(u), val |-> WireValue(db[n].rows, u)]
  <2>8. Says(f) /\ Says(g)
    BY DEF Says, Shown
  <2>9. f.stamp = g.stamp /\ f.stamp.rec = v.rec
    BY <2>7 DEF Stamp
  <2>10. f.val = WireValue(db[m].rows, v) /\ g.val = WireValue(db[n].rows, u)
    OBVIOUS
  <2> HIDE DEF f, g
  <2>11. f.val = g.val
    BY <1>0, <1>2, <2>8, <2>9 DEF SaidInv
  <2> QED
    BY <2>7, <2>10, <2>11
<1> QED
  BY <1>1, <1>2

\* Whatever pages and cursors were lost and whatever was compacted: replicas
\* that have come past all that the others wrote themselves of a record have
\* the same deletions of it behind them and, if it was never deleted, the same
\* versions with the same values.
THEOREM AgreementCorrect == Spec => []SyncedReplicasAgree
<1>1. SyncInv => SyncedReplicasAgree
  BY Agreement
<1> QED
  BY <1>1, SyncInvariant, PTL

-----------------------------------------------------------------------------
(* Under the contract "settled" a replica may forget a tombstone, for what  *)
(* the tombstone screens does not come any more.                           *)

\* What m ever mourned screens x only if a tombstone of m still does.
Screened(m, x) ==
  \A t \in mourned[m] : t.rec = x.rec /\ Screens(t, x) => IsTombstoned(db[m], x)

\* m still has a tombstone for t, or everybody mourns it.
Minded(m, t) ==
  \/ \E u \in db[m].tombs : u.rec = t.rec /\ NotBefore(u, t)
  \/ \A k \in Node : Mourns(k, t)

MindedInv == \A m \in Node : \A t \in mourned[m] : Minded(m, t)

ScreenInv ==
  \A m, n \in Node :
    /\ \A x \in ToSet(page[m][n]) :
         m # n /\ (x.change.col # NoColumn => Screened(m, x.change))
    /\ m # n => \A v \in db[n].versions :
         v.local > cursor[m][n] /\ v.node # m => Screened(m, v)

\* Only compact_tombstones takes a tombstone away.
LEMMA TombsStep ==
  ASSUME TypeInv, [Next]_vars
  PROVE  \/ \A m \in Node : TombsKept(db[m], db'[m])
         \/ \E n \in Node : CompactStep(n)
<1>1. \A m \in Node : db'[m].tombs = db[m].tombs => TombsKept(db[m], db'[m])
  BY FilesType DEF TombsKept, NotBefore, Stamped
<1>2. ASSUME NEW n \in Node, NEW e, TombsKept(db[n], e), Stores(n, e)
      PROVE  \A m \in Node : TombsKept(db[m], db'[m])
  BY <1>1, <1>2 DEF Stores
<1>3. ASSUME NEW n \in Node, CommitStep(n)
      PROVE  \A m \in Node : TombsKept(db[m], db'[m])
  BY <1>2, <1>3 DEF CommitStep, Processed
<1>4. ASSUME NEW m \in Node, NEW n \in Node, MergeStep(m, n)
      PROVE  \A k \in Node : TombsKept(db[k], db'[k])
  BY <1>2, <1>4 DEF MergeStep, Joined, Grown
<1> QED
  BY <1>1, <1>3, <1>4, NextIs DEF StepKinds, AskStep, DropStep

LEMMA CursorsAdvance ==
  ASSUME TypeInv, [Next]_vars, NEW m \in Node, NEW n \in Node
  PROVE  cursor'[m][n] \in Nat /\ cursor[m][n] <= cursor'[m][n]
<1> DEFINE next == Max({x.local : x \in ToSet(page[m][n])})
<1>1. cursor[m][n] \in Nat
  BY DEF TypeInv, TypeOK
<1>2. page[m][n] # NoPage => next \in Nat /\ cursor[m][n] < next
  BY NextCursor
<1>3. \/ cursor'[m][n] = cursor[m][n]
      \/ page[m][n] # NoPage /\ cursor'[m][n] = next
  BY LinkSteps
<1> HIDE DEF next
<1> QED
  BY <1>1, <1>2, <1>3

LEMMA ScreensLater ==
  ASSUME NEW u, NEW t, NEW x, Stamped(u), Stamped(t), Stamped(x),
         NotBefore(u, t), Screens(t, x)
  PROVE  Screens(u, x)
BY DEF NotBefore, Screens, Stamped

LEMMA TombstonedStays ==
  ASSUME NEW d \in Database, NEW e \in Database, TombsKept(d, e),
         NEW x, Stamped(x), IsTombstoned(d, x)
  PROVE  IsTombstoned(e, x)
<1>1. PICK t \in d.tombs : t.rec = x.rec /\ Screens(t, x)
  BY DEF IsTombstoned
<1>2. PICK u \in e.tombs : u.rec = t.rec /\ NotBefore(u, t)
  BY DEF TombsKept
<1>3. Screens(u, x)
  BY <1>1, <1>2, RowsType, ScreensLater
<1> QED
  BY <1>1, <1>2, <1>3 DEF IsTombstoned

\* What a step brings into the tables of n no deletion that n mourns screens.
LEMMA ArrivalsUnscreened ==
  ASSUME TypeInv, ScreenInv, NEW n \in Node, NEW v, Stamped(v),
         JustWritten(n, v) \/ CameIn(n, v), NEW t \in mourned[n], t.rec = v.rec
  PROVE  ~ Screens(t, v)
<1>1. Stamped(t)
  BY FilesType
<1>2. CASE JustWritten(n, v)
  <2>1. t.dv <= db[n].clock /\ db[n].clock \in Nat /\ v.dv = db[n].clock + 1
    BY <1>2, FilesType DEF TypeInv, FilesInv, JustWritten
  <2> QED
    BY <1>1, <2>1 DEF Screens, Stamped
<1>3. CASE CameIn(n, v)
  <2>0. PICK k \in Node : \E x \in ToSet(page[n][k]) :
          /\ x.change.col # NoColumn /\ Stamp(x.change) = Stamp(v)
          /\ ~ IsTombstoned(db[n], x.change)
    BY <1>3 DEF CameIn
  <2>1. PICK x \in ToSet(page[n][k]) :
          /\ x.change.col # NoColumn /\ Stamp(x.change) = Stamp(v)
          /\ ~ IsTombstoned(db[n], x.change)
    BY <2>0
  <2> DEFINE z == x.change
  <2>2. z.rec = v.rec /\ z.dv = v.dv /\ z.node = v.node
    BY <2>1 DEF Stamp
  <2>3. Screened(n, z) /\ ~ IsTombstoned(db[n], z)
    BY <2>1 DEF ScreenInv
  <2> HIDE DEF z
  <2>4. ~ Screens(t, z)
    BY <2>2, <2>3 DEF Screened
  <2> QED
    BY <2>2, <2>4 DEF Screens
<1> QED
  BY <1>2, <1>3

\* A step that compacts nothing.
LEMMA MindedStays ==
  ASSUME TypeInv, TypeInv', [Next]_vars, NEW m \in Node, TombsKept(db[m], db'[m]),
         NEW t, Stamped(t), Minded(m, t)
  PROVE  Minded(m, t)'
<1>1. CASE \A k \in Node : Mourns(k, t)
  <2>1. \A k \in Node : Mourns(k, t)'
    BY <1>1, StepArrives, MournsStays
  <2> QED
    BY <2>1 DEF Minded
<1>2. CASE \E u \in db[m].tombs : u.rec = t.rec /\ NotBefore(u, t)
  <2>1. PICK u \in db[m].tombs : u.rec = t.rec /\ NotBefore(u, t)
    BY <1>2
  <2>2. PICK w \in db'[m].tombs : w.rec = u.rec /\ NotBefore(w, u)
    BY DEF TombsKept
  <2>3. db[m] \in Database /\ db'[m] \in Database
    BY DEF TypeInv, TypeOK
  <2>4. Stamped(u) /\ Stamped(w)
    BY <2>3, RowsType
  <2>5. NotBefore(w, t)
    BY <2>1, <2>2, <2>4, NotBeforeTransitive DEF Stamped
  <2> QED
    BY <2>1, <2>2, <2>5 DEF Minded
<1> QED
  BY <1>1, <1>2 DEF Minded

\* What m mourns newly it has a tombstone for.
LEMMA NewlyMourned ==
  ASSUME TypeInv, TypeInv', [Next]_vars, NEW m \in Node, NEW t \in mourned'[m],
         t \notin mourned[m]
  PROVE  \E u \in db'[m].tombs : u.rec = t.rec /\ u.dv = t.dv /\ u.node = t.node
<1>1. PICK u \in db'[m].tombs : t = [rec |-> u.rec, dv |-> u.dv, node |-> u.node]
  BY StepArrives DEF Arrivals
<1>2. u.rec = t.rec /\ u.dv = t.dv /\ u.node = t.node
  BY <1>1
<1> QED
  BY <1>2

\* The record of a tombstone that is compacted is settled.
LEMMA Forgotten ==
  ASSUME TypeInv, NEW n \in Node, CompactStep(n), Contract = "settled",
         NEW m \in Node, NEW u \in db[m].tombs, u \notin db'[m].tombs
  PROVE  Settled(u.rec)
<1>1. PICK e \in Database, version \in Nat :
        /\ MayCompact(n, version)
        /\ e.tombs = {t \in db[n].tombs : t.dv >= version}
        /\ db'[n] = e /\ \A k \in Node \ {n} : db'[k] = db[k]
  BY DEF CompactStep
<1>2. m = n /\ ~ (u.dv >= version)
  BY <1>1
<1>3. u.dv \in Nat
  BY FilesType DEF Stamped
<1>4. u.dv < version
  BY <1>2, <1>3
<1> QED
  BY <1>1, <1>2, <1>4 DEF MayCompact

LEMMA MindedStep ==
  ASSUME TypeInv, TypeInv', GapInv, HeldInv, MindedInv, [Next]_vars,
         Contract = "settled"
  PROVE  MindedInv'
<1> SUFFICES ASSUME NEW m \in Node, NEW t \in mourned'[m]
             PROVE  Minded(m, t)'
  BY DEF MindedInv
<1>0. Stamped(t)
  <2>1. t \in Mourning
    BY DEF TypeInv, TypeOK
  <2> QED
    BY <2>1, NodeAssumption DEF Mourning, Stamped
<1>1. CASE t \notin mourned[m]
  BY <1>0, <1>1, NewlyMourned DEF Minded, NotBefore, Stamped
<1>2. CASE t \in mourned[m]
  <2>1. CASE TombsKept(db[m], db'[m])
    BY <1>0, <1>2, <2>1, MindedStays DEF MindedInv
  <2>2. ASSUME NEW n \in Node, CompactStep(n)
        PROVE  Minded(m, t)'
    <3>1. CASE \A k \in Node : Mourns(k, t)
      <4>1. \A k \in Node : Mourns(k, t)'
        BY <3>1, StepArrives, MournsStays
      <4> QED
        BY <4>1 DEF Minded
    <3>2. CASE \E u \in db[m].tombs : u.rec = t.rec /\ NotBefore(u, t)
      <4>1. PICK u \in db[m].tombs : u.rec = t.rec /\ NotBefore(u, t)
        BY <3>2
      <4>2. CASE u \in db'[m].tombs
        BY <4>1, <4>2 DEF Minded
      <4>3. CASE u \notin db'[m].tombs
        <5>1. Settled(t.rec)
          BY <2>2, <4>1, <4>3, Forgotten
        <5>2. \A k \in Node : Mourns(k, t)
          BY <1>2, <5>1, SettledPulled, SyncedMourn
        <5>3. \A k \in Node : Mourns(k, t)'
          BY <5>2, StepArrives, MournsStays
        <5> QED
          BY <5>3 DEF Minded
      <4> QED
        BY <4>2, <4>3
    <3> QED
      BY <1>2, <3>1, <3>2 DEF MindedInv, Minded
  <2> QED
    BY <2>1, <2>2, TombsStep
<1> QED
  BY <1>1, <1>2

LEMMA ScreenedStays ==
  ASSUME TypeInv, TypeInv', [Next]_vars, NEW m \in Node, TombsKept(db[m], db'[m]),
         NEW x, Stamped(x), Screened(m, x)
  PROVE  Screened(m, x)'
<1> SUFFICES ASSUME NEW t \in mourned'[m], t.rec = x.rec, Screens(t, x)
             PROVE  IsTombstoned(db'[m], x)
  BY DEF Screened
<1>1. CASE t \in mourned[m]
  <2>1. db[m] \in Database /\ db'[m] \in Database
    BY DEF TypeInv, TypeOK
  <2>2. IsTombstoned(db[m], x)
    BY <1>1 DEF Screened
  <2> QED
    BY <2>1, <2>2, TombstonedStays
<1>2. CASE t \notin mourned[m]
  BY <1>2, NewlyMourned DEF IsTombstoned, Screens
<1> QED
  BY <1>1, <1>2

\* What has just come to n is screened at m as by a tombstone of m.
LEMMA ArrivalScreened ==
  ASSUME TypeInv, TypeInv', MindedInv, ScreenInv, [Next]_vars,
         NEW m \in Node, TombsKept(db[m], db'[m]), NEW n \in Node,
         NEW v, Stamped(v), JustWritten(n, v) \/ CameIn(n, v)
  PROVE  Screened(m, v)'
<1> SUFFICES ASSUME NEW t \in mourned'[m], t.rec = v.rec, Screens(t, v)
             PROVE  IsTombstoned(db'[m], v)
  BY DEF Screened
<1>1. CASE t \notin mourned[m]
  BY <1>1, NewlyMourned DEF IsTombstoned, Screens
<1>2. CASE t \in mourned[m]
  <2>0. Stamped(t)
    BY <1>2, FilesType
  <2>1. CASE \E u \in db[m].tombs : u.rec = t.rec /\ NotBefore(u, t)
    <3>1. PICK u \in db[m].tombs : u.rec = t.rec /\ NotBefore(u, t)
      BY <2>1
    <3>2. Screens(u, v)
      BY <2>0, <3>1, FilesType, ScreensLater
    <3>3. IsTombstoned(db[m], v)
      BY <3>1, <3>2 DEF IsTombstoned
    <3>4. db[m] \in Database /\ db'[m] \in Database
      BY DEF TypeInv, TypeOK
    <3> QED
      BY <3>3, <3>4, TombstonedStays
  <2>2. CASE \A k \in Node : Mourns(k, t)
    <3>1. PICK u \in mourned[n] : u.rec = t.rec /\ NotBefore(u, t)
      BY <2>2 DEF Mourns
    <3>2. Screens(u, v)
      BY <2>0, <3>1, FilesType, ScreensLater
    <3> QED
      BY <3>1, <3>2, ArrivalsUnscreened
  <2> QED
    BY <1>2, <2>1, <2>2 DEF MindedInv, Minded
<1> QED
  BY <1>1, <1>2

LEMMA ScreenStep ==
  ASSUME TypeInv, TypeInv', MindedInv, ScreenInv, [Next]_vars,
         Contract = "settled"
  PROVE  ScreenInv'
<1>0. Arrivals /\ PageArrivals
  BY StepArrives
<1>1. ASSUME NEW n \in Node, CompactStep(n)
      PROVE  ScreenInv'
  <2>2. /\ cursor' = cursor /\ page' = page /\ mourned' = mourned
        /\ \A k \in Node : db'[k].versions = db[k].versions
    BY <1>1 DEF CompactStep
  <2>3. ASSUME NEW m \in Node, NEW x, ~ Settled(x.rec), Screened(m, x)
        PROVE  Screened(m, x)'
    <3> SUFFICES ASSUME NEW t \in mourned[m], t.rec = x.rec, Screens(t, x)
                 PROVE  IsTombstoned(db'[m], x)
      BY <2>2 DEF Screened
    <3>1. PICK u \in db[m].tombs : u.rec = x.rec /\ Screens(u, x)
      BY <2>3 DEF Screened, IsTombstoned
    <3>2. u \in db'[m].tombs
      BY <1>1, <2>3, <3>1, Forgotten
    <3> QED
      BY <3>1, <3>2 DEF IsTombstoned
  <2>4. ASSUME NEW m \in Node, NEW l \in Node, NEW x \in ToSet(page[m][l])
        PROVE  m # l /\ (x.change.col # NoColumn => Screened(m, x.change)')
    <3>1. m # l /\ (x.change.col # NoColumn => Screened(m, x.change))
      BY DEF ScreenInv
    <3>2. ~ Settled(x.change.rec)
      BY <3>1 DEF Settled
    <3> DEFINE z == x.change
    <3> HIDE DEF z
    <3>3. Screened(m, z) => Screened(m, z)'
      BY <2>3, <3>2 DEF z
    <3> QED
      BY <3>1, <3>3 DEF z
  <2>5. ASSUME NEW m \in Node, NEW l \in Node, m # l, NEW v \in db[l].versions,
               v.local > cursor[m][l], v.node # m
        PROVE  Screened(m, v)'
    <3>1. Screened(m, v)
      BY <2>5 DEF ScreenInv
    <3>2. ~ Settled(v.rec)
      BY <2>5 DEF Settled, Fresh, Excluded
    <3> QED
      BY <2>3, <3>1, <3>2
  <2> QED
    BY <2>2, <2>4, <2>5 DEF ScreenInv
<1>2. ASSUME \A k \in Node : TombsKept(db[k], db'[k])
      PROVE  ScreenInv'
  <2>1. ASSUME NEW m \in Node, NEW n \in Node, m # n, NEW v \in db'[n].versions,
               v.local > cursor'[m][n], v.node # m
        PROVE  Screened(m, v)'
    <3>0. db'[n] \in Database
      BY DEF TypeInv, TypeOK
    <3>1. Stamped(v) /\ v.local \in Nat
      BY <2>1, <3>0, RowsType DEF Stamped, Numbered, VersionRow
    <3>2. CASE v \in db[n].versions
      <4>1. cursor[m][n] \in Nat
        BY DEF TypeInv, TypeOK
      <4>2. v.local > cursor[m][n]
        BY <2>1, <3>1, <4>1, CursorsAdvance
      <4>3. Screened(m, v)
        BY <2>1, <3>2, <4>2 DEF ScreenInv
      <4> QED
        BY <1>2, <3>1, <4>3, ScreenedStays
    <3>3. CASE JustWritten(n, v) \/ CameIn(n, v)
      BY <1>2, <3>1, <3>3, ArrivalScreened
    <3> QED
      BY <1>0, <2>1, <3>2, <3>3 DEF Arrivals
  <2>2. ASSUME NEW m \in Node, NEW n \in Node, NEW x \in ToSet(page'[m][n])
        PROVE  m # n /\ (x.change.col # NoColumn => Screened(m, x.change)')
    <3> DEFINE z == x.change
    <3>0. page'[m][n] \in Seq(SentChange)
      BY DEF TypeInv, TypeOK
    <3>1. Stamped(z)
      BY <2>2, <3>0, SentType
    <3>2. CASE x \in ToSet(page[m][n])
      <4>1. m # n /\ (z.col # NoColumn => Screened(m, z))
        BY <3>2 DEF ScreenInv
      <4> HIDE DEF z
      <4>2. z.col # NoColumn => Screened(m, z)'
        BY <1>2, <3>1, <4>1, ScreenedStays
      <4> QED
        BY <4>1, <4>2 DEF z
    <3>3. CASE m # n /\ Carries(db[n], cursor[m][n], m, x)
      <4> SUFFICES ASSUME z.col # NoColumn
                   PROVE  Screened(m, z)'
        BY <3>3
      <4>1. PICK v \in db[n].versions :
              v.local > cursor[m][n] /\ v.node # m /\ Stamp(z) = Stamp(v)
        BY <3>3 DEF Carries
      <4>2. Screened(m, v)
        BY <3>3, <4>1 DEF ScreenInv
      <4>3. z.rec = v.rec /\ z.dv = v.dv /\ z.node = v.node
        BY <4>1 DEF Stamp
      <4> HIDE DEF z
      <4>4. Screened(m, z)
        BY <4>2, <4>3 DEF Screened, Screens, IsTombstoned
      <4> QED
        BY <1>2, <3>1, <4>4, ScreenedStays
    <3> QED
      BY <1>0, <2>2, <3>2, <3>3 DEF PageArrivals
  <2> QED
    BY <2>1, <2>2 DEF ScreenInv
<1> QED
  BY <1>1, <1>2, TombsStep

LEMMA NothingResurrected ==
  ASSUME TypeInv, TypeInv', ScreenInv, [Next]_vars
  PROVE  \A n \in Node : \A v \in Added(n) :
           ~ \E t \in mourned[n] : t.rec = v.rec /\ Screens(t, v)
<1> SUFFICES ASSUME NEW n \in Node, NEW v \in Added(n)
             PROVE  ~ \E t \in mourned[n] : t.rec = v.rec /\ Screens(t, v)
  OBVIOUS
<1>1. v \in db'[n].versions /\ v \notin db[n].versions
  BY DEF Added
<1>2. JustWritten(n, v) \/ CameIn(n, v)
  BY <1>1, StepArrives DEF Arrivals
<1>3. db'[n] \in Database
  BY DEF TypeInv, TypeOK
<1>4. Stamped(v)
  BY <1>1, <1>3, RowsType DEF Stamped, Numbered
<1> QED
  BY <1>2, <1>4, ArrivalsUnscreened

\* When a tombstone is compacted only while no replica has anything of its
\* record to send to another, no version enters a replica that a deletion known to the replica screens,
\* whether or not its tombstone is still there.
THEOREM ResurrectionCorrect ==
  ASSUME Contract = "settled"
  PROVE  Spec => NoResurrection
<1>1. Init => MindedInv /\ ScreenInv
  BY EmptyPage DEF Init, EmptyDatabase, MindedInv, ScreenInv
<1>2. SyncInv /\ SyncInv' /\ MindedInv /\ ScreenInv /\ [Next]_vars
        => (MindedInv /\ ScreenInv)'
  BY MindedStep, ScreenStep DEF SyncInv
<1>3. SyncInv /\ SyncInv' /\ ScreenInv /\ [Next]_vars
        => [\A n \in Node : \A v \in Added(n) :
              ~ \E t \in mourned[n] : t.rec = v.rec /\ Screens(t, v)]_vars
  BY NothingResurrected DEF SyncInv
<1> QED
  BY <1>1, <1>2, <1>3, SyncInvariant, PTL DEF Spec, NoResurrection
=============================================================================
