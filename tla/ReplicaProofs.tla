---------------------------- MODULE ReplicaProofs ---------------------------
(* What each replica may rely on.  What comes back to the node whose id it *)
(* carries is known there: its deletions and its versions enter other      *)
(* files by no other way than from its own, which never forgets them.      *)
(* Rows and versions agree in every file: the invariants are those of the  *)
(* runs, stated of a database, and each statement and each iteration of    *)
(* the merge keeps them.  And a version stands for one value.              *)
EXTENDS CrdtReplicationProofs

-----------------------------------------------------------------------------
(* A local deletion screens whatever its node has seen: the clock is past  *)
(* all of it, because a merge takes the clock along even for the changes   *)
(* it rejects.  And a tombstone with n's own node id enters n's tables by  *)
(* no other way: n's file never forgets a deletion of its own, so that one *)
(* which comes back is screened.                                           *)

SeenBehind ==
  \A n \in Node : /\ \A s \in seen[n] : s.dv <= db[n].clock
                  /\ \A x \in batch[n] \ todo[n] : x.dv <= work[n].clock

\* The node that deletion y is stamped with has y, or a later tombstone.
HomeKnows(y) == \E t \in db[y.node].tombs : t.rec = y.rec /\ NotBefore(t, y)

DeletionsKnown(changes) == \A x \in changes : x.col = NoColumn => HomeKnows(x)

HomeInv ==
  /\ \A n \in Node :
       /\ \A t \in db[n].tombs \cup work[n].tombs : HomeKnows(t)
       /\ DeletionsKnown(todo[n])
       /\ \A t \in work[n].tombs : t.node = n => t \in db[n].tombs
  /\ \A b \in net : DeletionsKnown(b.changes)

LEMMA CommitSeen ==
  ASSUME TypeOK, ClockDominates, WorkAhead, MergeShapes, SeenBehind,
         NEW n \in Node, NEW rows \in SUBSET Row, NEW pend, Commit(n, rows, pend)
  PROVE  SeenBehind'
<1> DEFINE f == [db[n] EXCEPT !.rows = rows]
           d == ProcessPending(f, n, pend)
<1>1. /\ db' = [db EXCEPT ![n] = d]
      /\ work' = [work EXCEPT ![n] = d]
      /\ seen' = [seen EXCEPT ![n] = @ \cup Stamps(GetChangesSince(d, 0, {}))]
      /\ UNCHANGED <<merging, batch, todo, net>>
      /\ ~ merging[n]
  BY DEF Commit
<1>2. f \in Database /\ Dominated(f) /\ f.clock = db[n].clock
  BY DEF TypeOK, ClockDominates, Database, Dominated
<1>3. d.clock = db[n].clock + 1 /\ db[n].clock \in Nat
  BY <1>2 DEF ProcessPending, Database
<1>4. Dominated(d)
  BY <1>2, ProcessPendingDominated
<1> HIDE DEF d, f
<1>5. \A s \in Stamps(GetChangesSince(d, 0, {})) : s.dv <= d.clock
  BY <1>4, ChangesCarryStamps DEF Stamps, Stamp, Dominated
<1>6. \A s \in seen[n] : s.dv <= d.clock
  BY <1>3 DEF SeenBehind, TypeOK, StampRow
<1>7. batch[n] = {}
  BY <1>1 DEF MergeShapes
<1> QED
  BY <1>1, <1>5, <1>6, <1>7 DEF SeenBehind, TypeOK

LEMMA SeenStep ==
  ASSUME TypeOK, ClockDominates, WorkAhead, MergeShapes, SeenBehind, [Next]_vars
  PROVE  SeenBehind'
<1>0. \A m \in Node : db[m].clock \in Nat /\ work[m].clock \in Nat
  BY DEF TypeOK, Database
<1>1. CASE UNCHANGED <<db, work, batch, todo, seen>>
  BY <1>1 DEF SeenBehind
<1>2. ASSUME NEW n \in Node, InsertRow(n) \/ UpdateRow(n) \/ DeleteRow(n)
      PROVE  SeenBehind'
  BY <1>2, InsertRowShape, UpdateRowShape, DeleteRowShape, CommitSeen
<1>3. ASSUME NEW n \in Node, BeginMerge(n)
      PROVE  SeenBehind'
  BY <1>3 DEF BeginMerge, SeenBehind, TypeOK
<1>4. ASSUME NEW n \in Node, MergeColumn(n) \/ MergeDeletion(n)
      PROVE  SeenBehind'
  <2>1. PICK x, d : x \in todo[n] /\ MergedTo(work[n], x, d) /\ Merge(n, x, d)
    BY <1>4, MergeShape
  <2>2. /\ work' = [work EXCEPT ![n] = d]
        /\ todo' = [todo EXCEPT ![n] = @ \ {x}]
        /\ UNCHANGED <<db, batch, seen>>
    BY <2>1 DEF Merge
  <2>3. x.dv \in Nat
    BY <2>1 DEF TypeOK, Change
  <2>4. d.clock = Later(work[n].clock, x.dv)
    BY <2>1 DEF MergedTo, ColumnAccepted, DeletionAccepted, Rejected,
                TypeOK, Database
  <2>5. d.clock \in Nat /\ d.clock >= work[n].clock /\ d.clock >= x.dv
    BY <1>0, <2>3, <2>4 DEF Later
  <2>6. \A y \in batch[n] \ todo'[n] : y.dv <= d.clock
    <3> TAKE y \in batch[n] \ todo'[n]
    <3>1. y = x \/ y \in batch[n] \ todo[n]
      BY <2>2 DEF TypeOK
    <3>2. y.dv \in Nat
      BY DEF TypeOK, Change
    <3> QED
      BY <1>0, <2>5, <3>1, <3>2 DEF SeenBehind
  <2> QED
    BY <2>2, <2>6 DEF SeenBehind, TypeOK
<1>5. ASSUME NEW n \in Node, CommitMerge(n)
      PROVE  SeenBehind'
  <2> DEFINE d == [work[n] EXCEPT !.clock = @ + 1]
  <2>1. /\ db' = [db EXCEPT ![n] = d]
        /\ work' = [work EXCEPT ![n] = d]
        /\ batch' = [batch EXCEPT ![n] = {}]
        /\ seen' = [seen EXCEPT ![n] = @ \cup Stamps(batch[n])]
        /\ UNCHANGED todo
        /\ todo[n] = {}
    BY <1>5 DEF CommitMerge
  <2>2. d.clock = work[n].clock + 1
    BY DEF TypeOK, Database
  <2> HIDE DEF d
  <2>3. \A s \in Stamps(batch[n]) : s.dv <= d.clock
    <3> TAKE s \in Stamps(batch[n])
    <3>1. PICK x \in batch[n] : s.dv = x.dv
      BY DEF Stamps, Stamp
    <3>2. x.dv \in Nat /\ x.dv <= work[n].clock
      BY <2>1 DEF TypeOK, Change, SeenBehind
    <3> QED
      BY <1>0, <2>2, <3>1, <3>2
  <2>4. \A s \in seen[n] : s.dv <= d.clock
    BY <1>0, <2>2 DEF SeenBehind, WorkAhead, TypeOK, StampRow
  <2> QED
    BY <2>1, <2>3, <2>4 DEF SeenBehind, TypeOK
<1>6. ASSUME NEW n \in Node, AbortMerge(n)
      PROVE  SeenBehind'
  BY <1>6 DEF AbortMerge, SeenBehind, TypeOK
<1> QED
  BY <1>1, <1>2, <1>3, <1>4, <1>5, <1>6
  DEF Next, NodeStep, Lose, Send, vars

LEMMA HomeKnowsStays ==
  ASSUME TypeOK, \A n \in Node : TombsKept(db[n], db'[n]), TypeOK',
         NEW y, y.node \in Node, y.dv \in Nat, HomeKnows(y)
  PROVE  HomeKnows(y)'
<1>1. PICK t \in db[y.node].tombs : t.rec = y.rec /\ NotBefore(t, y)
  BY DEF HomeKnows
<1>2. PICK u \in db'[y.node].tombs : u.rec = t.rec /\ NotBefore(u, t)
  BY <1>1 DEF TombsKept
<1>3. /\ t.dv \in Nat /\ t.node \in Nat
      /\ u.dv \in Nat /\ u.node \in Nat /\ y.node \in Nat
  BY DatabaseNumbers, NodeAssumption DEF TypeOK
<1>4. NotBefore(u, y)
  BY <1>1, <1>2, <1>3, NotBeforeTransitive
<1> QED
  BY <1>1, <1>2, <1>4 DEF HomeKnows

LEMMA AllHomeKnowsStays ==
  ASSUME TypeOK, TypeOK', HomeInv, \A n \in Node : TombsKept(db[n], db'[n])
  PROVE  /\ \A n \in Node :
              /\ \A t \in db[n].tombs \cup work[n].tombs : HomeKnows(t)'
              /\ \A x \in todo[n] : x.col = NoColumn => HomeKnows(x)'
         /\ \A b \in net : \A x \in b.changes : x.col = NoColumn => HomeKnows(x)'
<1>1. ASSUME NEW n \in Node
      PROVE  /\ \A t \in db[n].tombs \cup work[n].tombs : HomeKnows(t)'
             /\ \A x \in todo[n] : x.col = NoColumn => HomeKnows(x)'
  <2>1. /\ db[n].tombs \cup work[n].tombs \in SUBSET TombRow
        /\ todo[n] \in SUBSET Change
    BY DEF TypeOK, Database
  <2>2. \A t \in db[n].tombs \cup work[n].tombs : HomeKnows(t)'
    BY <2>1, HomeKnowsStays DEF HomeInv, TombRow
  <2>3. \A x \in todo[n] : x.col = NoColumn => HomeKnows(x)'
    BY <2>1, HomeKnowsStays DEF HomeInv, DeletionsKnown, Change
  <2> QED
    BY <2>2, <2>3
<1>2. \A b \in net : \A x \in b.changes : x \in Change
  BY DEF TypeOK, Batch
<1>3. \A b \in net : \A x \in b.changes : x.col = NoColumn => HomeKnows(x)'
  BY <1>2, HomeKnowsStays DEF HomeInv, DeletionsKnown, Change
<1> QED
  BY <1>1, <1>3

\* A deletion of its own that comes back to n is screened by n's tombstones.
LEMMA OwnDeletionScreened ==
  ASSUME TypeOK, HomeInv, GrownInv, NEW n \in Node, NEW x \in todo[n],
         x.col = NoColumn, x.node = n
  PROVE  IsTombstoned(work[n], x)
<1>1. x.dv \in Nat /\ x.node \in Nat
  BY NodeAssumption DEF TypeOK, Change
<1>2. PICK t \in db[n].tombs : t.rec = x.rec /\ NotBefore(t, x)
  BY DEF HomeInv, DeletionsKnown, HomeKnows
<1>3. PICK u \in work[n].tombs : u.rec = t.rec /\ NotBefore(u, t)
  BY <1>2 DEF GrownInv, Grown, TombsKept
<1>4. t.dv \in Nat /\ t.node \in Nat /\ u.dv \in Nat /\ u.node \in Nat
  BY DatabaseNumbers DEF TypeOK
<1>5. NotBefore(u, x)
  BY <1>1, <1>2, <1>3, <1>4, NotBeforeTransitive
<1> QED
  BY <1>2, <1>3, <1>5 DEF IsTombstoned, Screens, NotBefore

LEMMA HomeStep ==
  ASSUME TypeOK, TypeOK', HomeInv, GrownInv, MergeShapes, [Next]_vars,
         \A n \in Node : TombsKept(db[n], db'[n])
  PROVE  HomeInv'
<1>1. CASE UNCHANGED vars
  BY <1>1 DEF HomeInv, DeletionsKnown, HomeKnows, vars
<1>2. CASE Lose
  BY <1>2 DEF Lose, HomeInv, DeletionsKnown, HomeKnows
<1>3. ASSUME NEW n \in Node, InsertRow(n) \/ UpdateRow(n) \/ DeleteRow(n)
      PROVE  HomeInv'
  <2>1. PICK rows, pend : Commit(n, rows, pend)
    BY <1>3, InsertRowShape, UpdateRowShape, DeleteRowShape
  <2> DEFINE f == [db[n] EXCEPT !.rows = rows]
             d == ProcessPending(f, n, pend)
  <2>2. /\ db' = [db EXCEPT ![n] = d] /\ work' = [work EXCEPT ![n] = d]
        /\ UNCHANGED <<merging, batch, todo, net>>
    BY <2>1 DEF Commit
  <2>3. \A t \in d.tombs : t \in f.tombs \/ t.node = n
    <3>1. d = ProcessPending(f, n, pend)
      OBVIOUS
    <3> HIDE DEF d, f
    <3> QED
      BY <3>1, ProcessPendingNew
  <2>4. f.tombs = db[n].tombs
    BY DEF TypeOK, Database
  <2> HIDE DEF d, f
  <2>5. db'[n] = d /\ work'[n] = d /\ d \in Database
    BY <2>2 DEF TypeOK
  <2>6. \A t \in d.tombs : HomeKnows(t)'
    <3> TAKE t \in d.tombs
    <3>1. CASE t \in db[n].tombs
      BY <3>1, AllHomeKnowsStays
    <3>2. CASE t.node = n
      BY <2>5, <3>2, DatabaseNumbers DEF HomeKnows, NotBefore
    <3> QED
      BY <2>3, <2>4, <3>1, <3>2
  <2>7. \A m \in Node :
          /\ \A t \in db'[m].tombs \cup work'[m].tombs : HomeKnows(t)'
          /\ \A t \in work'[m].tombs : t.node = m => t \in db'[m].tombs
    BY <2>2, <2>5, <2>6, AllHomeKnowsStays DEF HomeInv, TypeOK
  <2> QED
    BY <2>2, <2>7, AllHomeKnowsStays DEF HomeInv, DeletionsKnown
<1>4. ASSUME NEW n \in Node, Send(n)
      PROVE  HomeInv'
  <2>1. PICK m, since, excluded :
          /\ m \in Node
          /\ net' = net \cup {[to |-> m, changes |->
                                GetChangesSince(db[n], since, excluded)]}
          /\ UNCHANGED <<db, merging, work, batch, todo, seen>>
    BY <1>4 DEF Send
  <2>2. \A x \in GetChangesSince(db[n], since, excluded) :
          x.col = NoColumn => HomeKnows(x)'
    <3> SUFFICES ASSUME NEW x \in GetChangesSince(db[n], since, excluded),
                        x.col = NoColumn
                 PROVE  HomeKnows(x)'
      OBVIOUS
    <3>1. PICK t \in db[n].tombs : x = Deletion(t)
      BY ColumnAssumption
      DEF GetChangesSince, Fresh, ColumnChange, TypeOK, Database, VersionRow
    <3>2. x.rec = t.rec /\ x.dv = t.dv /\ x.node = t.node
      BY <3>1 DEF Deletion
    <3>3. HomeKnows(t)'
      BY AllHomeKnowsStays
    <3> QED
      BY <3>2, <3>3 DEF HomeKnows, NotBefore
  <2> QED
    BY <2>1, <2>2, AllHomeKnowsStays DEF HomeInv, DeletionsKnown
<1>5. ASSUME NEW n \in Node, BeginMerge(n)
      PROVE  HomeInv'
  <2>1. PICK b \in net :
          /\ todo' = [todo EXCEPT ![n] = b.changes]
          /\ UNCHANGED <<db, work, net, seen>>
    BY <1>5 DEF BeginMerge
  <2> QED
    BY <2>1, AllHomeKnowsStays DEF HomeInv, DeletionsKnown, TypeOK
<1>6. ASSUME NEW n \in Node, MergeColumn(n) \/ MergeDeletion(n)
      PROVE  HomeInv'
  <2>1. PICK x, d : x \in todo[n] /\ MergedTo(work[n], x, d) /\ Merge(n, x, d)
    BY <1>6, MergeShape
  <2>2. /\ work' = [work EXCEPT ![n] = d]
        /\ todo' = [todo EXCEPT ![n] = @ \ {x}]
        /\ UNCHANGED <<db, merging, batch, net, seen>>
    BY <2>1 DEF Merge
  <2>3. work[n] \in Database
    BY DEF TypeOK
  <2>4. \A t \in d.tombs :
          \/ t \in work[n].tombs
          \/ /\ x.col = NoColumn /\ ~ IsTombstoned(work[n], x)
             /\ t.rec = x.rec /\ t.dv = x.dv /\ t.node = x.node
    BY <2>1, <2>3 DEF MergedTo, ColumnAccepted, DeletionAccepted, Rejected,
                WithTombstone, Database
  <2>5. \A t \in d.tombs : HomeKnows(t)'
    <3> TAKE t \in d.tombs
    <3>1. CASE t \in work[n].tombs
      BY <3>1, AllHomeKnowsStays
    <3>2. CASE x.col = NoColumn /\ t.rec = x.rec /\ t.dv = x.dv /\ t.node = x.node
      <4>1. HomeKnows(x)'
        BY <2>1, <3>2, AllHomeKnowsStays
      <4> QED
        BY <3>2, <4>1 DEF HomeKnows, NotBefore
    <3> QED
      BY <2>4, <3>1, <3>2
  <2>6. \A t \in d.tombs : t.node = n => t \in db[n].tombs
    BY <2>1, <2>4, OwnDeletionScreened DEF HomeInv
  <2>7. work'[n] = d /\ \A m \in Node \ {n} : work'[m] = work[m]
    BY <2>2 DEF TypeOK
  <2>8. todo'[n] = todo[n] \ {x} /\ \A m \in Node \ {n} : todo'[m] = todo[m]
    BY <2>2 DEF TypeOK
  <2>9. \A m \in Node :
          /\ \A t \in db'[m].tombs \cup work'[m].tombs : HomeKnows(t)'
          /\ \A t \in work'[m].tombs : t.node = m => t \in db'[m].tombs
    BY <2>2, <2>5, <2>6, <2>7, AllHomeKnowsStays DEF HomeInv
  <2>10. \A m \in Node : DeletionsKnown(todo[m])'
    BY <2>8, AllHomeKnowsStays DEF DeletionsKnown
  <2> QED
    BY <2>2, <2>9, <2>10, AllHomeKnowsStays DEF HomeInv, DeletionsKnown
<1>7. ASSUME NEW n \in Node, CommitMerge(n)
      PROVE  HomeInv'
  <2> DEFINE d == [work[n] EXCEPT !.clock = @ + 1]
  <2>1. /\ db' = [db EXCEPT ![n] = d]
        /\ work' = [work EXCEPT ![n] = d]
        /\ UNCHANGED <<todo, net>>
    BY <1>7 DEF CommitMerge
  <2>2. d.tombs = work[n].tombs
    BY DEF TypeOK, Database
  <2> HIDE DEF d
  <2>3. db'[n] = d /\ work'[n] = d
        /\ \A m \in Node \ {n} : db'[m] = db[m] /\ work'[m] = work[m]
    BY <2>1 DEF TypeOK
  <2>4. \A m \in Node :
          /\ \A t \in db'[m].tombs \cup work'[m].tombs : HomeKnows(t)'
          /\ \A t \in work'[m].tombs : t.node = m => t \in db'[m].tombs
    BY <2>2, <2>3, AllHomeKnowsStays DEF HomeInv
  <2> QED
    BY <2>1, <2>4, AllHomeKnowsStays DEF HomeInv, DeletionsKnown
<1>8. ASSUME NEW n \in Node, AbortMerge(n)
      PROVE  HomeInv'
  BY <1>8, AllHomeKnowsStays DEF AbortMerge, HomeInv, DeletionsKnown, TypeOK
<1> QED
  BY <1>1, <1>2, <1>3, <1>4, <1>5, <1>6, <1>7, <1>8 DEF Next, NodeStep

ScreensThePast ==
  \A n \in Node : \A t \in db'[n].tombs \ db[n].tombs :
    t.node = n => \A s \in seen[n] : s.rec = t.rec => Screens(t, s)

LEMMA ScreenStep ==
  ASSUME TypeOK, SeenBehind, HomeInv, [Next]_vars
  PROVE  ScreensThePast
<1>1. CASE UNCHANGED db
  BY <1>1 DEF ScreensThePast
<1>2. ASSUME NEW n \in Node, InsertRow(n) \/ UpdateRow(n) \/ DeleteRow(n)
      PROVE  ScreensThePast
  <2>1. PICK rows, pend : Commit(n, rows, pend)
    BY <1>2, InsertRowShape, UpdateRowShape, DeleteRowShape
  <2> DEFINE f == [db[n] EXCEPT !.rows = rows]
             d == ProcessPending(f, n, pend)
  <2>2. db' = [db EXCEPT ![n] = d]
    BY <2>1 DEF Commit
  <2>3. /\ \A t \in d.tombs : t \in f.tombs \/ t.dv = d.clock
        /\ d.clock = f.clock + 1
    <3>1. d = ProcessPending(f, n, pend)
      OBVIOUS
    <3> HIDE DEF d, f
    <3> QED
      BY <3>1, ProcessPendingNew
  <2>4. f.tombs = db[n].tombs /\ f.clock = db[n].clock /\ db[n].clock \in Nat
    BY DEF TypeOK, Database
  <2> HIDE DEF d, f
  <2>5. db'[n] = d /\ \A m \in Node \ {n} : db'[m] = db[m]
    BY <2>2 DEF TypeOK
  <2>6. \A s \in seen[n] : s.dv \in Nat /\ s.dv < d.clock
    BY <2>3, <2>4 DEF SeenBehind, TypeOK, StampRow
  <2> QED
    BY <2>3, <2>4, <2>5, <2>6 DEF ScreensThePast, Screens
<1>3. ASSUME NEW n \in Node, CommitMerge(n)
      PROVE  ScreensThePast
  <2>1. db' = [db EXCEPT ![n] = [work[n] EXCEPT !.clock = @ + 1]]
    BY <1>3 DEF CommitMerge
  <2>2. db'[n].tombs = work[n].tombs /\ \A m \in Node \ {n} : db'[m] = db[m]
    BY <2>1 DEF TypeOK, Database
  <2> QED
    BY <2>2 DEF HomeInv, ScreensThePast
<1> QED
  BY <1>1, <1>2, <1>3
  DEF Next, NodeStep, Lose, Send, BeginMerge, MergeColumn, MergeDeletion, Merge,
      AbortMerge, vars

\* A deletion of a local transaction screens every change of the record that
\* its node had written or been offered, and no other step brings a tombstone
\* of the node's own.
THEOREM DeletionsCorrect == Spec => DeletionsScreenThePast
<1>1. Init => WorkAhead /\ SeenBehind /\ HomeInv /\ JoinInv /\ GrownInv
  BY DEF Init, WorkAhead, SeenBehind, HomeInv, DeletionsKnown, EmptyDatabase,
         JoinInv, MergeShapes, Joined, Newest, TombsSeen, Passed, Stamps,
         GrownInv, Grown, TombsKept, VersionsGrown
<1>2. TypeOK /\ ClockDominates /\ WorkAhead /\ SeenBehind /\ HomeInv
        /\ JoinInv /\ GrownInv /\ [Next]_vars
      => /\ WorkAhead' /\ SeenBehind' /\ HomeInv' /\ JoinInv' /\ GrownInv'
         /\ [ScreensThePast]_vars
  <2> SUFFICES ASSUME TypeOK, ClockDominates, WorkAhead, SeenBehind, HomeInv,
                      JoinInv, GrownInv, [Next]_vars
               PROVE  /\ WorkAhead' /\ SeenBehind' /\ HomeInv' /\ JoinInv'
                      /\ GrownInv' /\ ScreensThePast
    OBVIOUS
  <2>1. MergeShapes /\ TypeOK'
    BY TypeStep DEF JoinInv
  <2>2. GrownInv' /\ \A n \in Node : TombsKept(db[n], db'[n])
    BY <2>1, GrownStep DEF Kept
  <2>3. WorkAhead' /\ SeenBehind' /\ JoinInv'
    BY <2>1, WorkAheadStep, SeenStep, JoinStep
  <2>4. HomeInv' /\ ScreensThePast
    BY <2>1, <2>2, HomeStep, ScreenStep
  <2> QED
    BY <2>2, <2>3, <2>4
<1> QED
  BY <1>1, <1>2, TypeCorrect, ClockCorrect, PTL
  DEF Spec, DeletionsScreenThePast, ScreensThePast

-----------------------------------------------------------------------------
(* A merge brings no version of n's own to n that n does not have already, *)
(* so that every new one comes from a local transaction, whose clock no    *)
(* peer can have read before.                                              *)

\* d has version y of a column, or a greater one, or a tombstone that screens
\* it.
Answers(d, y) ==
  \/ \E u \in d.versions : SameKey(u, y) /\ AtLeast(u, y)
  \/ \E t \in d.tombs : t.rec = y.rec /\ NotBefore(t, y)

\* The node that version y is stamped with answers it.
HomeHas(y) == Answers(db[y.node], y)

ColumnsKnown(changes) == \A x \in changes : x.col # NoColumn => HomeHas(x)

\* Of its own versions an open merge shows none that the file has not.
OwnStay(n) ==
  \A v \in work[n].versions :
    v.node = n => \E u \in db[n].versions : Stamp(u) = Stamp(v)

OwnInv ==
  /\ \A n \in Node :
       /\ \A v \in db[n].versions \cup work[n].versions : HomeHas(v)
       /\ ColumnsKnown(todo[n])
       /\ OwnStay(n)
  /\ \A b \in net : ColumnsKnown(b.changes)

\* What a step may do to the file of a node: versions grow, or are buried
\* under a tombstone that is later than all that the file had.
Replaces(d, e) ==
  /\ TombsKept(d, e)
  /\ \A v \in d.versions :
       \/ \E u \in e.versions : SameKey(u, v) /\ AtLeast(u, v)
       \/ \E t \in e.tombs : t.rec = v.rec /\ t.dv > d.clock

LEMMA GrownReplaces ==
  ASSUME NEW d, NEW e, Grown(d, e)
  PROVE  Replaces(d, e)
BY DEF Grown, VersionsGrown, Replaces

LEMMA CommitReplaces ==
  ASSUME TypeOK, ClockDominates, NEW n \in Node, NEW rows \in SUBSET Row,
         NEW pend, WellFormed(pend), \A a, b \in rows : a.rec = b.rec => a = b,
         Commit(n, rows, pend)
  PROVE  /\ Replaces(db[n], db'[n])
         /\ \A v \in db'[n].versions :
              v \in db[n].versions \/ (v.node = n /\ v.local > db[n].clock)
         /\ work'[n] = db'[n]
         /\ \A m \in Node \ {n} : db'[m] = db[m] /\ work'[m] = work[m]
         /\ UNCHANGED <<merging, batch, todo, net>>
<1> DEFINE f == [db[n] EXCEPT !.rows = rows]
           d == ProcessPending(f, n, pend)
<1>1. f \in Database /\ f.versions = db[n].versions
      /\ f.tombs = db[n].tombs /\ f.clock = db[n].clock /\ f.rows = rows
  BY DEF TypeOK, Database
<1>2. KeysUnique(f) /\ Dominated(f)
  BY <1>1 DEF TypeOK, KeysUnique, ClockDominates, Dominated
<1> HIDE DEF f
<1>3. d.clock = f.clock + 1 /\ f.clock \in Nat
  BY <1>1 DEF ProcessPending, Database
<1>4. TombsKept(f, d)
  BY <1>1, <1>2, CommitKept DEF Kept
<1>5. \A v \in f.versions :
        \/ \E u \in d.versions : SameKey(u, v) /\ AtLeast(u, v)
        \/ \E t \in d.tombs : t.rec = v.rec /\ t.dv = d.clock
  BY <1>1, <1>2, ProcessPendingKeeps
<1>6. \A v \in d.versions :
        v \in f.versions \/ (v.node = n /\ v.local = f.clock + 1)
  BY DEF ProcessPending, NextVersion
<1>7. /\ db' = [db EXCEPT ![n] = d] /\ work' = [work EXCEPT ![n] = d]
      /\ UNCHANGED <<merging, batch, todo, net>>
  BY DEF Commit, f
<1> HIDE DEF d
<1>8. db'[n] = d /\ work'[n] = d
      /\ \A m \in Node \ {n} : db'[m] = db[m] /\ work'[m] = work[m]
  BY <1>7 DEF TypeOK
<1>9. Replaces(db[n], d)
  <2>1. TombsKept(db[n], d)
    BY <1>1, <1>4 DEF TombsKept
  <2>2. d.clock > db[n].clock
    BY <1>1, <1>3
  <2> QED
    BY <1>1, <1>5, <2>1, <2>2 DEF Replaces
<1>10. \A v \in d.versions :
         v \in db[n].versions \/ (v.node = n /\ v.local > db[n].clock)
  BY <1>1, <1>3, <1>6
<1> QED
  BY <1>7, <1>8, <1>9, <1>10

LEMMA ReplaceStep ==
  ASSUME TypeOK, ClockDominates, GrownInv, [Next]_vars
  PROVE  \A n \in Node : Replaces(db[n], db'[n])
<1> DEFINE Goal == \A n \in Node : Replaces(db[n], db'[n])
<1>0. \A m \in Node : Replaces(db[m], db[m])
  BY GrownReflexive, GrownReplaces DEF TypeOK
<1>1. CASE UNCHANGED db
  BY <1>0, <1>1
<1>2. ASSUME NEW n \in Node, InsertRow(n) \/ UpdateRow(n) \/ DeleteRow(n)
      PROVE  Goal
  <2>1. PICK rows, pend :
          /\ rows \in SUBSET Row
          /\ WellFormed(pend)
          /\ \A a, b \in rows : a.rec = b.rec => a = b
          /\ Commit(n, rows, pend)
    BY <1>2, InsertRowShape, UpdateRowShape, DeleteRowShape
  <2> QED
    BY <1>0, <2>1, CommitReplaces
<1>3. ASSUME NEW n \in Node, CommitMerge(n)
      PROVE  Goal
  <2>1. db' = [db EXCEPT ![n] = [work[n] EXCEPT !.clock = @ + 1]]
    BY <1>3 DEF CommitMerge
  <2>2. /\ db'[n].versions = work[n].versions /\ db'[n].tombs = work[n].tombs
        /\ \A m \in Node \ {n} : db'[m] = db[m]
    BY <2>1 DEF TypeOK, Database
  <2>3. Grown(db[n], db'[n])
    BY <2>2 DEF GrownInv, Grown, TombsKept, VersionsGrown
  <2> QED
    BY <1>0, <2>2, <2>3, GrownReplaces
<1> QED
  BY <1>1, <1>2, <1>3
  DEF Next, NodeStep, Lose, Send, BeginMerge, MergeColumn, MergeDeletion, Merge,
      AbortMerge, vars

LEMMA HomeHasStays ==
  ASSUME TypeOK, TypeOK', \A n \in Node : Replaces(db[n], db'[n]),
         NEW y, y.node \in Node, y.cv \in Nat, y.dv \in Nat, Past(y), HomeHas(y)
  PROVE  HomeHas(y)'
<1> DEFINE d == db[y.node]
           e == db'[y.node]
<1>0. /\ d \in Database /\ e \in Database /\ Replaces(d, e)
      /\ y.node \in Nat /\ y.dv <= d.clock
  BY NodeAssumption DEF TypeOK, Past
<1>1. HomeHas(y) <=> Answers(d, y)
  BY DEF HomeHas
<1>2. HomeHas(y)' <=> Answers(e, y)
  BY DEF HomeHas, Answers
<1> HIDE DEF d, e
<1>3. CASE \E u \in d.versions : SameKey(u, y) /\ AtLeast(u, y)
  <2>1. PICK u \in d.versions : SameKey(u, y) /\ AtLeast(u, y)
    BY <1>3
  <2>2. CASE \E w \in e.versions : SameKey(w, u) /\ AtLeast(w, u)
    <3>1. PICK w \in e.versions : SameKey(w, u) /\ AtLeast(w, u)
      BY <2>2
    <3>2. AtLeast(w, y)
      BY <1>0, <2>1, <3>1, DatabaseNumbers, AtLeastTransitive
    <3>3. SameKey(w, y)
      BY <2>1, <3>1 DEF SameKey
    <3> QED
      BY <1>2, <3>2, <3>3 DEF Answers
  <2>3. CASE \E t \in e.tombs : t.rec = u.rec /\ t.dv > d.clock
    <3>1. PICK t \in e.tombs : t.rec = u.rec /\ t.dv > d.clock
      BY <2>3
    <3>2. t.dv \in Nat /\ d.clock \in Nat
      BY <1>0, DatabaseNumbers
    <3>3. NotBefore(t, y)
      BY <1>0, <3>1, <3>2 DEF NotBefore
    <3>4. t.rec = y.rec
      BY <2>1, <3>1 DEF SameKey
    <3> QED
      BY <1>2, <3>3, <3>4 DEF Answers
  <2> QED
    BY <1>0, <2>2, <2>3 DEF Replaces
<1>4. CASE \E t \in d.tombs : t.rec = y.rec /\ NotBefore(t, y)
  <2>1. PICK t \in d.tombs : t.rec = y.rec /\ NotBefore(t, y)
    BY <1>4
  <2>2. PICK u \in e.tombs : u.rec = t.rec /\ NotBefore(u, t)
    BY <1>0 DEF Replaces, TombsKept
  <2>3. NotBefore(u, y)
    BY <1>0, <2>1, <2>2, DatabaseNumbers, NotBeforeTransitive
  <2> QED
    BY <1>2, <2>1, <2>2, <2>3 DEF Answers
<1> QED
  BY <1>1, <1>3, <1>4 DEF Answers

\* So everything that a step only carries along stays answered.
LEMMA AllHomeHasStays ==
  ASSUME TypeOK, TypeOK', OwnInv, StampsFromThePast,
         \A n \in Node : Replaces(db[n], db'[n])
  PROVE  /\ \A n \in Node :
              /\ \A v \in db[n].versions \cup work[n].versions : HomeHas(v)'
              /\ \A x \in todo[n] : x.col # NoColumn => HomeHas(x)'
         /\ \A b \in net : \A x \in b.changes : x.col # NoColumn => HomeHas(x)'
<1>1. ASSUME NEW n \in Node
      PROVE  /\ \A v \in db[n].versions \cup work[n].versions : HomeHas(v)'
             /\ \A x \in todo[n] : x.col # NoColumn => HomeHas(x)'
  <2>1. /\ db[n].versions \cup work[n].versions \in SUBSET VersionRow
        /\ todo[n] \in SUBSET Change
    BY DEF TypeOK, Database
  <2>2. \A v \in db[n].versions \cup work[n].versions : HomeHas(v)'
    BY <2>1, HomeHasStays DEF OwnInv, StampsFromThePast, TablesPast, VersionRow
  <2>3. \A x \in todo[n] : x.col # NoColumn => HomeHas(x)'
    BY <2>1, HomeHasStays DEF OwnInv, ColumnsKnown, StampsFromThePast, Change
  <2> QED
    BY <2>2, <2>3
<1>2. \A b \in net : \A x \in b.changes : x \in Change
  BY DEF TypeOK, Batch
<1>3. \A b \in net : \A x \in b.changes : x.col # NoColumn => HomeHas(x)'
  BY <1>2, HomeHasStays DEF OwnInv, ColumnsKnown, StampsFromThePast, Change
<1> QED
  BY <1>1, <1>3

\* A version of n's own that comes back to n is accepted only if the file
\* has that very version.
LEMMA OwnAccepted ==
  ASSUME TypeOK, OwnInv, GrownInv, NEW n \in Node, NEW x \in todo[n],
         x.col # NoColumn, x.node = n, Accepts(work[n], x)
  PROVE  \E u \in db[n].versions : Stamp(u) = Stamp(x)
<1> DEFINE d == db[n]
           e == work[n]
<1>0. /\ x.cv \in Nat /\ x.dv \in Nat /\ x.node \in Nat
      /\ d \in Database /\ e \in Database /\ Grown(d, e)
  BY NodeAssumption DEF TypeOK, Change, GrownInv
<1>1. Answers(d, x)
  BY DEF OwnInv, ColumnsKnown, HomeHas
<1> HIDE DEF d, e
<1>2. ~ IsTombstoned(e, x)
  BY DEF Accepts, e
<1>3. CASE \E u \in d.versions : SameKey(u, x) /\ AtLeast(u, x)
  <2>1. PICK u \in d.versions : SameKey(u, x) /\ AtLeast(u, x)
    BY <1>3
  <2>2. PICK w \in e.versions : SameKey(w, u) /\ AtLeast(w, u)
    BY <1>0 DEF Grown, VersionsGrown
  <2>3. SameKey(w, x)
    BY <2>1, <2>2 DEF SameKey
  <2>4. RemoteWins(x, w)
    BY <2>3 DEF Accepts, e
  <2>5. /\ u.cv \in Nat /\ u.dv \in Nat /\ u.node \in Nat
        /\ w.cv \in Nat /\ w.dv \in Nat /\ w.node \in Nat
    BY <1>0, DatabaseNumbers
  <2>6. u.cv = x.cv /\ u.dv = x.dv /\ u.node = x.node
    BY <1>0, <2>1, <2>2, <2>4, <2>5 DEF AtLeast, RemoteWins
  <2> QED
    BY <2>1, <2>6 DEF Stamp, SameKey, d
<1>4. CASE \E t \in d.tombs : t.rec = x.rec /\ NotBefore(t, x)
  <2>1. PICK t \in d.tombs : t.rec = x.rec /\ NotBefore(t, x)
    BY <1>4
  <2>2. PICK u \in e.tombs : u.rec = t.rec /\ NotBefore(u, t)
    BY <1>0 DEF Grown, TombsKept
  <2>3. NotBefore(u, x)
    BY <1>0, <2>1, <2>2, DatabaseNumbers, NotBeforeTransitive
  <2> QED
    BY <1>2, <2>1, <2>2, <2>3 DEF IsTombstoned, Screens, NotBefore
<1> QED
  BY <1>1, <1>3, <1>4 DEF Answers

LEMMA OwnStep ==
  ASSUME TypeOK, TypeOK', ClockDominates, StampsFromThePast, OwnInv, GrownInv,
         [Next]_vars, \A n \in Node : Replaces(db[n], db'[n])
  PROVE  OwnInv'
<1>1. CASE UNCHANGED vars
  BY <1>1 DEF OwnInv, ColumnsKnown, HomeHas, OwnStay, vars
<1>2. CASE Lose
  BY <1>2 DEF Lose, OwnInv, ColumnsKnown, HomeHas, OwnStay
<1>3. ASSUME NEW n \in Node, InsertRow(n) \/ UpdateRow(n) \/ DeleteRow(n)
      PROVE  OwnInv'
  <2>1. PICK rows, pend :
          /\ rows \in SUBSET Row
          /\ WellFormed(pend)
          /\ \A a, b \in rows : a.rec = b.rec => a = b
          /\ Commit(n, rows, pend)
    BY <1>3, InsertRowShape, UpdateRowShape, DeleteRowShape
  <2>2. /\ \A v \in db'[n].versions : v \in db[n].versions \/ v.node = n
        /\ work'[n] = db'[n]
        /\ \A m \in Node \ {n} : db'[m] = db[m] /\ work'[m] = work[m]
        /\ UNCHANGED <<merging, batch, todo, net>>
    BY <2>1, CommitReplaces
  <2>3. \A v \in db'[n].versions : HomeHas(v)'
    <3> TAKE v \in db'[n].versions
    <3>1. CASE v \in db[n].versions
      BY <3>1, AllHomeHasStays
    <3>2. CASE v.node = n
      <4>1. v.cv \in Nat /\ v.dv \in Nat /\ v.node \in Nat
        BY DatabaseNumbers DEF TypeOK
      <4> QED
        BY <3>2, <4>1 DEF HomeHas, Answers, SameKey, AtLeast
    <3> QED
      BY <2>2, <3>1, <3>2
  <2>4. \A m \in Node :
          /\ \A v \in db'[m].versions \cup work'[m].versions : HomeHas(v)'
          /\ OwnStay(m)'
    BY <2>2, <2>3, AllHomeHasStays DEF OwnInv, OwnStay
  <2> QED
    BY <2>2, <2>4, AllHomeHasStays DEF OwnInv, ColumnsKnown
<1>4. ASSUME NEW n \in Node, Send(n)
      PROVE  OwnInv'
  <2>1. PICK m, since, excluded :
          /\ m \in Node
          /\ net' = net \cup {[to |-> m, changes |->
                                GetChangesSince(db[n], since, excluded)]}
          /\ UNCHANGED <<db, merging, work, batch, todo, seen>>
    BY <1>4 DEF Send
  <2>2. \A x \in GetChangesSince(db[n], since, excluded) :
          x.col # NoColumn => HomeHas(x)'
    <3> SUFFICES ASSUME NEW x \in GetChangesSince(db[n], since, excluded),
                        x.col # NoColumn
                 PROVE  HomeHas(x)'
      OBVIOUS
    <3>1. PICK v \in db[n].versions : x = ColumnChange(db[n].rows, v)
      BY DEF GetChangesSince, Fresh, Deletion
    <3>2. /\ x.rec = v.rec /\ x.col = v.col /\ x.cv = v.cv
          /\ x.dv = v.dv /\ x.node = v.node
      BY <3>1 DEF ColumnChange
    <3>3. HomeHas(v)'
      BY AllHomeHasStays
    <3> QED
      BY <3>2, <3>3 DEF HomeHas, Answers, SameKey, AtLeast, NotBefore
  <2>3. \A m1 \in Node : OwnStay(m1)'
    BY <2>1 DEF OwnInv, OwnStay
  <2> QED
    BY <2>1, <2>2, <2>3, AllHomeHasStays DEF OwnInv, ColumnsKnown
<1>5. ASSUME NEW n \in Node, BeginMerge(n)
      PROVE  OwnInv'
  <2>1. PICK b \in net :
          /\ todo' = [todo EXCEPT ![n] = b.changes]
          /\ UNCHANGED <<db, work, net, seen>>
    BY <1>5 DEF BeginMerge
  <2>2. \A m \in Node : OwnStay(m)'
    BY <2>1 DEF OwnInv, OwnStay
  <2> QED
    BY <2>1, <2>2, AllHomeHasStays DEF OwnInv, ColumnsKnown, TypeOK
<1>6. ASSUME NEW n \in Node, MergeColumn(n) \/ MergeDeletion(n)
      PROVE  OwnInv'
  <2>1. PICK x, d : x \in todo[n] /\ MergedTo(work[n], x, d) /\ Merge(n, x, d)
    BY <1>6, MergeShape
  <2>2. /\ work' = [work EXCEPT ![n] = d]
        /\ todo' = [todo EXCEPT ![n] = @ \ {x}]
        /\ UNCHANGED <<db, merging, batch, net, seen>>
    BY <2>1 DEF Merge
  <2>3. work[n] \in Database
    BY DEF TypeOK
  <2>4. \A v \in d.versions :
          \/ v \in work[n].versions
          \/ /\ x.col # NoColumn /\ Accepts(work[n], x)
             /\ v.rec = x.rec /\ v.col = x.col /\ v.cv = x.cv
             /\ v.dv = x.dv /\ v.node = x.node
    BY <2>1, <2>3 DEF MergedTo, ColumnAccepted, DeletionAccepted, Rejected,
                WithVersion, Database
  <2>5. \A v \in d.versions : HomeHas(v)'
    <3> TAKE v \in d.versions
    <3>1. CASE v \in work[n].versions
      BY <3>1, AllHomeHasStays
    <3>2. CASE /\ x.col # NoColumn
               /\ v.rec = x.rec /\ v.col = x.col /\ v.cv = x.cv
               /\ v.dv = x.dv /\ v.node = x.node
      <4>1. HomeHas(x)'
        BY <2>1, <3>2, AllHomeHasStays
      <4> QED
        BY <3>2, <4>1 DEF HomeHas, Answers, SameKey, AtLeast, NotBefore
    <3> QED
      BY <2>4, <3>1, <3>2
  <2>6. \A v \in d.versions :
          v.node = n => \E u \in db[n].versions : Stamp(u) = Stamp(v)
    <3> SUFFICES ASSUME NEW v \in d.versions, v.node = n
                 PROVE  \E u \in db[n].versions : Stamp(u) = Stamp(v)
      OBVIOUS
    <3>1. CASE v \in work[n].versions
      BY <3>1 DEF OwnInv, OwnStay
    <3>2. CASE /\ x.col # NoColumn /\ Accepts(work[n], x)
               /\ v.rec = x.rec /\ v.col = x.col /\ v.cv = x.cv
               /\ v.dv = x.dv /\ v.node = x.node
      <4>1. Stamp(v) = Stamp(x)
        BY <3>2 DEF Stamp
      <4> QED
        BY <2>1, <3>2, <4>1, OwnAccepted
    <3> QED
      BY <2>4, <3>1, <3>2
  <2>7. work'[n] = d /\ \A m \in Node \ {n} : work'[m] = work[m]
    BY <2>2 DEF TypeOK
  <2>8. todo'[n] = todo[n] \ {x} /\ \A m \in Node \ {n} : todo'[m] = todo[m]
    BY <2>2 DEF TypeOK
  <2>9. \A m \in Node : \A v \in db'[m].versions \cup work'[m].versions : HomeHas(v)'
    BY <2>2, <2>5, <2>7, AllHomeHasStays
  <2>10. \A m \in Node : OwnStay(m)'
    BY <2>2, <2>6, <2>7 DEF OwnInv, OwnStay
  <2>11. \A m \in Node : ColumnsKnown(todo[m])'
    BY <2>8, AllHomeHasStays DEF ColumnsKnown
  <2> QED
    BY <2>2, <2>9, <2>10, <2>11, AllHomeHasStays DEF OwnInv, ColumnsKnown
<1>7. ASSUME NEW n \in Node, CommitMerge(n)
      PROVE  OwnInv'
  <2> DEFINE d == [work[n] EXCEPT !.clock = @ + 1]
  <2>1. /\ db' = [db EXCEPT ![n] = d]
        /\ work' = [work EXCEPT ![n] = d]
        /\ UNCHANGED <<todo, net>>
    BY <1>7 DEF CommitMerge
  <2>2. d.versions = work[n].versions
    BY DEF TypeOK, Database
  <2> HIDE DEF d
  <2>3. db'[n] = d /\ work'[n] = d
        /\ \A m \in Node \ {n} : db'[m] = db[m] /\ work'[m] = work[m]
    BY <2>1 DEF TypeOK
  <2>4. \A m \in Node :
          /\ \A v \in db'[m].versions \cup work'[m].versions : HomeHas(v)'
          /\ OwnStay(m)'
    BY <2>2, <2>3, AllHomeHasStays DEF OwnInv, OwnStay
  <2> QED
    BY <2>1, <2>4, AllHomeHasStays DEF OwnInv, ColumnsKnown
<1>8. ASSUME NEW n \in Node, AbortMerge(n)
      PROVE  OwnInv'
  <2>1. /\ work' = [work EXCEPT ![n] = db[n]]
        /\ todo' = [todo EXCEPT ![n] = {}]
        /\ UNCHANGED <<db, net, seen>>
    BY <1>8 DEF AbortMerge
  <2>2. work'[n] = db[n] /\ \A m \in Node \ {n} : work'[m] = work[m]
    BY <2>1 DEF TypeOK
  <2>3. \A m \in Node : OwnStay(m)'
    BY <2>1, <2>2 DEF OwnInv, OwnStay
  <2> QED
    BY <2>1, <2>2, <2>3, AllHomeHasStays DEF OwnInv, ColumnsKnown, TypeOK
<1> QED
  BY <1>1, <1>2, <1>3, <1>4, <1>5, <1>6, <1>7, <1>8 DEF Next, NodeStep

OwnNewsPasses ==
  \A n \in Node : \A v \in Added(n) : v.node = n => v.local > db[n].clock

LEMMA PassStep ==
  ASSUME TypeOK, ClockDominates, OwnInv, [Next]_vars
  PROVE  OwnNewsPasses
<1>1. CASE UNCHANGED db
  BY <1>1 DEF OwnNewsPasses, Added
<1>2. ASSUME NEW n \in Node, InsertRow(n) \/ UpdateRow(n) \/ DeleteRow(n)
      PROVE  OwnNewsPasses
  <2>1. PICK rows, pend :
          /\ rows \in SUBSET Row
          /\ WellFormed(pend)
          /\ \A a, b \in rows : a.rec = b.rec => a = b
          /\ Commit(n, rows, pend)
    BY <1>2, InsertRowShape, UpdateRowShape, DeleteRowShape
  <2>2. /\ \A v \in db'[n].versions :
             v \in db[n].versions \/ (v.node = n /\ v.local > db[n].clock)
        /\ \A m \in Node \ {n} : db'[m] = db[m]
    BY <2>1, CommitReplaces
  <2> QED
    BY <2>2 DEF OwnNewsPasses, Added
<1>3. ASSUME NEW n \in Node, CommitMerge(n)
      PROVE  OwnNewsPasses
  <2>1. db' = [db EXCEPT ![n] = [work[n] EXCEPT !.clock = @ + 1]]
    BY <1>3 DEF CommitMerge
  <2>2. db'[n].versions = work[n].versions /\ \A m \in Node \ {n} : db'[m] = db[m]
    BY <2>1 DEF TypeOK, Database
  <2> QED
    BY <2>2 DEF OwnInv, OwnStay, OwnNewsPasses, Added
<1> QED
  BY <1>1, <1>2, <1>3
  DEF Next, NodeStep, Lose, Send, BeginMerge, MergeColumn, MergeDeletion, Merge,
      AbortMerge, vars

\* Whatever a replica writes itself lies beyond every clock that a peer may
\* have read of it before, and no merge gives a replica a version of its own
\* that it did not have: get_clock() is a cursor for local changes.
THEOREM CursorsCorrect == Spec => OwnWritesPassCursors
<1>1. Init => OwnInv /\ JoinInv /\ GrownInv
  BY DEF Init, OwnInv, ColumnsKnown, OwnStay, EmptyDatabase,
         JoinInv, MergeShapes, Joined, Newest, TombsSeen, Passed, Stamps,
         GrownInv, Grown, TombsKept, VersionsGrown
<1>2. TypeOK /\ ClockDominates /\ StampsFromThePast /\ OwnInv
        /\ JoinInv /\ GrownInv /\ [Next]_vars
      => /\ OwnInv' /\ JoinInv' /\ GrownInv'
         /\ [OwnNewsPasses]_vars
  <2> SUFFICES ASSUME TypeOK, ClockDominates, StampsFromThePast, OwnInv,
                      JoinInv, GrownInv, [Next]_vars
               PROVE  OwnInv' /\ JoinInv' /\ GrownInv' /\ OwnNewsPasses
    OBVIOUS
  <2>1. MergeShapes /\ TypeOK'
    BY TypeStep DEF JoinInv
  <2>2. GrownInv' /\ JoinInv'
    BY <2>1, GrownStep, JoinStep
  <2>3. OwnInv' /\ OwnNewsPasses
    BY <2>1, ReplaceStep, OwnStep, PassStep
  <2> QED
    BY <2>2, <2>3
<1> QED
  BY <1>1, <1>2, TypeCorrect, ClockCorrect, StampsCorrect, PTL
  DEF Spec, OwnWritesPassCursors, OwnNewsPasses

-----------------------------------------------------------------------------
(* A row of a live record has its versions, and versions have their row.   *)

Outlived(d) ==
  \A row \in d.rows, t \in d.tombs : row.rec = t.rec =>
    \E v \in d.versions : v.rec = t.rec /\ ~ NotBefore(t, v)

RowsFit(d) == (\A r \in Record : Tracked(d, r)) /\ Outlived(d)

RowsInv == \A n \in Node : RowsFit(db[n]) /\ RowsFit(work[n])

LEMMA MergedRows ==
  ASSUME NEW d \in Database, NEW x \in Change, Texts({x}), NEW e,
         MergedTo(d, x, e), RowsFit(d)
  PROVE  RowsFit(e)
<1>0. /\ x.rec \in Record /\ Outlived(d)
      /\ \A r \in Record : Tracked(e, r)
  BY MergedTracked DEF Change, RowsFit
<1>1. CASE x.col # NoColumn /\ Accepts(d, x) /\ e = ColumnAccepted(d, x)
  <2> DEFINE y == [rec |-> x.rec, col |-> x.col, cv |-> x.cv, dv |-> x.dv,
                   node |-> x.node, local |-> Later(d.clock, x.dv)]
  <2>1. /\ e.tombs = d.tombs
        /\ e.versions = {v \in d.versions : ~ SameKey(v, x)} \cup {y}
        /\ e.rows = ApplyColumn(d.rows, x)
    BY <1>1 DEF ColumnAccepted, WithVersion
  <2>2. y.rec = x.rec /\ y.dv = x.dv /\ y.node = x.node
    OBVIOUS
  <2> HIDE DEF y
  <2>3. \A r \in Record : (\E row \in e.rows : row.rec = r)
                            <=> (r = x.rec \/ \E row \in d.rows : row.rec = r)
    BY <1>1, <2>1, ApplyColumnRows DEF Texts
  <2> SUFFICES ASSUME NEW row \in e.rows, NEW t \in e.tombs, row.rec = t.rec
               PROVE  \E v \in e.versions : v.rec = t.rec /\ ~ NotBefore(t, v)
    BY <1>0 DEF Outlived, RowsFit
  <2>4. CASE t.rec = x.rec
    <3>1. ~ Screens(t, x)
      BY <1>1, <2>1, <2>4 DEF Accepts, IsTombstoned
    <3>2. ~ NotBefore(t, y)
      BY <2>2, <3>1 DEF Screens, NotBefore
    <3> QED
      BY <2>1, <2>2, <2>4, <3>2
  <2>5. CASE t.rec # x.rec
    <3>1. t.rec \in Record
      BY <2>1 DEF Database, TombRow
    <3>2. \E w \in d.rows : w.rec = t.rec
      BY <2>3, <2>5, <3>1
    <3>3. PICK v \in d.versions : v.rec = t.rec /\ ~ NotBefore(t, v)
      BY <1>0, <2>1, <3>2 DEF Outlived
    <3> QED
      BY <2>1, <2>5, <3>3 DEF SameKey
  <2> QED
    BY <2>4, <2>5
<1>2. CASE ~ IsTombstoned(d, x) /\ e = DeletionAccepted(d, x)
  <2> DEFINE y == [rec |-> x.rec, dv |-> x.dv, node |-> x.node,
                   local |-> Later(d.clock, x.dv)]
  <2>1. /\ e.versions = d.versions
        /\ e.rows = {row \in d.rows : row.rec # x.rec}
        /\ e.tombs = {t \in d.tombs : t.rec # x.rec} \cup {y}
    BY <1>2 DEF DeletionAccepted, WithTombstone, RowsBut
  <2>2. y.rec = x.rec
    OBVIOUS
  <2> HIDE DEF y
  <2> QED
    BY <1>0, <2>1, <2>2 DEF Outlived, RowsFit
<1>3. CASE e = Rejected(d, x)
  <2>1. e.rows = d.rows /\ e.versions = d.versions /\ e.tombs = d.tombs
    BY <1>3 DEF Rejected, Database
  <2> QED
    BY <1>0, <2>1 DEF Outlived, RowsFit
<1> QED
  BY <1>1, <1>2, <1>3 DEF MergedTo

LEMMA ProcessedRows ==
  ASSUME NEW d, NEW f, NEW r \in Record, NEW rows, NEW pend, NEW n,
         Writes(d, r, rows, pend),
         f.rows = rows, f.versions = d.versions, f.tombs = d.tombs,
         NEW e, e = ProcessPending(f, n, pend), RowsFit(d)
  PROVE  RowsFit(e)
<1>1. /\ \A row : row.rec # r => (row \in e.rows <=> row \in d.rows)
      /\ \A v : v.rec # r => (v \in e.versions <=> v \in d.versions)
      /\ \A t : t.rec # r => (t \in e.tombs <=> t \in d.tombs)
      /\ \/ /\ \E row \in e.rows : row.rec = r
            /\ \E v \in e.versions : v.rec = r
            /\ \A t \in e.tombs : t.rec # r
         \/ /\ \A row \in e.rows : row.rec # r
            /\ Entombed(e, r)
  BY ProcessedRecords
<1> SUFFICES ASSUME NEW row \in e.rows, NEW t \in e.tombs, row.rec = t.rec
             PROVE  \E v \in e.versions : v.rec = t.rec /\ ~ NotBefore(t, v)
  BY ProcessedTracked DEF Outlived, RowsFit
<1>2. row.rec # r
  BY <1>1
<1>3. row \in d.rows /\ t \in d.tombs
  BY <1>1, <1>2
<1>4. PICK v \in d.versions : v.rec = t.rec /\ ~ NotBefore(t, v)
  BY <1>3 DEF Outlived, RowsFit
<1> QED
  BY <1>1, <1>2, <1>4

LEMMA StatementWrites ==
  ASSUME TypeOK, NEW n \in Node, InsertRow(n) \/ UpdateRow(n) \/ DeleteRow(n)
  PROVE  \E r \in Record : \E rows, pend :
           Writes(db[n], r, rows, pend) /\ Commit(n, rows, pend)
<1>0. /\ db[n].rows \in SUBSET Row
      /\ \A a, b \in db[n].rows : a.rec = b.rec => a = b
  BY DEF TypeOK, Database, KeysUnique
<1>1. CASE InsertRow(n)
  <2>1. PICK r \in Record, cells \in [Column -> UserCell] :
          Commit(n, RowsBut(db[n].rows, r) \cup {[rec |-> r, cells |-> cells]},
                 [op : {"INSERT"}, rec : {r}, col : Column])
    BY <1>1 DEF InsertRow
  <2>2. [op : {"INSERT"}, rec : {r}, col : Column] # {}
    <3>1. PICK c \in Column : TRUE
      BY TableAssumption
    <3>2. [op |-> "INSERT", rec |-> r, col |-> c]
            \in [op : {"INSERT"}, rec : {r}, col : Column]
      OBVIOUS
    <3> QED
      BY <3>2
  <2> DEFINE new == [rec |-> r, cells |-> cells]
             pend == [op : {"INSERT"}, rec : {r}, col : Column]
  <2>3. new.rec = r
    OBVIOUS
  <2>4. \A p \in pend : p.rec = r /\ p.op # "DELETE"
    OBVIOUS
  <2>5. pend # {} /\ \A c \in Column : \E p \in pend : p.col = c
    <3>1. \A c \in Column : [op |-> "INSERT", rec |-> r, col |-> c] \in pend
      OBVIOUS
    <3> QED
      BY <2>2, <3>1
  <2>6. Commit(n, RowsBut(db[n].rows, r) \cup {new}, pend)
    BY <2>1
  <2> HIDE DEF new, pend
  <2>7. Writes(db[n], r, RowsBut(db[n].rows, r) \cup {new}, pend)
    BY <1>0, <2>3, <2>4, <2>5 DEF Writes, RowsBut
  <2> QED
    BY <2>6, <2>7
<1>2. CASE UpdateRow(n)
  <2>1. PICK row \in db[n].rows, cells \in [Column -> Cell] :
          LET changed == {c \in Column : cells[c] # row.cells[c]}
          IN  /\ changed # {}
              /\ Commit(n, RowsBut(db[n].rows, row.rec)
                             \cup {[rec |-> row.rec, cells |-> cells]},
                        [op : {"UPDATE"}, rec : {row.rec}, col : changed])
    BY <1>2 DEF UpdateRow
  <2> DEFINE changed == {c \in Column : cells[c] # row.cells[c]}
             pend == [op : {"UPDATE"}, rec : {row.rec}, col : changed]
             new == [rec |-> row.rec, cells |-> cells]
  <2>2. PICK c \in changed : TRUE
    BY <2>1
  <2>3. Commit(n, RowsBut(db[n].rows, row.rec) \cup {new}, pend)
    BY <2>1
  <2>4. \A k \in Column : k \notin changed => row.cells[k] = new.cells[k]
    OBVIOUS
  <2> HIDE DEF changed
  <2>5. \A k \in changed : [op |-> "UPDATE", rec |-> row.rec, col |-> k] \in pend
    OBVIOUS
  <2>6. \A p \in pend : p.rec = row.rec /\ p.op # "DELETE"
    OBVIOUS
  <2>7. new.rec = row.rec
    OBVIOUS
  <2> HIDE DEF new, pend
  <2>8. pend # {} /\ \A k \in changed : \E p \in pend : p.col = k
    BY <2>2, <2>5
  <2>9. Writes(db[n], row.rec, RowsBut(db[n].rows, row.rec) \cup {new}, pend)
    BY <1>0, <2>4, <2>6, <2>7, <2>8 DEF Writes, RowsBut
  <2>10. row.rec \in Record
    BY <1>0 DEF Row
  <2> QED
    BY <2>3, <2>9, <2>10
<1>3. CASE DeleteRow(n)
  <2>1. PICK r \in Record :
          Commit(n, RowsBut(db[n].rows, r),
                 [op : {"DELETE"}, rec : {r}, col : {NoColumn}])
    BY <1>3 DEF DeleteRow
  <2>2. [op |-> "DELETE", rec |-> r, col |-> NoColumn]
          \in [op : {"DELETE"}, rec : {r}, col : {NoColumn}]
    OBVIOUS
  <2>3. Writes(db[n], r, RowsBut(db[n].rows, r),
               [op : {"DELETE"}, rec : {r}, col : {NoColumn}])
    BY <1>0, <2>2 DEF Writes, RowsBut
  <2> QED
    BY <2>1, <2>3
<1> QED
  BY <1>1, <1>2, <1>3

\* Whatever is sent, and what is left of it to merge, carries its values.
AllTexts == (\A n \in Node : Texts(todo[n])) /\ (\A b \in net : Texts(b.changes))

LEMMA TextsStep ==
  ASSUME TypeOK, AllTexts, [Next]_vars
  PROVE  AllTexts'
<1>1. CASE UNCHANGED <<todo, net>>
  BY <1>1 DEF AllTexts
<1>2. CASE Lose
  BY <1>2 DEF Lose, AllTexts
<1>3. ASSUME NEW n \in Node, Send(n)
      PROVE  AllTexts'
  <2>1. PICK m, since, excluded :
          /\ net' = net \cup {[to |-> m, changes |->
                                GetChangesSince(db[n], since, excluded)]}
          /\ UNCHANGED todo
    BY <1>3 DEF Send
  <2>2. Texts(GetChangesSince(db[n], since, excluded))
    BY ExportTells DEF TypeOK
  <2>3. \A b \in net' : b \in net
                        \/ b.changes = GetChangesSince(db[n], since, excluded)
    BY <2>1
  <2>4. \A b \in net' : Texts(b.changes)
    BY <2>2, <2>3 DEF AllTexts
  <2> QED
    BY <2>1, <2>4 DEF AllTexts
<1>4. ASSUME NEW n \in Node, BeginMerge(n)
      PROVE  AllTexts'
  <2>1. PICK b \in net : todo' = [todo EXCEPT ![n] = b.changes] /\ UNCHANGED net
    BY <1>4 DEF BeginMerge
  <2>2. todo'[n] = b.changes /\ \A m \in Node \ {n} : todo'[m] = todo[m]
    BY <2>1 DEF TypeOK
  <2> QED
    BY <2>1, <2>2 DEF AllTexts
<1>5. ASSUME NEW n \in Node, NEW d, NEW x, Merge(n, x, d)
      PROVE  AllTexts'
  <2>1. todo'[n] = todo[n] \ {x} /\ \A m \in Node \ {n} : todo'[m] = todo[m]
    BY <1>5 DEF Merge, TypeOK
  <2>2. Texts(todo'[n])
    BY <2>1 DEF AllTexts, Texts
  <2> QED
    BY <1>5, <2>1, <2>2 DEF Merge, AllTexts
<1>6. ASSUME NEW n \in Node, AbortMerge(n)
      PROVE  AllTexts'
  <2>1. todo'[n] = {} /\ (\A m \in Node \ {n} : todo'[m] = todo[m]) /\ net' = net
    BY <1>6 DEF AbortMerge, TypeOK
  <2>2. Texts({})
    BY DEF Texts
  <2> QED
    BY <2>1, <2>2 DEF AllTexts
<1>7. ASSUME NEW n \in Node, MergeColumn(n) \/ MergeDeletion(n)
      PROVE  AllTexts'
  BY <1>5, <1>7, MergeShape
<1>8. ASSUME NEW n \in Node, InsertRow(n) \/ UpdateRow(n) \/ DeleteRow(n)
      PROVE  UNCHANGED <<todo, net>>
  BY <1>8, StatementWrites DEF Commit
<1>9. ASSUME NEW n \in Node, CommitMerge(n)
      PROVE  UNCHANGED <<todo, net>>
  BY <1>9 DEF CommitMerge
<1> QED
  BY <1>1, <1>2, <1>3, <1>4, <1>6, <1>7, <1>8, <1>9 DEF Next, NodeStep, vars

LEMMA RowsStep ==
  ASSUME TypeOK, AllTexts, RowsInv, [Next]_vars
  PROVE  RowsInv'
<1>1. CASE UNCHANGED <<db, work>>
  BY <1>1 DEF RowsInv, RowsFit, Tracked, Outlived, Entombed
<1>2. ASSUME NEW n \in Node, InsertRow(n) \/ UpdateRow(n) \/ DeleteRow(n)
      PROVE  RowsInv'
  <2>0. PICK r \in Record : \E rows, pend :
          Writes(db[n], r, rows, pend) /\ Commit(n, rows, pend)
    BY <1>2, StatementWrites
  <2>1. PICK rows, pend :
          Writes(db[n], r, rows, pend) /\ Commit(n, rows, pend)
    BY <2>0
  <2> DEFINE f == [db[n] EXCEPT !.rows = rows]
             d == ProcessPending(f, n, pend)
  <2>2. f.rows = rows /\ f.versions = db[n].versions /\ f.tombs = db[n].tombs
    BY DEF TypeOK, Database
  <2>3. db' = [db EXCEPT ![n] = d] /\ work' = [work EXCEPT ![n] = d]
    BY <2>1 DEF Commit
  <2> HIDE DEF f
  <2>4. RowsFit(d)
    BY <2>1, <2>2, ProcessedRows DEF RowsInv
  <2> HIDE DEF d
  <2>5. db'[n] = d /\ work'[n] = d
        /\ \A m \in Node \ {n} : db'[m] = db[m] /\ work'[m] = work[m]
    BY <2>3 DEF TypeOK
  <2> QED
    BY <2>4, <2>5 DEF RowsInv, RowsFit, Tracked, Outlived, Entombed
<1>3. ASSUME NEW n \in Node, MergeColumn(n) \/ MergeDeletion(n)
      PROVE  RowsInv'
  <2>1. PICK x, d : x \in todo[n] /\ MergedTo(work[n], x, d) /\ Merge(n, x, d)
    BY <1>3, MergeShape
  <2>2. x \in Change /\ Texts({x}) /\ work[n] \in Database
    BY <2>1 DEF TypeOK, AllTexts, Texts
  <2>3. RowsFit(d)
    BY <2>1, <2>2, MergedRows DEF RowsInv
  <2>4. work' = [work EXCEPT ![n] = d] /\ db' = db
    BY <2>1 DEF Merge
  <2>5. work'[n] = d /\ \A m \in Node \ {n} : work'[m] = work[m]
    BY <2>4 DEF TypeOK
  <2> QED
    BY <2>3, <2>4, <2>5 DEF RowsInv, RowsFit, Tracked, Outlived, Entombed
<1>4. ASSUME NEW n \in Node, CommitMerge(n)
      PROVE  RowsInv'
  <2> DEFINE d == [work[n] EXCEPT !.clock = @ + 1]
  <2>1. db' = [db EXCEPT ![n] = d] /\ work' = [work EXCEPT ![n] = d]
    BY <1>4 DEF CommitMerge
  <2>2. d.rows = work[n].rows /\ d.versions = work[n].versions
        /\ d.tombs = work[n].tombs
    BY DEF TypeOK, Database
  <2> HIDE DEF d
  <2>3. RowsFit(d)
    BY <2>2 DEF RowsInv, RowsFit, Tracked, Outlived, Entombed
  <2>4. db'[n] = d /\ work'[n] = d
        /\ \A m \in Node \ {n} : db'[m] = db[m] /\ work'[m] = work[m]
    BY <2>1 DEF TypeOK
  <2> QED
    BY <2>3, <2>4 DEF RowsInv, RowsFit, Tracked, Outlived, Entombed
<1>5. ASSUME NEW n \in Node, AbortMerge(n)
      PROVE  RowsInv'
  <2>1. work' = [work EXCEPT ![n] = db[n]] /\ db' = db
    BY <1>5 DEF AbortMerge
  <2>2. work'[n] = db[n] /\ \A m \in Node \ {n} : work'[m] = work[m]
    BY <2>1 DEF TypeOK
  <2> QED
    BY <2>1, <2>2 DEF RowsInv, RowsFit, Tracked, Outlived, Entombed
<1> QED
  BY <1>1, <1>2, <1>3, <1>4, <1>5
  DEF Next, NodeStep, Lose, Send, BeginMerge, vars

LEMMA RowsInvariant == Spec => [](RowsInv /\ AllTexts)
<1>1. Init => RowsInv /\ AllTexts
  BY DEF Init, RowsInv, RowsFit, Tracked, Outlived, AllTexts, Texts, EmptyDatabase
<1>2. TypeOK /\ RowsInv /\ AllTexts /\ [Next]_vars => (RowsInv /\ AllTexts)'
  BY RowsStep, TextsStep
<1> QED
  BY <1>1, <1>2, TypeCorrect, PTL DEF Spec

\* In every file, whatever was written, merged and rolled back, a record
\* without a tombstone has a row exactly if it has versions.
THEOREM RowsCorrect == Spec => []RowsTracked
<1>1. RowsInv => RowsTracked
  BY DEF RowsInv, RowsFit, Tracked, Entombed, RowsTracked, HasTombstone
<1> QED
  BY <1>1, RowsInvariant, PTL

\* A row coexists with a tombstone of its record only next to a version that
\* came after the tombstone.
THEOREM OutlivingCorrect == Spec => []RowOutlivesTombstone
<1>1. RowsInv => RowOutlivesTombstone
  BY DEF RowsInv, RowsFit, Outlived, RowOutlivesTombstone
<1> QED
  BY <1>1, RowsInvariant, PTL

-----------------------------------------------------------------------------
(* What replicas, open merges and batches say of the values of versions is *)
(* collected as a set of statements; no step but a transaction of the user *)
(* adds one, and that one is about a version that did not exist before.    *)

Said ==
  UNION ({Shown(db[n]) : n \in Node} \cup {Shown(work[n]) : n \in Node}
           \cup {Told(todo[n]) : n \in Node} \cup {Told(b.changes) : b \in net})

\* Nobody says two things of one version.
Consistent ==
  \A f, g \in Said : f.stamp = g.stamp /\ Undeleted(f.stamp.rec) => f.val = g.val

\* A deletion on its way was committed by somebody.
Reported(changes) ==
  \A x \in changes : x.col = NoColumn => ~ Undeleted(x.rec)

DeletionsCommitted ==
  /\ \A n \in Node : Reported(todo[n])
  /\ \A n \in Node : \A t \in work[n].tombs : ~ Undeleted(t.rec)
  /\ \A b \in net : Reported(b.changes)

ValuesInv == Consistent /\ DeletionsCommitted

-----------------------------------------------------------------------------
LEMMA Sayings ==
  ASSUME NEW f
  PROVE  /\ f \in Said <=> \/ \E n \in Node : \/ f \in Shown(db[n])
                                              \/ f \in Shown(work[n])
                                              \/ f \in Told(todo[n])
                           \/ \E b \in net : f \in Told(b.changes)
         /\ f \in Said' <=> \/ \E n \in Node : \/ f \in Shown(db[n])'
                                               \/ f \in Shown(work[n])'
                                               \/ f \in Told(todo[n])'
                            \/ \E b \in net' : f \in Told(b.changes)
BY DEF Said

LEMMA DeletedStays ==
  ASSUME \A n \in Node : TombsKept(db[n], db'[n]), NEW r, Undeleted(r)'
  PROVE  Undeleted(r)
BY DEF TombsKept, Undeleted, HasTombstone

LEMMA NothingNew ==
  ASSUME Consistent, \A n \in Node : TombsKept(db[n], db'[n]),
         \A f \in Said' : Undeleted(f.stamp.rec)' => f \in Said
  PROVE  Consistent'
BY DeletedStays DEF Consistent

\* A stamp of n that anybody speaks of is not beyond n's clock.
LEMMA SaidIsPast ==
  ASSUME TypeOK, StampsFromThePast, NEW f \in Said
  PROVE  f.stamp.node \in Node /\ f.stamp.dv <= db[f.stamp.node].clock
<1>1. ASSUME NEW x, x.node \in Node, Past(x), f.stamp = Stamp(x)
      PROVE  f.stamp.node \in Node /\ f.stamp.dv <= db[f.stamp.node].clock
  BY <1>1 DEF Past, Stamp
<1>2. ASSUME NEW d \in Database, TablesPast(d), f \in Shown(d)
      PROVE  f.stamp.node \in Node /\ f.stamp.dv <= db[f.stamp.node].clock
  <2>1. PICK v \in d.versions : f.stamp = Stamp(v)
    BY <1>2 DEF Shown
  <2> QED
    BY <1>1, <1>2, <2>1 DEF TablesPast, Database, VersionRow
<1>3. ASSUME NEW changes \in SUBSET Change, \A x \in changes : Past(x),
             f \in Told(changes)
      PROVE  f.stamp.node \in Node /\ f.stamp.dv <= db[f.stamp.node].clock
  <2>1. PICK x \in changes : f.stamp = Stamp(x)
    BY <1>3 DEF Told
  <2> QED
    BY <1>1, <1>3, <2>1 DEF Change
<1> QED
  BY <1>2, <1>3, Sayings DEF StampsFromThePast, TypeOK, Batch

LEMMA CommitSays ==
  ASSUME TypeOK, TypeOK', StampsFromThePast, Consistent,
         \A m \in Node : TombsKept(db[m], db'[m]),
         NEW n \in Node, InsertRow(n) \/ UpdateRow(n) \/ DeleteRow(n)
  PROVE  Consistent'
<1>1. PICK r \in Record : \E rows, pend :
        Writes(db[n], r, rows, pend) /\ Commit(n, rows, pend)
  BY StatementWrites
<1>2. PICK rows, pend : Writes(db[n], r, rows, pend) /\ Commit(n, rows, pend)
  BY <1>1
<1> DEFINE g == [db[n] EXCEPT !.rows = rows]
           e == ProcessPending(g, n, pend)
<1>3. g.rows = rows /\ g.versions = db[n].versions /\ g.clock = db[n].clock
  BY DEF TypeOK, Database
<1>4. /\ db' = [db EXCEPT ![n] = e] /\ work' = [work EXCEPT ![n] = e]
      /\ UNCHANGED <<todo, net>>
  BY <1>2 DEF Commit
<1> HIDE DEF g
<1> DEFINE New(f) == f.stamp.dv = db[n].clock + 1 /\ f.stamp.node = n
<1>5. \A f \in Shown(e) : ~ Entombed(e, f.stamp.rec) => f \in Shown(db[n]) \/ New(f)
  BY <1>2, <1>3, ProcessedSays DEF TypeOK
<1>6. db'[n] = e /\ work'[n] = e /\ KeysUnique(e)
      /\ \A m \in Node \ {n} : db'[m] = db[m] /\ work'[m] = work[m]
  BY <1>4 DEF TypeOK
<1> HIDE DEF e
<1>7. \A f \in Said' : Undeleted(f.stamp.rec)' =>
        f \in Said \/ (New(f) /\ f \in Shown(e))
  <2> SUFFICES ASSUME NEW f \in Said', Undeleted(f.stamp.rec)'
               PROVE  f \in Said \/ (New(f) /\ f \in Shown(e))
    OBVIOUS
  <2>1. ~ Entombed(e, f.stamp.rec)
    BY <1>6 DEF Undeleted, HasTombstone, Entombed
  <2>2. CASE f \in Shown(e)
    BY <1>5, <2>1, <2>2, Sayings
  <2>3. CASE f \notin Shown(e)
    BY <1>4, <1>6, <2>3, Sayings
  <2> QED
    BY <2>2, <2>3
<1>8. \A f \in Said : ~ New(f)
  BY SaidIsPast DEF TypeOK, Database
<1>9. \A f, h \in Shown(e) : f.stamp = h.stamp => f.val = h.val
  <2> SUFFICES ASSUME NEW f \in Shown(e), NEW h \in Shown(e), f.stamp = h.stamp
               PROVE  f.val = h.val
    OBVIOUS
  <2>1. PICK v \in e.versions : f = [stamp |-> Stamp(v), val |-> WireValue(e.rows, v)]
    BY DEF Shown
  <2>2. PICK u \in e.versions : h = [stamp |-> Stamp(u), val |-> WireValue(e.rows, u)]
    BY DEF Shown
  <2>3. v.rec = u.rec /\ v.col = u.col
    BY <2>1, <2>2 DEF Stamp
  <2>4. v = u
    BY <1>6, <2>3 DEF KeysUnique
  <2> QED
    BY <2>1, <2>2, <2>4
<1>10. \A f, h \in Said' : f.stamp = h.stamp /\ Undeleted(f.stamp.rec)' => f.val = h.val
  <2> SUFFICES ASSUME NEW f \in Said', NEW h \in Said', f.stamp = h.stamp,
                      Undeleted(f.stamp.rec)'
               PROVE  f.val = h.val
    OBVIOUS
  <2>1. CASE New(f)
    <3>1. New(h)
      BY <2>1
    <3> QED
      BY <1>7, <1>8, <1>9, <2>1, <3>1
  <2>2. CASE ~ New(f)
    <3>1. ~ New(h)
      BY <2>2
    <3>2. f \in Said /\ h \in Said /\ Undeleted(f.stamp.rec)
      BY <1>7, <2>2, <3>1, DeletedStays
    <3> QED
      BY <3>2 DEF Consistent
  <2> QED
    BY <2>1, <2>2
<1> QED
  BY <1>10 DEF Consistent

LEMMA MergeSays ==
  ASSUME TypeOK, TypeOK', RowsInv, AllTexts, Consistent, DeletionsCommitted',
         \A m \in Node : TombsKept(db[m], db'[m]),
         NEW n \in Node, MergeColumn(n) \/ MergeDeletion(n)
  PROVE  Consistent'
<1>1. PICK x, d : x \in todo[n] /\ MergedTo(work[n], x, d) /\ Merge(n, x, d)
  BY MergeShape
<1>2. /\ work' = [work EXCEPT ![n] = d]
      /\ todo' = [todo EXCEPT ![n] = @ \ {x}]
      /\ UNCHANGED <<db, net>>
  BY <1>1 DEF Merge
<1>3. /\ work'[n] = d /\ todo'[n] = todo[n] \ {x}
      /\ KeysUnique(d) /\ d \in Database
      /\ \A m \in Node \ {n} : work'[m] = work[m] /\ todo'[m] = todo[m]
  BY <1>2 DEF TypeOK
<1>4. x \in Change /\ Texts({x}) /\ work[n] \in Database /\ KeysUnique(work[n])
      /\ \A r \in Record : Tracked(work[n], r)
  BY <1>1 DEF TypeOK, AllTexts, Texts, RowsInv, RowsFit
<1>5. \A f \in Shown(d) : ~ Entombed(d, f.stamp.rec)
                            => f \in Shown(work[n]) \cup Told({x})
  <2>1. \A f \in Shown(d) : f.stamp.rec \in Record
    BY <1>3 DEF Shown, Stamp, Database, VersionRow
  <2> QED
    BY <1>1, <1>3, <1>4, <2>1, MergedSays
<1>6. Told({x}) \subseteq Told(todo[n]) /\ Told(todo[n] \ {x}) \subseteq Told(todo[n])
  BY <1>1 DEF Told
<1>7. \A f \in Said' : Undeleted(f.stamp.rec)' => f \in Said
  <2> SUFFICES ASSUME NEW f \in Said', Undeleted(f.stamp.rec)'
               PROVE  f \in Said
    OBVIOUS
  <2>1. CASE f \in Shown(d)
    <3>1. ~ Entombed(d, f.stamp.rec)
      BY <1>3 DEF DeletionsCommitted, Entombed
    <3> QED
      BY <1>5, <1>6, <2>1, <3>1, Sayings
  <2>2. CASE f \notin Shown(d)
    BY <1>2, <1>3, <1>6, <2>2, Sayings
  <2> QED
    BY <2>1, <2>2
<1> QED
  BY <1>7, NothingNew

\* The steps that carry what is said from one place to another.
LEMMA CarrySays ==
  ASSUME TypeOK, Consistent, \A m \in Node : TombsKept(db[m], db'[m]),
         \/ UNCHANGED vars \/ Lose
         \/ \E n \in Node : \/ Send(n) \/ BeginMerge(n)
                            \/ CommitMerge(n) \/ AbortMerge(n)
  PROVE  Consistent'
<1>1. CASE UNCHANGED vars
  BY <1>1 DEF vars, Consistent, Said, Undeleted, HasTombstone
<1>2. CASE Lose
  <2>1. \A f \in Said' : f \in Said
    BY <1>2, Sayings DEF Lose
  <2> QED
    BY <2>1, NothingNew
<1>3. ASSUME NEW n \in Node, Send(n)
      PROVE  Consistent'
  <2>1. PICK m, since, excluded :
          /\ net' = net \cup {[to |-> m, changes |->
                                GetChangesSince(db[n], since, excluded)]}
          /\ UNCHANGED <<db, work, todo>>
    BY <1>3 DEF Send
  <2>2. Told(GetChangesSince(db[n], since, excluded)) \subseteq Shown(db[n])
    BY ExportTells DEF TypeOK
  <2>3. \A b \in net' : b \in net
                        \/ b.changes = GetChangesSince(db[n], since, excluded)
    BY <2>1
  <2>4. \A f \in Said' : f \in Said
    BY <2>1, <2>2, <2>3, Sayings
  <2> QED
    BY <2>4, NothingNew
<1>4. ASSUME NEW n \in Node, BeginMerge(n)
      PROVE  Consistent'
  <2>1. PICK b \in net : /\ todo' = [todo EXCEPT ![n] = b.changes]
                         /\ UNCHANGED <<db, work, net>>
    BY <1>4 DEF BeginMerge
  <2>2. todo'[n] = b.changes /\ \A m \in Node \ {n} : todo'[m] = todo[m]
    BY <2>1 DEF TypeOK
  <2>3. \A f \in Said' : f \in Said
    BY <2>1, <2>2, Sayings
  <2> QED
    BY <2>3, NothingNew
<1>5. ASSUME NEW n \in Node, CommitMerge(n)
      PROVE  Consistent'
  <2> DEFINE d == [work[n] EXCEPT !.clock = @ + 1]
  <2>1. /\ db' = [db EXCEPT ![n] = d] /\ work' = [work EXCEPT ![n] = d]
        /\ UNCHANGED <<todo, net>>
    BY <1>5 DEF CommitMerge
  <2>2. d.rows = work[n].rows /\ d.versions = work[n].versions
    BY DEF TypeOK, Database
  <2> HIDE DEF d
  <2>3. Shown(d) = Shown(work[n])
    BY <2>2 DEF Shown
  <2>4. db'[n] = d /\ work'[n] = d
        /\ \A m \in Node \ {n} : db'[m] = db[m] /\ work'[m] = work[m]
    BY <2>1 DEF TypeOK
  <2>5. \A f \in Said' : f \in Said
    BY <2>1, <2>3, <2>4, Sayings
  <2> QED
    BY <2>5, NothingNew
<1>6. ASSUME NEW n \in Node, AbortMerge(n)
      PROVE  Consistent'
  <2>1. /\ work' = [work EXCEPT ![n] = db[n]] /\ todo' = [todo EXCEPT ![n] = {}]
        /\ UNCHANGED <<db, net>>
    BY <1>6 DEF AbortMerge
  <2>2. /\ work'[n] = db[n] /\ todo'[n] = {}
        /\ \A m \in Node \ {n} : work'[m] = work[m] /\ todo'[m] = todo[m]
    BY <2>1 DEF TypeOK
  <2>3. Told({}) = {}
    BY DEF Told
  <2>4. \A f \in Said' : f \in Said
    BY <2>1, <2>2, <2>3, Sayings
  <2> QED
    BY <2>4, NothingNew
<1> QED
  BY <1>1, <1>2, <1>3, <1>4, <1>5, <1>6

LEMMA CommittedStep ==
  ASSUME TypeOK, TypeOK', DeletionsCommitted, MergeShapes,
         \A m \in Node : TombsKept(db[m], db'[m]), [Next]_vars
  PROVE  DeletionsCommitted'
<1>0. \A r : ~ Undeleted(r) => ~ Undeleted(r)'
  BY DeletedStays
<1>1. /\ \A m \in Node : \A t \in db'[m].tombs : ~ Undeleted(t.rec)'
      /\ \A m \in Node : \A t \in db[m].tombs : ~ Undeleted(t.rec)'
      /\ \A m \in Node : \A t \in work[m].tombs : ~ Undeleted(t.rec)'
      /\ \A m \in Node : \A x \in todo[m] : x.col = NoColumn => ~ Undeleted(x.rec)'
      /\ \A b \in net : \A x \in b.changes : x.col = NoColumn => ~ Undeleted(x.rec)'
  <2>1. \A m \in Node : \A t \in db'[m].tombs : ~ Undeleted(t.rec)'
    BY DEF Undeleted, HasTombstone
  <2>2. \A m \in Node : \A t \in db[m].tombs : ~ Undeleted(t.rec)
    BY DEF Undeleted, HasTombstone
  <2> QED
    BY <1>0, <2>1, <2>2 DEF DeletionsCommitted, Reported
<1>2. CASE UNCHANGED <<work, todo, net>>
  BY <1>1, <1>2 DEF DeletionsCommitted, Reported
<1>3. CASE Lose
  BY <1>1, <1>3 DEF Lose, DeletionsCommitted, Reported
<1>4. ASSUME NEW n \in Node, InsertRow(n) \/ UpdateRow(n) \/ DeleteRow(n)
      PROVE  DeletionsCommitted'
  <2>1. PICK rows, pend : Commit(n, rows, pend)
    BY <1>4, StatementWrites
  <2> DEFINE e == ProcessPending([db[n] EXCEPT !.rows = rows], n, pend)
  <2>2. /\ db' = [db EXCEPT ![n] = e] /\ work' = [work EXCEPT ![n] = e]
        /\ UNCHANGED <<todo, net>>
    BY <2>1 DEF Commit
  <2> HIDE DEF e
  <2>3. db'[n] = e /\ work'[n] = e /\ \A m \in Node \ {n} : work'[m] = work[m]
    BY <2>2 DEF TypeOK
  <2>4. \A m \in Node : \A t \in work'[m].tombs : ~ Undeleted(t.rec)'
    BY <1>1, <2>3
  <2> QED
    BY <1>1, <2>2, <2>4 DEF DeletionsCommitted, Reported
<1>5. ASSUME NEW n \in Node, Send(n)
      PROVE  DeletionsCommitted'
  <2>1. PICK m, since, excluded :
          /\ net' = net \cup {[to |-> m, changes |->
                                GetChangesSince(db[n], since, excluded)]}
          /\ UNCHANGED <<db, work, todo>>
    BY <1>5 DEF Send
  <2>2. \A x \in GetChangesSince(db[n], since, excluded) :
          x.col = NoColumn => \E t \in db[n].tombs : t.rec = x.rec
    BY ExportTells DEF TypeOK, Entombed
  <2>3. \A b \in net' : b \in net
                        \/ b.changes = GetChangesSince(db[n], since, excluded)
    BY <2>1
  <2>4. \A b \in net' : \A x \in b.changes : x.col = NoColumn => ~ Undeleted(x.rec)'
    BY <1>1, <2>2, <2>3
  <2> QED
    BY <1>1, <2>1, <2>4 DEF DeletionsCommitted, Reported
<1>6. ASSUME NEW n \in Node, BeginMerge(n)
      PROVE  DeletionsCommitted'
  <2>1. PICK b \in net : /\ todo' = [todo EXCEPT ![n] = b.changes]
                         /\ UNCHANGED <<db, work, net>>
    BY <1>6 DEF BeginMerge
  <2>2. todo'[n] = b.changes /\ \A m \in Node \ {n} : todo'[m] = todo[m]
    BY <2>1 DEF TypeOK
  <2> QED
    BY <1>1, <2>1, <2>2 DEF DeletionsCommitted, Reported
<1>7. ASSUME NEW n \in Node, MergeColumn(n) \/ MergeDeletion(n)
      PROVE  DeletionsCommitted'
  <2>1. PICK x, d : x \in todo[n] /\ MergedTo(work[n], x, d) /\ Merge(n, x, d)
    BY <1>7, MergeShape
  <2>2. /\ work' = [work EXCEPT ![n] = d]
        /\ todo' = [todo EXCEPT ![n] = @ \ {x}]
        /\ UNCHANGED <<db, net>>
    BY <2>1 DEF Merge
  <2>3. \A t \in d.tombs : t \in work[n].tombs \/ (t.rec = x.rec /\ x.col = NoColumn)
    BY <2>1 DEF MergedTo, ColumnAccepted, DeletionAccepted, Rejected,
                WithTombstone, TypeOK, Database
  <2>4. /\ work'[n] = d /\ todo'[n] = todo[n] \ {x}
        /\ \A m \in Node \ {n} : work'[m] = work[m] /\ todo'[m] = todo[m]
    BY <2>2 DEF TypeOK
  <2>5. \A m \in Node : \A t \in work'[m].tombs : ~ Undeleted(t.rec)'
    BY <1>1, <2>1, <2>3, <2>4
  <2>6. \A m \in Node : \A y \in todo'[m] : y.col = NoColumn => ~ Undeleted(y.rec)'
    BY <1>1, <2>4
  <2> QED
    BY <1>1, <2>2, <2>5, <2>6 DEF DeletionsCommitted, Reported
<1>8. ASSUME NEW n \in Node, CommitMerge(n)
      PROVE  DeletionsCommitted'
  <2> DEFINE d == [work[n] EXCEPT !.clock = @ + 1]
  <2>1. work' = [work EXCEPT ![n] = d] /\ UNCHANGED <<todo, net>>
    BY <1>8 DEF CommitMerge
  <2>2. d.tombs = work[n].tombs
    BY DEF TypeOK, Database
  <2> HIDE DEF d
  <2>3. work'[n] = d /\ \A m \in Node \ {n} : work'[m] = work[m]
    BY <2>1 DEF TypeOK
  <2>4. \A m \in Node : \A t \in work'[m].tombs : ~ Undeleted(t.rec)'
    BY <1>1, <2>2, <2>3
  <2> QED
    BY <1>1, <2>1, <2>4 DEF DeletionsCommitted, Reported
<1>9. ASSUME NEW n \in Node, AbortMerge(n)
      PROVE  DeletionsCommitted'
  <2>1. /\ work' = [work EXCEPT ![n] = db[n]] /\ todo' = [todo EXCEPT ![n] = {}]
        /\ UNCHANGED net
    BY <1>9 DEF AbortMerge
  <2>2. /\ work'[n] = db[n] /\ todo'[n] = {}
        /\ \A m \in Node \ {n} : work'[m] = work[m] /\ todo'[m] = todo[m]
    BY <2>1 DEF TypeOK
  <2> QED
    BY <1>1, <2>1, <2>2 DEF DeletionsCommitted, Reported
<1> QED
  BY <1>2, <1>3, <1>4, <1>5, <1>6, <1>7, <1>8, <1>9 DEF Next, NodeStep, vars

LEMMA ValuesStep ==
  ASSUME TypeOK, ClockDominates, StampsFromThePast, RowsInv, AllTexts,
         MergeShapes, GrownInv, ValuesInv, [Next]_vars
  PROVE  ValuesInv'
<1>1. TypeOK' /\ \A m \in Node : TombsKept(db[m], db'[m])
  BY TypeStep, GrownStep DEF Kept
<1>2. DeletionsCommitted'
  BY <1>1, CommittedStep DEF ValuesInv
<1>3. Consistent'
  <2>1. CASE \E n \in Node : InsertRow(n) \/ UpdateRow(n) \/ DeleteRow(n)
    BY <1>1, <2>1, CommitSays DEF ValuesInv
  <2>2. CASE \E n \in Node : MergeColumn(n) \/ MergeDeletion(n)
    BY <1>1, <1>2, <2>2, MergeSays DEF ValuesInv
  <2>3. CASE \/ UNCHANGED vars \/ Lose
             \/ \E n \in Node : \/ Send(n) \/ BeginMerge(n)
                                \/ CommitMerge(n) \/ AbortMerge(n)
    BY <1>1, <2>3, CarrySays DEF ValuesInv
  <2> QED
    BY <2>1, <2>2, <2>3 DEF Next, NodeStep
<1> QED
  BY <1>2, <1>3 DEF ValuesInv

\* Replicas that hold the same version of a column hold the same value of it,
\* whatever was sent, lost, repeated and rolled back, as long as nobody has
\* deleted the record.
THEOREM ValuesAgree == Spec => []SameVersionSameValue
<1>1. Init => JoinInv /\ GrownInv /\ ValuesInv
  <2>1. Init => JoinInv /\ GrownInv
    BY DEF Init, JoinInv, MergeShapes, Joined, Newest, TombsSeen, Passed, Stamps,
           EmptyDatabase, GrownInv, Grown, TombsKept, VersionsGrown
  <2>2. Init => ValuesInv
    BY DEF Init, EmptyDatabase, ValuesInv, Consistent, Said, Shown, Told,
           DeletionsCommitted, Reported
  <2> QED
    BY <2>1, <2>2
<1>2. TypeOK /\ ClockDominates /\ StampsFromThePast /\ RowsInv /\ AllTexts /\ JoinInv
        /\ GrownInv /\ ValuesInv /\ [Next]_vars
      => JoinInv' /\ GrownInv' /\ ValuesInv'
  BY JoinStep, GrownStep, ValuesStep DEF JoinInv
<1>3. ValuesInv => SameVersionSameValue
  <2> SUFFICES ASSUME ValuesInv, NEW n \in Node, NEW m \in Node,
                      NEW v \in db[n].versions, NEW u \in db[m].versions,
                      Stamp(v) = Stamp(u), Undeleted(v.rec)
               PROVE  WireValue(db[n].rows, v) = WireValue(db[m].rows, u)
    BY DEF SameVersionSameValue
  <2> DEFINE f == [stamp |-> Stamp(v), val |-> WireValue(db[n].rows, v)]
             h == [stamp |-> Stamp(u), val |-> WireValue(db[m].rows, u)]
  <2>1. f \in Said /\ h \in Said
    BY Sayings DEF Shown
  <2>2. f.stamp.rec = v.rec
    BY DEF Stamp
  <2>3. f.val = h.val
    BY <2>1, <2>2 DEF ValuesInv, Consistent
  <2> QED
    BY <2>3
<1> QED
  BY <1>1, <1>2, <1>3, TypeCorrect, ClockCorrect, StampsCorrect, RowsInvariant, PTL
  DEF Spec
=============================================================================
