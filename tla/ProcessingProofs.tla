-------------------------- MODULE ProcessingProofs --------------------------
(* What process_pending_changes does to the versions of a file that one    *)
(* connection has open, statement by statement: the cache, the plan and    *)
(* the tables together tell what the iterations have done so far.          *)
EXTENDS TrackingProofs

-----------------------------------------------------------------------------
(* The loop and its cache.                                                 *)

\* The tombstone that a deletion in the plan gets.
Burial(c, p) ==
  [rec |-> p.rec, dv |-> stamp[c], node |-> Self, local |-> stamp[c]]

\* A version that the cache does not have is one the loop has written; a
\* cached version goes from the file with its record only.
Cached(c) ==
  /\ \A u, v \in cache[c] : SameKey(u, v) => u = v
  /\ \A u \in file.versions :
       \/ u \in cache[c]
       \/ /\ u = StampedVersion(c, u)
          /\ HasTombstone(file, u.rec) =>
               pc[c] = "sweep" /\ \E p \in turn[c] : p.rec = u.rec
  /\ \A v \in cache[c] :
       HasTombstone(file, v.rec) \/ \E u \in file.versions : SameKey(u, v)

\* What the iteration under way has found and done.
LoopOf(c) ==
  /\ turn[c] \subseteq Firsts(plan[c])
  /\ pc[c] = "clock" => cache[c] = file.versions
  /\ pc[c] \in Stamping => Cached(c)
  /\ pc[c] = "sweep" =>
       \A p \in turn[c] : p.op = "DELETE" /\ Burial(c, p) \in file.tombs
  /\ pc[c] = "enforce" =>
       \A p \in turn[c] : p.op # "DELETE" /\ HasTombstone(file, p.rec)
  /\ pc[c] = "version" =>
       \A p \in turn[c] : p.op # "DELETE" /\ ~ HasTombstone(file, p.rec)

\* An open transaction or merge sees the file as it is, but for its own work.
Opened(c) ==
  /\ pc[c] = "writing" => view = [file EXCEPT !.rows = view.rows]
  /\ pc[c] = "merging" => \E x \in Incoming : view = Merged(file, x)

LoopInv == \A c \in Connection : LoopOf(c) /\ Opened(c)

LEMMA StampedAgain ==
  ASSUME NEW c, NEW p
  PROVE  /\ StampedVersion(c, p) = StampedVersion(c, StampedVersion(c, p))
         /\ SameKey(StampedVersion(c, p), p)
<1> DEFINE v == StampedVersion(c, p)
<1>1. v.rec = p.rec /\ v.col = p.col
  BY DEF StampedVersion
<1>2. {u \in cache[c] : SameKey(u, v)} = {u \in cache[c] : SameKey(u, p)}
  BY <1>1 DEF SameKey
<1>3. ColVersion(cache[c], v) = ColVersion(cache[c], p)
  BY <1>2 DEF ColVersion
<1> QED
  BY <1>1, <1>3 DEF StampedVersion, SameKey

LEMMA FileFields ==
  ASSUME NEW d \in Database
  PROVE  /\ d = [rows |-> d.rows, versions |-> d.versions, tombs |-> d.tombs,
                 clock |-> d.clock]
         /\ d.rows \subseteq Row /\ d.versions \subseteq VersionRow
         /\ d.tombs \subseteq TombRow /\ d.clock \in Nat
BY DEF Database

\* What a step of the loop leaves of the tables.
LEMMA LoopTables ==
  ASSUME TypeInv, PlanInv, NEW c \in Connection
  PROVE  /\ EntombRecord(c) => \E p \in Firsts(plan[c]) :
              /\ p.op = "DELETE" /\ turn'[c] = {p}
              /\ file'.rows = file.rows /\ file'.versions = file.versions
              /\ file'.tombs = {t \in file.tombs : t.rec # p.rec} \cup {Burial(c, p)}
              /\ file'.clock = file.clock
         /\ SweepVersions(c) => \E p \in turn[c] :
              /\ pc[c] = "sweep" /\ turn[c] = {p}
              /\ file'.rows = file.rows /\ file'.tombs = file.tombs
              /\ file'.versions = {v \in file.versions : v.rec # p.rec}
              /\ file'.clock = file.clock
         /\ EnforceTombstone(c) => \E p \in turn[c] :
              /\ pc[c] = "enforce" /\ turn[c] = {p}
              /\ file'.rows = RowsBut(file.rows, p.rec)
              /\ file'.versions = file.versions /\ file'.tombs = file.tombs
              /\ file'.clock = file.clock
         /\ StampColumn(c) => \E p \in turn[c] :
              /\ pc[c] = "version" /\ turn[c] = {p}
              /\ file'.rows = file.rows /\ file'.tombs = file.tombs
              /\ file'.versions = Replaced(file.versions, StampedVersion(c, p))
              /\ file'.clock = file.clock
<1>0. file = [rows |-> file.rows, versions |-> file.versions, tombs |-> file.tombs,
              clock |-> file.clock]
  BY FileFields DEF TypeInv, TablesOK
<1>1. \A p \in turn[c] : turn[c] = {p}
  BY DEF PlanInv, PlanOf
<1>2. ASSUME EntombRecord(c)
      PROVE  \E p \in Firsts(plan[c]) :
               /\ p.op = "DELETE" /\ turn'[c] = {p}
               /\ file'.rows = file.rows /\ file'.versions = file.versions
               /\ file'.tombs = {t \in file.tombs : t.rec # p.rec} \cup {Burial(c, p)}
               /\ file'.clock = file.clock
  <2>1. PICK p \in Firsts(plan[c]) :
          /\ p.op = "DELETE" /\ turn'[c] = {p}
          /\ file' = [file EXCEPT !.tombs = {t \in file.tombs : t.rec # p.rec}
                                              \cup {Burial(c, p)}]
    BY <1>2, WriteEffect DEF Burial
  <2> DEFINE tombs == {t \in file.tombs : t.rec # p.rec} \cup {Burial(c, p)}
  <2>2. file' = [file EXCEPT !.tombs = tombs]
    BY <2>1
  <2> HIDE DEF tombs
  <2>3. /\ file'.rows = file.rows /\ file'.versions = file.versions
        /\ file'.tombs = tombs /\ file'.clock = file.clock
    BY <1>0, <2>2
  <2> QED
    BY <2>1, <2>3 DEF tombs
<1>3. ASSUME SweepVersions(c)
      PROVE  \E p \in turn[c] :
               /\ pc[c] = "sweep" /\ turn[c] = {p}
               /\ file'.rows = file.rows /\ file'.tombs = file.tombs
               /\ file'.versions = {v \in file.versions : v.rec # p.rec}
               /\ file'.clock = file.clock
  BY <1>0, <1>1, <1>3, WriteEffect
<1>4. ASSUME EnforceTombstone(c)
      PROVE  \E p \in turn[c] :
               /\ pc[c] = "enforce" /\ turn[c] = {p}
               /\ file'.rows = RowsBut(file.rows, p.rec)
               /\ file'.versions = file.versions /\ file'.tombs = file.tombs
               /\ file'.clock = file.clock
  BY <1>0, <1>1, <1>4, WriteEffect
<1>5. ASSUME StampColumn(c)
      PROVE  \E p \in turn[c] :
               /\ pc[c] = "version" /\ turn[c] = {p}
               /\ file'.rows = file.rows /\ file'.tombs = file.tombs
               /\ file'.versions = Replaced(file.versions, StampedVersion(c, p))
               /\ file'.clock = file.clock
  BY <1>0, <1>1, <1>5, WriteEffect
<1> QED
  BY <1>2, <1>3, <1>4, <1>5

LEMMA CachedStays ==
  ASSUME NEW c \in Connection, Cached(c), pc[c] # "sweep",
         UNCHANGED <<file, cache, stamp>>
  PROVE  Cached(c)'
BY DEF Cached, StampedVersion, HasTombstone

LEMMA EntombCached ==
  ASSUME TypeInv, PlanInv, NEW c \in Connection, Cached(c), EntombRecord(c)
  PROVE  Cached(c)'
<1>1. PICK p \in Firsts(plan[c]) :
        /\ turn'[c] = {p} /\ file'.versions = file.versions
        /\ file'.tombs = {t \in file.tombs : t.rec # p.rec} \cup {Burial(c, p)}
  BY LoopTables
<1>2. pc[c] = "stamp" /\ pc'[c] = "sweep" /\ UNCHANGED <<cache, stamp>>
  BY WriteEffect
<1>3. \A r : HasTombstone(file', r) <=> r = p.rec \/ HasTombstone(file, r)
  <2>1. Burial(c, p).rec = p.rec
    BY DEF Burial
  <2> QED
    BY <1>1, <2>1 DEF HasTombstone
<1>4. \A u : StampedVersion(c, u)' = StampedVersion(c, u)
  BY <1>2 DEF StampedVersion
<1> QED
  BY <1>1, <1>2, <1>3, <1>4 DEF Cached

LEMMA SweepCached ==
  ASSUME TypeInv, PlanInv, NEW c \in Connection, LoopOf(c), SweepVersions(c)
  PROVE  Cached(c)'
<1>1. PICK p \in turn[c] :
        /\ pc[c] = "sweep" /\ turn[c] = {p} /\ file'.tombs = file.tombs
        /\ file'.versions = {v \in file.versions : v.rec # p.rec}
  BY LoopTables
<1>2. UNCHANGED <<cache, stamp>>
  BY WriteEffect
<1>3. \A r : HasTombstone(file', r) <=> HasTombstone(file, r)
  BY <1>1 DEF HasTombstone
<1>4. \A u : StampedVersion(c, u)' = StampedVersion(c, u)
  BY <1>2 DEF StampedVersion
<1>5. Cached(c) /\ HasTombstone(file, p.rec)
  BY <1>1 DEF LoopOf, Stamping, HasTombstone, Burial
<1>6. \A u \in file'.versions :
        u \in cache'[c] \/ (u = StampedVersion(c, u)' /\ ~ HasTombstone(file', u.rec))
  BY <1>1, <1>2, <1>3, <1>4, <1>5 DEF Cached
<1>7. \A v \in cache'[c] :
        HasTombstone(file', v.rec) \/ \E u \in file'.versions : SameKey(u, v)
  BY <1>1, <1>2, <1>3, <1>5 DEF Cached, SameKey
<1> QED
  BY <1>2, <1>5, <1>6, <1>7 DEF Cached

LEMMA StampCached ==
  ASSUME TypeInv, PlanInv, NEW c \in Connection, LoopOf(c), StampColumn(c)
  PROVE  Cached(c)'
<1>1. PICK p \in turn[c] :
        /\ pc[c] = "version" /\ turn[c] = {p} /\ file'.tombs = file.tombs
        /\ file'.versions = Replaced(file.versions, StampedVersion(c, p))
  BY LoopTables
<1> DEFINE new == StampedVersion(c, p)
<1>2. UNCHANGED <<cache, stamp>>
  BY WriteEffect
<1>3. \A r : HasTombstone(file', r) <=> HasTombstone(file, r)
  BY <1>1 DEF HasTombstone
<1>4. \A u : StampedVersion(c, u)' = StampedVersion(c, u)
  BY <1>2 DEF StampedVersion
<1>5. Cached(c) /\ ~ HasTombstone(file, p.rec)
  BY <1>1 DEF LoopOf, Stamping
<1>6. new = StampedVersion(c, new) /\ SameKey(new, p)
  BY StampedAgain
<1> HIDE DEF new
<1>7. file'.versions = {u \in file.versions : ~ SameKey(u, new)} \cup {new}
  BY <1>1 DEF new, Replaced
<1>8. \A u \in file'.versions :
        u \in cache'[c] \/ (u = StampedVersion(c, u)' /\ ~ HasTombstone(file', u.rec))
  BY <1>1, <1>2, <1>3, <1>4, <1>5, <1>6, <1>7 DEF Cached, SameKey
<1>9. \A v \in cache'[c] :
        HasTombstone(file', v.rec) \/ \E u \in file'.versions : SameKey(u, v)
  BY <1>2, <1>3, <1>5, <1>7 DEF Cached, SameKey
<1> QED
  BY <1>2, <1>5, <1>8, <1>9 DEF Cached

LEMMA LoopInvStep ==
  ASSUME OneConnection, TypeInv, PlanInv, LoopInv, [Next]_vars
  PROVE  LoopInv'
<1>0. pc \in [Connection -> Places] /\ Firsts(EmptyQueue) = {}
  BY EmptyTypes DEF TypeInv, PlacesOK, Firsts
<1>1. CASE UNCHANGED vars
  BY <1>1 DEF vars, fileVars, txnVars, loopVars, LoopInv, LoopOf, Opened, Cached,
              StampedVersion, Burial
<1>2. CASE Crash
  BY <1>2, CrashEffect DEF LoopInv, LoopOf, Opened, Stamping
<1>3. ASSUME NEW c \in Connection, ConnectionStep(c)
      PROVE  LoopInv'
  <2>0. \A k \in Connection : k = c
    BY DEF OneConnection
  <2> SUFFICES LoopOf(c)' /\ Opened(c)'
    BY <2>0 DEF LoopInv
  <2>1. CASE FirstStatement(c) \/ NextStatement(c)
    <3>1. PICK tables, queue, rows, entries :
            /\ \/ pc[c] = "idle" /\ tables = file
               \/ pc[c] = "writing" /\ tables = view
            /\ view' = [tables EXCEPT !.rows = rows]
      BY <2>1, UserEffect
    <3>2. pc'[c] = "writing" /\ UNCHANGED <<file, plan, turn>>
      BY <2>1, UserEffect
    <3>3. \E d : tables = [file EXCEPT !.rows = d]
      BY <3>1, FileFields DEF LoopInv, Opened, TypeInv, TablesOK
    <3>4. view' = [file EXCEPT !.rows = view'.rows]
      BY <3>1, <3>3, FileFields DEF TypeInv, TablesOK
    <3> QED
      BY <3>2, <3>4 DEF LoopInv, LoopOf, Opened, Stamping
  <2>2. CASE \/ CommitTransaction(c) \/ RollbackTransaction(c)
             \/ CommitMerge(c) \/ AbortMerge(c)
    <3>1. pc'[c] = "scan" /\ UNCHANGED <<plan, turn>>
      BY <2>2, EndEffect
    <3> QED
      BY <3>1 DEF LoopInv, LoopOf, Opened, Stamping
  <2>3. CASE BeginMerge(c)
    <3>1. /\ pc'[c] = "merging" /\ UNCHANGED <<file, plan, turn>>
          /\ \E x \in Incoming : view' = Merged(file, x)
      BY <2>3, MergeEffect
    <3> QED
      BY <3>1 DEF LoopInv, LoopOf, Opened, Stamping
  <2>4. CASE Open(c)
    <3>1. pc'[c] = "idle" /\ UNCHANGED <<file, plan, turn>>
      BY <2>4, ReadEffect
    <3> QED
      BY <3>1 DEF LoopInv, LoopOf, Opened, Stamping
  <2>5. CASE ScanPending(c)
    <3>1. pc[c] = "scan" /\ pc'[c] \in {"idle", "cache"} /\ turn' = turn
      BY <2>5, ReadEffect
    <3>2. turn'[c] = {}
      BY <3>1 DEF PlanInv, PlanOf, Turning
    <3> QED
      BY <3>1, <3>2 DEF LoopOf, Opened, Stamping
  <2>6. CASE FillCache(c)
    <3>1. /\ pc'[c] = "clock" /\ cache'[c] = file.versions
          /\ UNCHANGED <<file, plan, turn>>
      BY <2>6, ReadEffect
    <3> QED
      BY <3>1 DEF LoopInv, LoopOf, Opened, Stamping
  <2>7. CASE ReadClock(c)
    <3>1. pc[c] = "clock" /\ pc'[c] = "stamp" /\ UNCHANGED <<file, plan, turn, cache>>
      BY <2>7, ReadEffect
    <3>2. cache[c] = file.versions
      BY <3>1 DEF LoopInv, LoopOf
    <3>3. Cached(c)'
      BY <3>1, <3>2 DEF Cached, SameKey, TypeInv, TablesOK, KeysUnique
    <3> QED
      BY <3>1, <3>3 DEF LoopInv, LoopOf, Opened
  <2>8. CASE CheckTombstone(c)
    <3>1. PICK p \in Firsts(plan[c]) :
            /\ p.op # "DELETE" /\ turn'[c] = {p}
            /\ pc'[c] = IF HasTombstone(file, p.rec) THEN "enforce" ELSE "version"
      BY <2>8, ReadEffect
    <3>2. pc[c] = "stamp" /\ UNCHANGED <<file, plan, cache, stamp>>
      BY <2>8, ReadEffect
    <3>3. Cached(c)'
      BY <3>2, CachedStays DEF LoopInv, LoopOf, Stamping
    <3> QED
      BY <3>1, <3>2, <3>3 DEF LoopOf, Opened, Stamping
  <2>9. CASE OverflowClock(c) \/ ClearPending(c) \/ Busy(c) \/ FailProcessing(c)
    <3>1. pc'[c] = "idle" /\ turn'[c] = {}
      BY <2>9, StopEffect
    <3> QED
      BY <3>1 DEF LoopOf, Opened, Stamping
  <2>10. CASE EntombRecord(c)
    <3>1. PICK p \in Firsts(plan[c]) :
            /\ p.op = "DELETE" /\ turn'[c] = {p}
            /\ file'.tombs = {t \in file.tombs : t.rec # p.rec} \cup {Burial(c, p)}
      BY <2>10, LoopTables
    <3>2. /\ pc[c] = "stamp" /\ pc'[c] = "sweep" /\ UNCHANGED <<plan, stamp>>
      BY <2>10, WriteEffect
    <3>3. Cached(c)'
      BY <2>10, <3>2, EntombCached DEF LoopInv, LoopOf, Stamping
    <3>4. Burial(c, p)' = Burial(c, p)
      BY <3>2 DEF Burial
    <3> QED
      BY <3>1, <3>2, <3>3, <3>4 DEF LoopOf, Opened, Stamping
  <2>11. CASE SweepVersions(c) \/ EnforceTombstone(c) \/ StampColumn(c)
    <3>1. pc'[c] = "stamp" /\ turn'[c] = {} /\ UNCHANGED <<cache, stamp>>
      BY <2>11, WriteEffect
    <3>2. Cached(c)'
      <4>1. CASE EnforceTombstone(c)
        <5>1. /\ pc[c] = "enforce"
              /\ file'.versions = file.versions /\ file'.tombs = file.tombs
          BY <4>1, LoopTables
        <5>2. Cached(c)
          BY <5>1 DEF LoopInv, LoopOf, Stamping
        <5> QED
          BY <3>1, <5>1, <5>2 DEF Cached, StampedVersion, HasTombstone
      <4> QED
        BY <2>11, <4>1, SweepCached, StampCached DEF LoopInv
    <3> QED
      BY <3>1, <3>2 DEF LoopOf, Opened
  <2>12. CASE AdvanceClock(c)
    <3>1. pc'[c] = "clear" /\ UNCHANGED <<plan, turn>>
      BY <2>12, WriteEffect
    <3> QED
      BY <3>1 DEF LoopInv, LoopOf, Opened, Stamping
  <2> QED
    BY <1>3, <2>1, <2>2, <2>3, <2>4, <2>5, <2>6, <2>7, <2>8, <2>9, <2>10, <2>11, <2>12
    DEF ConnectionStep, ProcessPendingChanges
<1> QED
  BY <1>1, <1>2, <1>3 DEF Next

LEMMA LoopInvariant ==
  ASSUME OneConnection
  PROVE  Spec => [](TypeInv /\ PlanInv /\ LoopInv)
<1>1. Init => LoopInv
  BY DEF Init, LoopInv, LoopOf, Opened, Stamping
<1>2. TypeInv /\ PlanInv /\ LoopInv /\ [Next]_vars => LoopInv'
  BY LoopInvStep
<1> QED
  BY <1>1, <1>2, PlanInvariant, PTL DEF Spec

-----------------------------------------------------------------------------
(* Versions do not go back.                                                *)

\* What is ahead of the clock the file's own connections have written.
OwnAhead == \A v \in file.versions : v.dv > file.clock => v.node = Self

LEMMA SelfKept ==
  ASSUME NEW d \in Database
  PROVE  VersionsKept(d, d)
<1>1. \A v \in d.versions : v.node \in Nat
  BY NodeAssumption DEF Database, VersionRow
<1> QED
  BY <1>1 DEF VersionsKept, SameKey, AtLeast

\* A step that keeps all versions in the table keeps them.
LEMMA LargerKept ==
  ASSUME NEW d \in Database, NEW e, d.versions \subseteq e.versions
  PROVE  VersionsKept(d, e)
<1>1. \A v \in d.versions : v.node \in Nat
  BY NodeAssumption DEF Database, VersionRow
<1> QED
  BY <1>1 DEF VersionsKept, SameKey, AtLeast

LEMMA SweepKept ==
  ASSUME TypeInv, PlanInv, LoopInv, ClockInv, OwnAhead, NEW c \in Connection,
         SweepVersions(c)
  PROVE  VersionsKept(file, file') /\ OwnAhead'
<1>1. PICK p \in turn[c] :
        /\ pc[c] = "sweep" /\ file'.tombs = file.tombs
        /\ file'.versions = {v \in file.versions : v.rec # p.rec}
        /\ file'.clock = file.clock
  BY LoopTables
<1>2. stamp[c] = file.clock + 1 /\ Burial(c, p) \in file'.tombs
  BY <1>1 DEF ClockInv, LoopInv, LoopOf, Stamping
<1>3. /\ Burial(c, p).rec = p.rec /\ Burial(c, p).dv = file.clock + 1
      /\ Burial(c, p).node = Self
  BY <1>2 DEF Burial
<1>4. \A v \in file.versions : NotBefore(Burial(c, p), v)
  <2>1. \A v \in file.versions : v.dv \in Nat /\ v.dv <= file.clock + 1
    BY DEF ClockInv, Ahead
  <2>2. Self \in Nat /\ file.clock \in Nat
    BY SelfAssumption, NodeAssumption DEF ClockInv, Ahead
  <2>3. ASSUME NEW v \in file.versions PROVE NotBefore(Burial(c, p), v)
    <3>1. CASE v.dv > file.clock
      <4>1. v.node = Self /\ v.dv = file.clock + 1
        BY <2>1, <2>2, <3>1 DEF OwnAhead
      <4> QED
        BY <1>3, <2>2, <4>1 DEF NotBefore
    <3>2. CASE ~ (v.dv > file.clock)
      BY <1>3, <2>1, <2>2, <3>2 DEF NotBefore
    <3> QED
      BY <3>1, <3>2
  <2> QED
    BY <2>3
<1>5. \A v \in file.versions : v.node \in Nat
  BY NodeAssumption DEF TypeInv, TablesOK, Database, VersionRow
<1>6. VersionsKept(file, file')
  <2> SUFFICES ASSUME NEW v \in file.versions
               PROVE  \/ \E u \in file'.versions : SameKey(u, v) /\ AtLeast(u, v)
                      \/ \E t \in file'.tombs : t.rec = v.rec /\ NotBefore(t, v)
    BY DEF VersionsKept
  <2>1. CASE v.rec = p.rec
    BY <1>2, <1>3, <1>4, <2>1
  <2>2. CASE v.rec # p.rec
    BY <1>1, <1>5, <2>2 DEF SameKey, AtLeast
  <2> QED
    BY <2>1, <2>2
<1> QED
  BY <1>1, <1>6 DEF OwnAhead

LEMMA StampKept ==
  ASSUME TypeInv, PlanInv, LoopInv, ClockInv, OwnAhead, NEW c \in Connection,
         StampColumn(c)
  PROVE  VersionsKept(file, file') /\ OwnAhead'
<1>1. PICK p \in turn[c] :
        /\ pc[c] = "version"
        /\ file'.versions = Replaced(file.versions, StampedVersion(c, p))
        /\ file'.clock = file.clock
  BY LoopTables
<1> DEFINE new == StampedVersion(c, p)
<1>2. Cached(c)
  BY <1>1 DEF LoopInv, LoopOf, Stamping
<1>3. new.node = Self /\ SameKey(new, p) /\ new = StampedVersion(c, new)
  BY StampedAgain DEF StampedVersion
<1>4. \A v \in file.versions : v.node \in Nat /\ v.cv \in Nat /\ v.dv \in Nat
  BY NodeAssumption DEF TypeInv, TablesOK, Database, VersionRow
<1>5. ASSUME NEW v \in file.versions, SameKey(v, new)
      PROVE  SameKey(new, v) /\ AtLeast(new, v)
  <2>1. ColVersion(cache[c], v) = ColVersion(cache[c], new)
    <3>1. {u \in cache[c] : SameKey(u, v)} = {u \in cache[c] : SameKey(u, new)}
      BY <1>5 DEF SameKey
    <3> QED
      BY <3>1 DEF ColVersion
  <2>2. CASE v \in cache[c]
    <3>1. ColVersion(cache[c], new) = v.cv
      BY <1>2, <1>5, <2>2, ColVersionOfStored DEF Cached, SameKey
    <3>2. new.cv = v.cv + 1
      BY <1>3, <3>1 DEF StampedVersion
    <3> QED
      BY <1>4, <1>5, <3>2 DEF SameKey, AtLeast
  <2>3. CASE v = StampedVersion(c, v)
    <3>1. v = StampedVersion(c, new)
      BY <1>5, <2>1, <2>3 DEF StampedVersion, SameKey
    <3> QED
      BY <1>3, <1>4, <3>1 DEF SameKey, AtLeast
  <2> QED
    BY <1>2, <2>2, <2>3 DEF Cached
<1> HIDE DEF new
<1>6. file'.versions = {u \in file.versions : ~ SameKey(u, new)} \cup {new}
  BY <1>1 DEF Replaced, new
<1>7. VersionsKept(file, file')
  <2> SUFFICES ASSUME NEW v \in file.versions
               PROVE  \E u \in file'.versions : SameKey(u, v) /\ AtLeast(u, v)
    BY DEF VersionsKept
  <2>1. CASE SameKey(v, new)
    BY <1>5, <1>6, <2>1
  <2>2. CASE ~ SameKey(v, new)
    BY <1>4, <1>6, <2>2 DEF SameKey, AtLeast
  <2> QED
    BY <2>1, <2>2
<1> QED
  BY <1>1, <1>3, <1>6, <1>7 DEF OwnAhead

LEMMA MergeKept ==
  ASSUME TypeInv, LoopInv, OwnAhead, NEW c \in Connection, CommitMerge(c)
  PROVE  VersionsKept(file, file') /\ OwnAhead'
<1>1. pc[c] = "merging" /\ file' = view
  BY EndEffect
<1>2. PICK x \in Incoming : file' = Merged(file, x)
  BY <1>1 DEF LoopInv, Opened
<1>3. file \in Database /\ x \in Change /\ file.clock \in Nat /\ x.dv \in Nat
  BY IncomingAssumption DEF TypeInv, TablesOK, Database, Change
<1>4. VersionsKept(file, file')
  BY <1>2, <1>3, MergedKeepsVersions
<1> DEFINE now == Later(file.clock, x.dv)
<1>5. /\ now \in Nat /\ now >= file.clock /\ now >= x.dv /\ file'.clock = now + 1
      /\ \/ file'.versions = file.versions
         \/ file'.versions = WithVersion(file.versions, x, now)
  BY <1>2, <1>3, LaterType, MergedOutcome
<1>6. \A v \in file'.versions : v \in file.versions \/ v.dv = x.dv
  BY <1>5 DEF WithVersion
<1>7. \A v \in file.versions : v.dv \in Nat
  BY <1>3 DEF Database, VersionRow
<1> HIDE DEF now
<1>8. OwnAhead'
  <2> SUFFICES ASSUME NEW v \in file'.versions, v.dv > file'.clock
               PROVE  v.node = Self
    BY DEF OwnAhead
  <2>1. v \in file.versions /\ v.dv > file.clock
    BY <1>3, <1>5, <1>6, <1>7
  <2> QED
    BY <2>1 DEF OwnAhead
<1> QED
  BY <1>4, <1>8

LEMMA VersionsStep ==
  ASSUME OneConnection, TypeInv, PlanInv, LoopInv, ClockInv, OwnAhead, [Next]_vars
  PROVE  VersionsKept(file, file') /\ OwnAhead'
<1>0. file \in Database
  BY DEF TypeInv, TablesOK
<1>1. CASE file' = file
  BY <1>0, <1>1, SelfKept DEF OwnAhead
<1>2. CASE Crash
  BY <1>1, <1>2, CrashEffect
<1>3. ASSUME NEW c \in Connection, ConnectionStep(c)
      PROVE  VersionsKept(file, file') /\ OwnAhead'
  <2>1. CASE FirstStatement(c) \/ NextStatement(c) \/ BeginMerge(c)
    BY <1>1, <2>1, UserEffect, MergeEffect
  <2>2. CASE CommitTransaction(c)
    <3>1. file' = view /\ view = [file EXCEPT !.rows = view.rows]
      BY <2>2, EndEffect DEF LoopInv, Opened
    <3>2. file'.versions = file.versions /\ file'.clock = file.clock
      BY <1>0, <3>1, FileFields
    <3> QED
      BY <1>0, <3>2, LargerKept DEF OwnAhead
  <2>3. CASE RollbackTransaction(c) \/ AbortMerge(c)
    BY <1>1, <2>3, EndEffect
  <2>4. CASE \/ Open(c) \/ ScanPending(c) \/ FillCache(c) \/ ReadClock(c)
             \/ CheckTombstone(c)
    BY <1>1, <2>4, ReadEffect
  <2>5. CASE OverflowClock(c) \/ ClearPending(c) \/ Busy(c) \/ FailProcessing(c)
    BY <1>1, <2>5, StopEffect
  <2>6. CASE EntombRecord(c) \/ EnforceTombstone(c)
    <3>1. file'.versions = file.versions /\ file'.clock = file.clock
      BY <2>6, LoopTables
    <3> QED
      BY <1>0, <3>1, LargerKept DEF OwnAhead
  <2>7. CASE AdvanceClock(c)
    <3>1. file' = [file EXCEPT !.clock = stamp[c]] /\ pc[c] = "stamp"
      BY <2>7, WriteEffect
    <3>2. file'.versions = file.versions /\ file'.clock = file.clock + 1
      BY <1>0, <3>1, FileFields DEF ClockInv, Stamping
    <3>3. \A v \in file.versions : v.dv \in Nat /\ v.dv <= file.clock + 1
      BY DEF ClockInv, Ahead
    <3>4. file.clock \in Nat
      BY DEF ClockInv, Ahead
    <3>5. OwnAhead'
      BY <3>2, <3>3, <3>4 DEF OwnAhead
    <3> QED
      BY <1>0, <3>2, <3>5, LargerKept
  <2> QED
    BY <1>3, <2>1, <2>2, <2>3, <2>4, <2>5, <2>6, <2>7, SweepKept, StampKept, MergeKept
    DEF ConnectionStep, ProcessPendingChanges
<1> QED
  BY <1>1, <1>2, <1>3 DEF Next, vars, fileVars

\* With one connection no version of a column goes back, whatever fails, dies,
\* rolls back or is merged between the statements of the processing: a column
\* is stamped twice with the same version or with a greater one, and what is
\* swept lies under a tombstone that covers it.
THEOREM VersionsCorrect ==
  ASSUME OneConnection
  PROVE  Spec => VersionsAdvance
<1>1. Init => OwnAhead
  BY DEF Init, OwnAhead, EmptyDatabase
<1>2. TypeInv /\ PlanInv /\ LoopInv /\ ClockInv /\ OwnAhead /\ [Next]_vars
        => OwnAhead' /\ [VersionsKept(file, file')]_vars
  BY VersionsStep
<1> QED
  BY <1>1, <1>2, LoopInvariant, ClockInvariant, PTL DEF Spec, VersionsAdvance

-----------------------------------------------------------------------------
(* Rows and versions of a record.                                          *)

HasVersion(d, r) == \E v \in d.versions : v.rec = r

Asks(queue, op, r) == \E p \in queue.rows : p.op = op /\ p.rec = r

\* What is queued for a row that is gone ends in its deletion.
Gone(d, queue) ==
  \A p \in queue.rows :
    p.op # "DELETE" /\ ~ HasRow(d, p.rec) /\ ~ HasTombstone(d, p.rec)
      => Asks(queue, "DELETE", p.rec)

\* A pending row that its iteration has dealt with.
Handled(p) ==
  HasTombstone(file, p.rec) \/ (p.op # "DELETE" /\ HasVersion(file, p.rec))

MatchOf(c) ==
  /\ pc[c] = "writing" =>
       /\ Gone(view, viewPending)
       /\ \A r : HasRow(file, r) /\ ~ HasRow(view, r) => Asks(viewPending, "DELETE", r)
       /\ \A r : HasRow(view, r) /\ ~ HasRow(file, r) => Asks(viewPending, "INSERT", r)
  /\ pc[c] \in Stamping => \A p \in pending.rows : p \in plan[c].rows \/ Handled(p)
  /\ pc[c] = "clear" => \A p \in pending.rows : Handled(p)

MatchInv == Gone(file, pending) /\ \A c \in Connection : MatchOf(c)

Matches == \A r \in Record : Matched(r) => Matched(r)'

LEMMA MatchedIs ==
  ASSUME NEW r
  PROVE  Matched(r) <=>
           (~ HasTombstone(file, r) =>
              /\ HasRow(file, r) /\ ~ HasVersion(file, r) => Asks(pending, "INSERT", r)
              /\ HasVersion(file, r) /\ ~ HasRow(file, r) => Asks(pending, "DELETE", r))
BY DEF Matched, HasVersion, Asks

\* The rows that a trigger queues for the columns `cols'.
LEMMA EntriesOf ==
  ASSUME NEW op, NEW r, NEW cols
  PROVE  /\ \A p \in [op : {op}, rec : {r}, col : cols] :
              p.op = op /\ p.rec = r /\ p.col \in cols
         /\ \A k \in cols : \E p \in [op : {op}, rec : {r}, col : cols] : p.col = k
<1>1. \A p \in [op : {op}, rec : {r}, col : cols] : p.op = op /\ p.rec = r /\ p.col \in cols
  OBVIOUS
<1>2. ASSUME NEW k \in cols
      PROVE  \E p \in [op : {op}, rec : {r}, col : cols] : p.col = k
  <2> DEFINE p == [op |-> op, rec |-> r, col |-> k]
  <2>1. p \in [op : {op}, rec : {r}, col : cols] /\ p.col = k
    OBVIOUS
  <2> QED
    BY <2>1
<1> QED
  BY <1>1, <1>2

\* What the triggers tell of the rows that a statement brings and takes.
LEMMA FiresTell ==
  ASSUME Column # {}, NEW tables, NEW rows, NEW entries, Fires(tables, rows, entries)
  PROVE  /\ entries # {}
         /\ \A r : HasRow(tables, r) /\ (~ \E row \in rows : row.rec = r) =>
              \E p \in entries : p.op = "DELETE" /\ p.rec = r
         /\ \A r : (\E row \in rows : row.rec = r) /\ ~ HasRow(tables, r) =>
              \E p \in entries : p.op = "INSERT" /\ p.rec = r
         /\ \A p \in entries : p.op # "DELETE" => \E row \in rows : row.rec = p.rec
<1>1. ASSUME NEW r, NEW cells,
             rows = RowsBut(tables.rows, r) \cup {[rec |-> r, cells |-> cells]},
             entries = [op : {"INSERT"}, rec : {r}, col : Column]
      PROVE  /\ entries # {}
             /\ \A p \in entries : p.op = "INSERT" /\ p.rec = r
             /\ \A q : (\E row \in rows : row.rec = q) <=> q = r \/ HasRow(tables, q)
  <2>1. entries # {} /\ \A p \in entries : p.op = "INSERT" /\ p.rec = r
    BY <1>1, EntriesOf
  <2>2. \A q : (\E row \in rows : row.rec = q) <=> q = r \/ HasRow(tables, q)
    <3> DEFINE new == [rec |-> r, cells |-> cells]
    <3>1. new.rec = r /\ rows = RowsBut(tables.rows, r) \cup {new}
      BY <1>1
    <3> HIDE DEF new
    <3> QED
      BY <3>1 DEF HasRow, RowsBut
  <2> QED
    BY <2>1, <2>2
<1>2. ASSUME NEW row \in tables.rows, NEW cells,
             rows = RowsBut(tables.rows, row.rec) \cup {[rec |-> row.rec, cells |-> cells]},
             \E k \in Column : cells[k] # row.cells[k],
             entries = [op : {"UPDATE"}, rec : {row.rec},
                        col : {k \in Column : cells[k] # row.cells[k]}]
      PROVE  /\ entries # {}
             /\ \A p \in entries : p.op = "UPDATE" /\ p.rec = row.rec
             /\ \A q : (\E new \in rows : new.rec = q) <=> HasRow(tables, q)
  <2>1. entries # {} /\ \A p \in entries : p.op = "UPDATE" /\ p.rec = row.rec
    <3> DEFINE changed == {k \in Column : cells[k] # row.cells[k]}
    <3>1. changed # {} /\ entries = [op : {"UPDATE"}, rec : {row.rec}, col : changed]
      BY <1>2
    <3> HIDE DEF changed
    <3> QED
      BY <3>1, EntriesOf
  <2>2. \A q : (\E new \in rows : new.rec = q) <=> HasRow(tables, q)
    <3> DEFINE put == [rec |-> row.rec, cells |-> cells]
    <3>1. put.rec = row.rec /\ rows = RowsBut(tables.rows, row.rec) \cup {put}
      BY <1>2
    <3> HIDE DEF put
    <3> QED
      BY <3>1 DEF HasRow, RowsBut
  <2> QED
    BY <2>1, <2>2
<1>3. ASSUME NEW row \in tables.rows, rows = tables.rows \ {row},
             entries = [op : {"DELETE"}, rec : {row.rec}, col : {NoColumn}]
      PROVE  /\ entries # {}
             /\ \A p \in entries : p.op = "DELETE" /\ p.rec = row.rec
             /\ \A q : HasRow(tables, q) => q = row.rec \/ \E new \in rows : new.rec = q
             /\ \A q : (\E new \in rows : new.rec = q) => HasRow(tables, q)
  <2>1. entries # {} /\ \A p \in entries : p.op = "DELETE" /\ p.rec = row.rec
    BY <1>3, EntriesOf
  <2> QED
    BY <1>3, <2>1 DEF HasRow
<1>4. CASE \E r \in Record, cells \in [Column -> Cell] :
             /\ rows = RowsBut(tables.rows, r) \cup {[rec |-> r, cells |-> cells]}
             /\ entries = [op : {"INSERT"}, rec : {r}, col : Column]
  <2>1. PICK r \in Record :
             /\ entries # {}
             /\ \A p \in entries : p.op = "INSERT" /\ p.rec = r
             /\ \A q : (\E row \in rows : row.rec = q) <=> q = r \/ HasRow(tables, q)
    BY <1>1, <1>4
  <2> QED
    BY <2>1
<1>5. CASE \E row \in tables.rows, cells \in [Column -> Cell] :
             /\ rows = RowsBut(tables.rows, row.rec)
                         \cup {[rec |-> row.rec, cells |-> cells]}
             /\ \E k \in Column : cells[k] # row.cells[k]
             /\ entries = [op : {"UPDATE"}, rec : {row.rec},
                           col : {k \in Column : cells[k] # row.cells[k]}]
  <2>1. PICK row \in tables.rows, cells \in [Column -> Cell] :
             /\ rows = RowsBut(tables.rows, row.rec)
                         \cup {[rec |-> row.rec, cells |-> cells]}
             /\ \E k \in Column : cells[k] # row.cells[k]
             /\ entries = [op : {"UPDATE"}, rec : {row.rec},
                           col : {k \in Column : cells[k] # row.cells[k]}]
    BY <1>5
  <2>2. /\ entries # {}
        /\ \A p \in entries : p.op = "UPDATE" /\ p.rec = row.rec
        /\ \A q : (\E new \in rows : new.rec = q) <=> HasRow(tables, q)
    BY <1>2, <2>1
  <2>3. HasRow(tables, row.rec)
    BY DEF HasRow
  <2> QED
    BY <2>2, <2>3
<1>6. CASE \E row \in tables.rows :
             /\ rows = tables.rows \ {row}
             /\ entries = [op : {"DELETE"}, rec : {row.rec}, col : {NoColumn}]
  <2>1. PICK row \in tables.rows :
             /\ entries # {}
             /\ \A p \in entries : p.op = "DELETE" /\ p.rec = row.rec
             /\ \A q : HasRow(tables, q) => q = row.rec \/ \E new \in rows : new.rec = q
             /\ \A q : (\E new \in rows : new.rec = q) => HasRow(tables, q)
    BY <1>3, <1>6
  <2> QED
    BY <2>1
<1> QED
  BY <1>4, <1>5, <1>6 DEF Fires

\* A merge takes a row with a tombstone only, and brings none without a version.
LEMMA MergedTells ==
  ASSUME NEW d \in Database, NEW x \in Change, Texts({x})
  PROVE  LET e == Merged(d, x)
         IN  \A r : /\ HasTombstone(d, r) => HasTombstone(e, r)
                    /\ HasRow(d, r) => HasRow(e, r) \/ HasTombstone(e, r)
                    /\ \/ HasRow(e, r) /\ HasVersion(e, r)
                       \/ HasTombstone(e, r)
                       \/ /\ HasRow(e, r) <=> HasRow(d, r)
                          /\ HasVersion(e, r) <=> HasVersion(d, r)
                          /\ HasTombstone(e, r) <=> HasTombstone(d, r)
<1> DEFINE e == Merged(d, x)
           now == Later(d.clock, x.dv)
<1>1. CASE e.rows = d.rows /\ e.versions = d.versions /\ e.tombs = d.tombs
  BY <1>1 DEF HasRow, HasVersion, HasTombstone
<1>2. CASE /\ x.col # NoColumn
           /\ e.rows = ApplyColumn(d.rows, x)
           /\ e.versions = WithVersion(d.versions, x, now)
           /\ e.tombs = d.tombs
  <2>1. \A r : HasRow(e, r) <=> r = x.rec \/ HasRow(d, r)
    <3> DEFINE Put(row) == IF row.rec = x.rec
                             THEN [row EXCEPT !.cells[x.col] = x.val] ELSE row
    <3>1. CASE \E row \in d.rows : row.rec = x.rec
      <4>1. e.rows = {Put(row) : row \in d.rows}
        BY <1>2, <3>1 DEF ApplyColumn
      <4>2. \A row \in d.rows : Put(row).rec = row.rec
        BY DEF Database, Row
      <4> HIDE DEF Put, e
      <4> QED
        BY <3>1, <4>1, <4>2 DEF HasRow
    <3>2. CASE ~ \E row \in d.rows : row.rec = x.rec
      <4> DEFINE new == [rec |-> x.rec,
                         cells |-> [c \in Column |-> IF c = x.col THEN x.val ELSE Null]]
      <4>1. e.rows = d.rows \cup {new} /\ new.rec = x.rec
        BY <1>2, <3>2 DEF ApplyColumn, Texts
      <4> HIDE DEF new, e
      <4> QED
        BY <4>1 DEF HasRow
    <3> QED
      BY <3>1, <3>2
  <2>2. \A r : HasVersion(e, r) <=> r = x.rec \/ HasVersion(d, r)
    <3> DEFINE new == [rec |-> x.rec, col |-> x.col, cv |-> x.cv, dv |-> x.dv,
                       node |-> x.node, local |-> now]
    <3>1. e.versions = {v \in d.versions : ~ SameKey(v, x)} \cup {new}
          /\ new.rec = x.rec
      BY <1>2 DEF WithVersion
    <3> HIDE DEF new, e
    <3> QED
      BY <3>1 DEF HasVersion, SameKey
  <2>3. \A r : HasTombstone(e, r) <=> HasTombstone(d, r)
    BY <1>2 DEF HasTombstone
  <2> HIDE DEF e
  <2> QED
    BY <2>1, <2>2, <2>3 DEF e
<1>3. CASE /\ e.rows = RowsBut(d.rows, x.rec)
           /\ e.versions = d.versions
           /\ e.tombs = WithTombstone(d.tombs, x, now)
  <2>1. \A r : HasRow(e, r) <=> r # x.rec /\ HasRow(d, r)
    BY <1>3 DEF HasRow, RowsBut
  <2>2. \A r : HasVersion(e, r) <=> HasVersion(d, r)
    BY <1>3 DEF HasVersion
  <2>3. \A r : HasTombstone(e, r) <=> r = x.rec \/ HasTombstone(d, r)
    <3> DEFINE new == [rec |-> x.rec, dv |-> x.dv, node |-> x.node, local |-> now]
    <3>1. e.tombs = {t \in d.tombs : t.rec # x.rec} \cup {new} /\ new.rec = x.rec
      BY <1>3 DEF WithTombstone
    <3> HIDE DEF new, e
    <3> QED
      BY <3>1 DEF HasTombstone
  <2> HIDE DEF e
  <2> QED
    BY <2>1, <2>2, <2>3 DEF e
<1> QED
  BY <1>1, <1>2, <1>3, MergedOutcome

\* A statement of the user tells in the queue of the rows it brings and takes.
LEMMA StatementTells ==
  ASSUME Column # {}, TypeInv, MatchInv, NEW c \in Connection,
         FirstStatement(c) \/ NextStatement(c)
  PROVE  /\ Gone(view, viewPending)'
         /\ \A r : HasRow(file, r) /\ ~ HasRow(view', r) => Asks(viewPending', "DELETE", r)
         /\ \A r : HasRow(view', r) /\ ~ HasRow(file, r) => Asks(viewPending', "INSERT", r)
<1>1. PICK tables, queue, rows, entries :
        /\ \/ pc[c] = "idle" /\ tables = file /\ queue = pending
           \/ pc[c] = "writing" /\ tables = view /\ queue = viewPending
        /\ Fires(tables, rows, entries)
        /\ view' = [tables EXCEPT !.rows = rows]
        /\ viewPending' = Enqueue(queue, entries)
  BY UserEffect
<1>2. tables \in Database /\ queue \in Queue
  BY <1>1 DEF TypeInv, TablesOK
<1>3. /\ Gone(tables, queue)
      /\ \A r : HasRow(file, r) /\ ~ HasRow(tables, r) => Asks(queue, "DELETE", r)
      /\ \A r : HasRow(tables, r) /\ ~ HasRow(file, r) => Asks(queue, "INSERT", r)
  BY <1>1 DEF MatchInv, MatchOf
<1>4. entries \in SUBSET Pending /\ viewPending'.rows = queue.rows \cup entries
  BY <1>1, <1>2, FiresTypes, EnqueueType
<1>5. view'.rows = rows /\ view'.tombs = tables.tombs
  BY <1>1, <1>2, FileFields
<1>6. /\ \A r : HasRow(tables, r) /\ ~ HasRow(view', r) =>
           \E p \in entries : p.op = "DELETE" /\ p.rec = r
      /\ \A r : HasRow(view', r) /\ ~ HasRow(tables, r) =>
           \E p \in entries : p.op = "INSERT" /\ p.rec = r
      /\ \A p \in entries : p.op # "DELETE" => HasRow(view', p.rec)
  BY <1>1, <1>5, FiresTell DEF HasRow
<1>7. \A r : HasTombstone(view', r) <=> HasTombstone(tables, r)
  BY <1>5 DEF HasTombstone
<1>8. \A r : HasRow(tables, r) /\ ~ HasRow(view', r) => Asks(viewPending', "DELETE", r)
  BY <1>4, <1>6 DEF Asks
<1>9. \A r : HasRow(view', r) /\ ~ HasRow(tables, r) => Asks(viewPending', "INSERT", r)
  BY <1>4, <1>6 DEF Asks
<1>10. \A op, r : Asks(queue, op, r) => Asks(viewPending', op, r)
  BY <1>4 DEF Asks
<1>11. Gone(view, viewPending)'
  <2> SUFFICES ASSUME NEW p \in viewPending'.rows, p.op # "DELETE",
                      ~ HasRow(view', p.rec), ~ HasTombstone(view', p.rec)
               PROVE  Asks(viewPending', "DELETE", p.rec)
    BY DEF Gone
  <2>1. p \in queue.rows
    BY <1>4, <1>6
  <2> QED
    BY <1>3, <1>7, <1>8, <1>10, <2>1 DEF Gone
<1> QED
  BY <1>3, <1>8, <1>9, <1>10, <1>11

\* A processed queue says nothing more of any record.
LEMMA HandledSettles ==
  ASSUME \A p \in pending.rows : Handled(p), NEW r, Matched(r),
         ~ HasTombstone(file, r)
  PROVE  HasRow(file, r) <=> HasVersion(file, r)
BY MatchedIs DEF Handled, Asks

\* Tables and queue that stay, or a queue that only grows.
LEMMA MatchStays ==
  ASSUME UNCHANGED file, pending.rows \subseteq pending'.rows
  PROVE  Matches
BY DEF Matches, Matched, HasRow, HasTombstone

\* A write of the loop settles its row, or leaves the other rows as settled
\* and as matched as they were.
LEMMA LoopMatches ==
  ASSUME TypeInv, PlanInv, LoopInv, MatchInv, NEW c \in Connection,
         \/ EntombRecord(c) \/ SweepVersions(c) \/ EnforceTombstone(c)
         \/ StampColumn(c)
  PROVE  /\ Matches
         /\ Gone(file, pending)'
         /\ \A p \in pending'.rows : p \in plan'[c].rows \/ Handled(p)'
<1>0. pc[c] \in Stamping
  BY WriteEffect DEF Stamping
<1>1. /\ Gone(file, pending)
      /\ \A p \in pending.rows : p \in plan[c].rows \/ Handled(p)
      /\ turn[c] \subseteq plan[c].rows /\ plan[c].rows \subseteq pending.rows
  BY <1>0 DEF MatchInv, MatchOf, PlanInv, PlanOf
<1>2. CASE EntombRecord(c)
  <2>1. PICK p \in Firsts(plan[c]) :
          /\ file'.rows = file.rows /\ file'.versions = file.versions
          /\ file'.tombs = {t \in file.tombs : t.rec # p.rec} \cup {Burial(c, p)}
    BY <1>2, LoopTables
  <2>2. UNCHANGED <<pending, plan>>
    BY <1>2, WriteEffect
  <2>3. \A r : HasTombstone(file', r) <=> r = p.rec \/ HasTombstone(file, r)
    <3>1. Burial(c, p).rec = p.rec
      BY DEF Burial
    <3> QED
      BY <2>1, <3>1 DEF HasTombstone
  <2>4. \A r : /\ HasRow(file', r) <=> HasRow(file, r)
               /\ HasVersion(file', r) <=> HasVersion(file, r)
    BY <2>1 DEF HasRow, HasVersion
  <2>5. Matches
    BY <2>2, <2>3, <2>4 DEF Matches, Matched, HasVersion
  <2> QED
    BY <1>1, <2>2, <2>3, <2>4, <2>5 DEF Gone, Asks, Handled
<1>3. CASE SweepVersions(c)
  <2>1. PICK p \in turn[c] :
          /\ pc[c] = "sweep" /\ turn[c] = {p}
          /\ file'.rows = file.rows /\ file'.tombs = file.tombs
          /\ file'.versions = {v \in file.versions : v.rec # p.rec}
    BY <1>3, LoopTables
  <2>2. pending' = pending /\ plan'[c].rows = plan[c].rows \ {p}
    BY <1>3, <2>1, WriteEffect, WithoutTurn
  <2>3. HasTombstone(file, p.rec)
    BY <2>1 DEF LoopInv, LoopOf, HasTombstone, Burial
  <2>4. \A r : /\ HasRow(file', r) <=> HasRow(file, r)
               /\ HasTombstone(file', r) <=> HasTombstone(file, r)
               /\ HasVersion(file', r) <=> r # p.rec /\ HasVersion(file, r)
    BY <2>1 DEF HasRow, HasVersion, HasTombstone
  <2>5. Matches
    BY <2>2, <2>3, <2>4 DEF Matches, Matched, HasVersion
  <2> QED
    BY <1>1, <2>2, <2>3, <2>4, <2>5 DEF Gone, Asks, Handled
<1>4. CASE EnforceTombstone(c)
  <2>1. PICK p \in turn[c] :
          /\ pc[c] = "enforce" /\ turn[c] = {p}
          /\ file'.rows = RowsBut(file.rows, p.rec)
          /\ file'.versions = file.versions /\ file'.tombs = file.tombs
    BY <1>4, LoopTables
  <2>2. PICK q \in turn[c] :
          \E again \in SUBSET {[op |-> "DELETE", rec |-> q.rec, col |-> NoColumn]} :
            pending' = Enqueue(pending, again)
    BY <1>4, WriteEffect
  <2>3. PICK again \in SUBSET {[op |-> "DELETE", rec |-> p.rec, col |-> NoColumn]} :
          pending' = Enqueue(pending, again)
    BY <2>1, <2>2
  <2>4. p \in Pending /\ pending \in Queue
    BY DEF TypeInv, MemoryOK, TablesOK
  <2>5. again \in SUBSET Pending /\ \A a \in again : a.rec = p.rec
    BY <2>4 DEF Pending
  <2>6. /\ pending'.rows = pending.rows \cup again
        /\ plan'[c].rows = plan[c].rows \ {p}
    BY <1>4, <2>1, <2>3, <2>4, <2>5, EnqueueType, WriteEffect, WithoutTurn
  <2>7. HasTombstone(file, p.rec)
    BY <2>1 DEF LoopInv, LoopOf
  <2>8. \A r : /\ HasRow(file', r) <=> r # p.rec /\ HasRow(file, r)
               /\ HasTombstone(file', r) <=> HasTombstone(file, r)
               /\ HasVersion(file', r) <=> HasVersion(file, r)
    BY <2>1 DEF HasRow, RowsBut, HasVersion, HasTombstone
  <2>9. Matches
    BY <2>6, <2>7, <2>8 DEF Matches, Matched, HasVersion
  <2>10. Gone(file', pending')
    BY <1>1, <2>5, <2>6, <2>7, <2>8 DEF Gone, Asks
  <2> QED
    BY <1>1, <2>5, <2>6, <2>7, <2>8, <2>9, <2>10 DEF Handled
<1>5. CASE StampColumn(c)
  <2>1. PICK p \in turn[c] :
          /\ pc[c] = "version" /\ turn[c] = {p}
          /\ file'.rows = file.rows /\ file'.tombs = file.tombs
          /\ file'.versions = Replaced(file.versions, StampedVersion(c, p))
    BY <1>5, LoopTables
  <2>2. pending' = pending /\ plan'[c].rows = plan[c].rows \ {p}
    BY <1>5, <2>1, WriteEffect, WithoutTurn
  <2>3. p.op # "DELETE" /\ ~ HasTombstone(file, p.rec) /\ p \in pending.rows
    BY <1>1, <2>1 DEF LoopInv, LoopOf
  <2>4. \A r : HasVersion(file', r) <=> r = p.rec \/ HasVersion(file, r)
    <3> DEFINE new == StampedVersion(c, p)
    <3>1. new.rec = p.rec /\ new.col = p.col
      BY DEF StampedVersion
    <3> HIDE DEF new
    <3>2. file'.versions = {u \in file.versions : ~ SameKey(u, new)} \cup {new}
      BY <2>1 DEF Replaced, new
    <3> QED
      BY <3>1, <3>2 DEF HasVersion, SameKey
  <2>5. \A r : /\ HasRow(file', r) <=> HasRow(file, r)
               /\ HasTombstone(file', r) <=> HasTombstone(file, r)
    BY <2>1 DEF HasRow, HasTombstone
  <2>6. HasRow(file, p.rec) \/ Asks(pending, "DELETE", p.rec)
    BY <1>1, <2>3 DEF Gone
  <2>7. ASSUME NEW r, Matched(r) PROVE Matched(r)'
    <3>1. CASE r = p.rec
      BY <2>2, <2>4, <2>5, <2>6, <3>1 DEF Matched, HasVersion, Asks
    <3>2. CASE r # p.rec
      BY <2>2, <2>4, <2>5, <2>7, <3>2 DEF Matched, HasVersion
    <3> QED
      BY <3>1, <3>2
  <2>8. Matches
    BY <2>7 DEF Matches
  <2> QED
    BY <1>1, <2>2, <2>3, <2>4, <2>5, <2>8 DEF Gone, Asks, Handled
<1> QED
  BY <1>2, <1>3, <1>4, <1>5

LEMMA MatchStep ==
  ASSUME OneConnection, Column # {}, Texts(Incoming),
         TypeInv, PlanInv, LoopInv, MatchInv, [Next]_vars
  PROVE  MatchInv' /\ (Matches \/ Drops \/ UNCHANGED vars)
<1>0. EmptyQueue.rows = {}
  BY EmptyTypes
<1>1. CASE UNCHANGED vars
  BY <1>1 DEF vars, fileVars, txnVars, loopVars, MatchInv, MatchOf, Gone, Asks,
              HasRow, HasTombstone, HasVersion, Handled
<1>2. CASE Crash
  <2>1. UNCHANGED <<file, pending>> /\ \A k \in Connection : pc'[k] = "closed"
    BY <1>2, CrashEffect
  <2>2. MatchInv'
    BY <2>1 DEF MatchInv, MatchOf, Stamping, Gone, Asks, HasRow, HasTombstone
  <2> QED
    BY <2>1, <2>2, MatchStays
<1>3. ASSUME NEW c \in Connection, ConnectionStep(c)
      PROVE  MatchInv' /\ (Matches \/ Drops)
  <2>0. \A k \in Connection : k = c
    BY DEF OneConnection
  <2>1. ASSUME Gone(file, pending)', MatchOf(c)', Matches \/ Drops
        PROVE  MatchInv' /\ (Matches \/ Drops)
    BY <2>0, <2>1 DEF MatchInv
  <2>2. UNCHANGED file /\ pending'.rows \in {{}, pending.rows} => Gone(file, pending)'
    BY DEF MatchInv, Gone, Asks, HasRow, HasTombstone
  <2>3. CASE FirstStatement(c) \/ NextStatement(c)
    <3>1. pc'[c] = "writing" /\ UNCHANGED <<file, pending>>
      BY <2>3, UserEffect
    <3>2. MatchOf(c)'
      <4>1. \A r : HasRow(file', r) <=> HasRow(file, r)
        BY <3>1 DEF HasRow
      <4> QED
        BY <2>3, <3>1, <4>1, StatementTells DEF MatchOf, Stamping
    <3> QED
      BY <2>1, <2>2, <3>1, <3>2, MatchStays
  <2>4. CASE CommitTransaction(c)
    <3>1. /\ pc[c] = "writing" /\ owner = c /\ pc'[c] = "scan"
          /\ file' = view /\ pending' = viewPending
      BY <2>4, EndEffect
    <3>2. pending.rows \subseteq pending'.rows
      BY <3>1, ConnectionAssumption DEF PlanInv, Queued
    <3>3. file'.versions = file.versions /\ file'.tombs = file.tombs
      BY <3>1, FileFields DEF LoopInv, Opened, TypeInv, TablesOK
    <3>4. \A r : /\ HasVersion(file', r) <=> HasVersion(file, r)
                 /\ HasTombstone(file', r) <=> HasTombstone(file, r)
      BY <3>3 DEF HasVersion, HasTombstone
    <3>5. \A r : /\ HasRow(file, r) /\ ~ HasRow(file', r) => Asks(pending', "DELETE", r)
                 /\ HasRow(file', r) /\ ~ HasRow(file, r) => Asks(pending', "INSERT", r)
      BY <3>1 DEF MatchInv, MatchOf
    <3>6. \A op, r : Asks(pending, op, r) => Asks(pending', op, r)
      BY <3>2 DEF Asks
    <3>7. Matches
      BY <3>4, <3>5, <3>6 DEF Matches, Matched, HasVersion, Asks
    <3>8. Gone(file', pending')
      BY <3>1 DEF MatchInv, MatchOf
    <3> QED
      BY <2>1, <3>1, <3>7, <3>8 DEF MatchOf, Stamping
  <2>5. CASE CommitMerge(c)
    <3>1. /\ pc[c] = "merging" /\ pc'[c] = "scan"
          /\ file' = view /\ pending' = viewPending
      BY <2>5, EndEffect
    <3>2. pending' = pending
      BY <3>1 DEF PlanInv, Queued
    <3>3. PICK x \in Incoming : file' = Merged(file, x)
      BY <3>1 DEF LoopInv, Opened
    <3>4. file \in Database /\ x \in Change /\ Texts({x})
      BY IncomingAssumption DEF TypeInv, TablesOK, Texts
    <3>5. \A r : /\ HasTombstone(file, r) => HasTombstone(file', r)
                 /\ HasRow(file, r) => HasRow(file', r) \/ HasTombstone(file', r)
                 /\ \/ HasRow(file', r) /\ HasVersion(file', r)
                    \/ HasTombstone(file', r)
                    \/ /\ HasRow(file', r) <=> HasRow(file, r)
                       /\ HasVersion(file', r) <=> HasVersion(file, r)
                       /\ HasTombstone(file', r) <=> HasTombstone(file, r)
      BY <3>3, <3>4, MergedTells
    <3>6. Matches
      BY <3>2, <3>5 DEF Matches, Matched, HasVersion
    <3>7. Gone(file', pending')
      BY <3>2, <3>5 DEF MatchInv, Gone
    <3> QED
      BY <2>1, <3>1, <3>6, <3>7 DEF MatchOf, Stamping
  <2>6. CASE RollbackTransaction(c) \/ AbortMerge(c)
    <3>1. pc'[c] = "scan" /\ file' = file /\ pending'.rows = {}
      BY <1>0, <2>6, EndEffect
    <3> QED
      BY <2>1, <2>2, <2>6, <3>1 DEF MatchOf, Stamping, Drops
  <2>7. CASE \/ Open(c) \/ ScanPending(c) \/ FillCache(c) \/ ReadClock(c)
             \/ CheckTombstone(c) \/ BeginMerge(c)
    <3>1. UNCHANGED <<file, pending>>
      BY <2>7, ReadEffect, MergeEffect
    <3>2. MatchOf(c)'
      <4>1. CASE Open(c) \/ ScanPending(c) \/ FillCache(c) \/ BeginMerge(c)
        <5>1. pc'[c] \in {"idle", "cache", "clock", "merging"}
          BY <4>1, ReadEffect, MergeEffect
        <5> QED
          BY <5>1 DEF MatchOf, Stamping
      <4>2. CASE ReadClock(c)
        <5>1. pc[c] = "clock" /\ pc'[c] = "stamp" /\ plan' = plan
          BY <4>2, ReadEffect
        <5> QED
          BY <3>1, <5>1 DEF PlanInv, PlanOf, MatchOf
      <4>3. CASE CheckTombstone(c)
        <5>1. /\ pc[c] = "stamp" /\ pc'[c] \in {"enforce", "version"}
              /\ plan' = plan
          BY <4>3, ReadEffect
        <5> QED
          BY <3>1, <5>1
          DEF MatchInv, MatchOf, Stamping, Handled, HasTombstone, HasVersion
      <4> QED
        BY <2>7, <4>1, <4>2, <4>3
    <3> QED
      BY <2>1, <2>2, <3>1, <3>2, MatchStays
  <2>8. CASE OverflowClock(c) \/ ClearPending(c) \/ Busy(c) \/ FailProcessing(c)
    <3>1. file' = file /\ pending'.rows \in {{}, pending.rows} /\ pc'[c] = "idle"
      BY <1>0, <2>8, StopEffect
    <3>2. Matches \/ Drops
      <4>1. CASE Busy(c)
        BY <3>1, <4>1, StopEffect, MatchStays
      <4>2. CASE OverflowClock(c) \/ (FailProcessing(c) /\ pc[c] # "clear")
        BY <4>2 DEF Drops
      <4>3. CASE (ClearPending(c) \/ FailProcessing(c)) /\ pc[c] = "clear"
        <5>1. \A p \in pending.rows : Handled(p)
          BY <4>3 DEF MatchInv, MatchOf
        <5>2. ASSUME NEW r, Matched(r) PROVE Matched(r)'
          <6>1. \/ HasTombstone(file, r)
                \/ (HasRow(file, r) <=> HasVersion(file, r))
            BY <5>1, <5>2, HandledSettles
          <6> QED
            BY <3>1, <6>1 DEF Matched, HasRow, HasVersion, HasTombstone
        <5> QED
          BY <5>2 DEF Matches
      <4> QED
        BY <2>8, <4>1, <4>2, <4>3, StopEffect
    <3> QED
      BY <2>1, <2>2, <3>1, <3>2 DEF MatchOf, Stamping
  <2>9. CASE \/ EntombRecord(c) \/ SweepVersions(c) \/ EnforceTombstone(c)
             \/ StampColumn(c)
    <3>1. pc'[c] \in {"sweep", "stamp"}
      BY <2>9, WriteEffect
    <3>2. /\ Matches /\ Gone(file, pending)'
          /\ \A p \in pending'.rows : p \in plan'[c].rows \/ Handled(p)'
      BY <2>9, LoopMatches
    <3>3. MatchOf(c)'
      BY <3>1, <3>2 DEF MatchOf
    <3> QED
      BY <2>1, <3>2, <3>3
  <2>10. CASE AdvanceClock(c)
    <3>1. /\ pc[c] = "stamp" /\ pc'[c] = "clear" /\ plan[c].rows = {}
          /\ file' = [file EXCEPT !.clock = stamp[c]] /\ pending' = pending
      BY <2>10, WriteEffect
    <3>2. /\ file'.rows = file.rows /\ file'.versions = file.versions
          /\ file'.tombs = file.tombs
      BY <3>1, FileFields DEF TypeInv, TablesOK
    <3>3. \A r : /\ HasRow(file', r) <=> HasRow(file, r)
                 /\ HasVersion(file', r) <=> HasVersion(file, r)
                 /\ HasTombstone(file', r) <=> HasTombstone(file, r)
      BY <3>2 DEF HasRow, HasVersion, HasTombstone
    <3>4. Matches
      BY <3>1, <3>3 DEF Matches, Matched, HasVersion
    <3>5. Gone(file', pending')
      BY <3>1, <3>3 DEF MatchInv, Gone
    <3>6. \A p \in pending'.rows : Handled(p)'
      BY <3>1, <3>3 DEF MatchInv, MatchOf, Stamping, Handled
    <3> QED
      BY <2>1, <3>1, <3>4, <3>5, <3>6 DEF MatchOf, Stamping
  <2> QED
    BY <1>3, <2>3, <2>4, <2>5, <2>6, <2>7, <2>8, <2>9, <2>10
    DEF ConnectionStep, ProcessPendingChanges
<1> QED
  BY <1>1, <1>2, <1>3 DEF Next

\* With one connection, and a column to track, the rows and the versions of a
\* record come apart by nothing but the DELETE of a rollback, of a failure or of
\* the clock's overflow: what each statement of the processing has done and what
\* is still queued tell together what became of the record, so that a crash, a
\* restart or a merge at any step leaves the rest to the next processing.  What
\* is merged carries its values, as the changes of get_changes_since do; the
\* version of a column change without a value would find no row to be written.
THEOREM MismatchesCorrect ==
  ASSUME OneConnection, Column # {}, Texts(Incoming)
  PROVE  Spec => MismatchesAreDrops
<1>1. Init => MatchInv
  BY EmptyTypes DEF Init, MatchInv, MatchOf, Gone, Stamping
<1>2. TypeInv /\ PlanInv /\ LoopInv /\ MatchInv /\ [Next]_vars
        => MatchInv' /\ [(\A r \in Record : Matched(r) => Matched(r)') \/ Drops]_vars
  BY MatchStep DEF Matches
<1> QED
  BY <1>1, <1>2, LoopInvariant, PTL DEF Spec, MismatchesAreDrops
=============================================================================
