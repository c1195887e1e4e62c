--------------------------- MODULE ServerProofs -----------------------------
(***************************************************************************)
(* Proofs about what a server does: it migrates the database, then serves   *)
(* the build and judges sessions by the clock.                              *)
(*                                                                         *)
(* Migrations, for any number of migrators, any releases with any trees and *)
(* any statements.  What carries them is the discipline of the advisory     *)
(* lock: between the verification and the last commit nobody else changes   *)
(* the ledger, so what was verified stays true.  WebServer, for any builds  *)
(* and visitors.  SessionTime, for any zones, durations and limits.         *)
(***************************************************************************)
EXTENDS Migrations, WebServer, SessionTime, DataLemmas

-----------------------------------------------------------------------------
(* Migrations: the operators of the ledger.                                 *)

\* Migrations that wait have a first one, which applyOne takes.
LEMMA FirstWaits ==
  ASSUME NEW S \in SUBSET Migration, S # {}
  PROVE  /\ NextOf(S) \in S
         /\ \A q \in S : NextOf(S).idx <= q.idx
<1> DEFINE T == {p.idx : p \in S}
<1>1. T \in SUBSET Nat /\ T # {}
  BY MigrationsAssumption DEF Migration
<1>3. PICK x \in T : \A y \in T : x <= y
  <2> HIDE DEF T
  <2> QED BY <1>1, LeastOfNaturals
<1>4. PICK p \in S : p.idx = x
  OBVIOUS
<1>5. ASSUME NEW q \in S PROVE p.idx <= q.idx
  <2>1. q.idx \in T /\ q.idx \in Nat /\ p.idx \in Nat
    BY <1>1
  <2> QED BY <1>3, <1>4, <2>1
<1> QED BY <1>5 DEF NextOf

\* A tree has one migration for an index.
LEMMA OneForAnIndex ==
  ASSUME NEW t \in Trees \union {{}}, NEW p \in t, NEW q \in t, p.idx = q.idx
  PROVE  p = q
BY MigrationsAssumption

\* Where verifyLedger finds no drift, the release contains the history, what
\* waits is the rest of the release, and all of it comes after the history.
LEMMA NoDriftIsPrefix ==
  ASSUME NEW t \in Trees \union {{}}, NEW past \in SUBSET Migration, ~Drifted(t, past)
  PROVE  /\ past \subseteq t
         /\ Pending(t, past) = t \ past
         /\ \A p \in t \ past, r \in past : r.idx < p.idx
<1>1. /\ Deleted(t, past) = {} /\ Renamed(t, past) = {}
      /\ Changed(t, past) = {} /\ Inserted(t, past) = {}
  BY DEF Drifted
<1>2. past \subseteq t
  <2> SUFFICES ASSUME NEW r \in past PROVE r \in t
    OBVIOUS
  <2>1. PICK p \in Planned(t, r.idx) : p.tag = r.tag /\ p.checksum = r.checksum
    BY <1>1 DEF Deleted, Renamed, Changed
  <2>2. p \in t /\ p.idx = r.idx
    BY DEF Planned
  <2>3. p = r
    BY <2>1, <2>2, MigrationsAssumption DEF Migration
  <2> QED BY <2>2, <2>3
<1>3. Pending(t, past) = t \ past
  BY <1>2, OneForAnIndex DEF Pending
<1>4. ASSUME NEW p \in t \ past, NEW r \in past PROVE r.idx < p.idx
  <2>1. ~(p.idx < r.idx)
    BY <1>1, <1>3 DEF Inserted
  <2>2. p.idx # r.idx
    BY <1>2, OneForAnIndex
  <2>3. p.idx \in Nat /\ r.idx \in Nat
    BY <1>2, MigrationsAssumption
  <2> QED BY <2>1, <2>2, <2>3
<1> QED BY <1>2, <1>3, <1>4

\* Every drift of a release from the history is one that a review of its tree
\* against the manifest of the history shows.
LEMMA DriftIsADiff ==
  ASSUME NEW t \in Trees \union {{}}, NEW past \in SUBSET Migration, Drifted(t, past)
  PROVE  DiffManifest(Manifest(past), t) # {}
<1> DEFINE entry(r) == [file |-> r.tag, checksum |-> r.checksum]
<1>1. \A r \in past : entry(r) \in Manifest(past)
  BY DEF Manifest
<1>2. \A e \in Manifest(past) : \E r \in past : e.file = r.tag /\ e.checksum = r.checksum
  BY DEF Manifest
<1>3. \A p \in t, r \in past : p.tag = r.tag => p.idx = r.idx
  BY TagsAssumption DEF Migration
<1>4. CASE \E r \in past : \A p \in t : p.tag # r.tag
  <2>1. PICK r \in past : \A p \in t : p.tag # r.tag
    BY <1>4
  <2>2. entry(r) \in {e \in Manifest(past) : \A p \in t : p.tag # e.file}
    BY <1>1, <2>1
  <2> QED BY <2>2 DEF DiffManifest
<1>5. CASE \A r \in past : \E p \in t : p.tag = r.tag
  <2>1. Deleted(t, past) = {}
    BY <1>3, <1>5 DEF Deleted, Planned
  <2>2. Renamed(t, past) = {}
    BY <1>3, <1>5, OneForAnIndex DEF Renamed, Planned
  <2>3. CASE Changed(t, past) # {}
    <3>1. PICK r \in past, p \in t : p.tag = r.tag /\ p.checksum # r.checksum
      BY <2>3 DEF Changed, Planned
    <3>2. entry(r) \in Recorded(Manifest(past), p)
      BY <1>1, <3>1 DEF Recorded
    <3> QED BY <3>1, <3>2 DEF DiffManifest
  <2>4. CASE Inserted(t, past) # {}
    <3>1. PICK p \in t : \A r \in past : r.idx # p.idx
      BY <2>4 DEF Inserted, Pending
    <3>2. Recorded(Manifest(past), p) = {}
      BY <1>2, <1>3, <3>1 DEF Recorded
    <3> QED BY <3>1, <3>2 DEF DiffManifest
  <2> QED BY <2>1, <2>2, <2>3, <2>4 DEF Drifted
<1> QED BY <1>4, <1>5

-----------------------------------------------------------------------------
(* The inductive invariant, in parts.                                       *)

\* Whoever is between pg_advisory_lock and the unlocking has the lock, and so has
\* a dead migrator whose commit the database may still carry out.
LockInv ==
  \A m \in Migrator :
    pc[m] \in {"ensuring", "verifying", "applying", "recorded", "unlocking", "deadCommitting"}
      => lock = m

\* What verifyLedger established stays true until the last commit: the history
\* is a first part of the release, and what waits is the rest.
WorkInv ==
  \A m \in Migrator :
    pc[m] \in {"applying", "recorded", "deadCommitting"} =>
      /\ pending[m] # {}
      /\ pending[m] = tree[m] \ ledger
      /\ ledger \subseteq tree[m]
      /\ \A p \in pending[m], r \in ledger : r.idx < p.idx

\* A transaction that has its row of the ledger has every statement of it.
WholeInv ==
  \A m \in Migrator :
    pc[m] \in {"recorded", "deadCommitting"} => tx[m] = {NextOf(pending[m])} \X Statements

IInv == TypeOK /\ LockInv /\ WorkInv /\ WholeInv /\ SchemaIsLedger

LEMMA InitIsInvariant == ASSUME Init PROVE IInv
BY DEF Init, IInv, TypeOK, LockInv, WorkInv, WholeInv, SchemaIsLedger, Code, Place

\* The first of what a migrator has to apply.
LEMMA NextIsPending ==
  ASSUME TypeOK, NEW m \in Migrator, pending[m] # {}
  PROVE  /\ NextOf(pending[m]) \in pending[m] /\ NextOf(pending[m]) \in Migration
         /\ \A q \in pending[m] : NextOf(pending[m]).idx <= q.idx
<1>1. pending[m] \in SUBSET Migration
  BY DEF TypeOK
<1> QED BY <1>1, FirstWaits

\* A commit brings the statements and the row of one migration together, the next
\* of its release.
LEMMA CommitAdds ==
  ASSUME IInv, NEW m \in Migrator, pc[m] \in {"recorded", "deadCommitting"}, Committed(m)
  PROVE  /\ ledger' \in SUBSET Migration
         /\ schema' \subseteq Migration \X Statements
         /\ SchemaIsLedger'
         /\ ledger' = ledger \union {NextOf(pending[m])}
         /\ ledger' \subseteq tree[m]
         /\ \A r \in ledger : r.idx < NextOf(pending[m]).idx
         /\ pending[m] \ {NextOf(pending[m])} = tree[m] \ ledger'
         /\ \A p \in pending[m] \ {NextOf(pending[m])}, r \in ledger' : r.idx < p.idx
<1> DEFINE n == NextOf(pending[m])
<1>1. /\ pending[m] # {}
      /\ pending[m] = tree[m] \ ledger
      /\ ledger \subseteq tree[m]
      /\ \A p \in pending[m], r \in ledger : r.idx < p.idx
  BY DEF IInv, WorkInv
<1>2. n \in pending[m] /\ n \in Migration /\ \A q \in pending[m] : n.idx <= q.idx
  BY <1>1, NextIsPending DEF IInv
<1>3. ledger' = ledger \union {n} /\ schema' = schema \union tx[m]
  BY DEF Committed
<1>4. tx[m] = {n} \X Statements
  BY DEF IInv, WholeInv
<1>5. SchemaIsLedger'
  <2>1. schema = ledger \X Statements
    BY DEF IInv, SchemaIsLedger
  <2> HIDE DEF n
  <2> QED BY <1>3, <1>4, <2>1 DEF SchemaIsLedger
<1>6. ledger' \in SUBSET Migration
  BY <1>2, <1>3 DEF IInv, TypeOK
<1>7. schema' \subseteq Migration \X Statements
  BY <1>5, <1>6 DEF SchemaIsLedger
<1>8. \A p \in pending[m] \ {n} : n.idx < p.idx
  <2> SUFFICES ASSUME NEW p \in pending[m] \ {n} PROVE n.idx < p.idx
    OBVIOUS
  <2>1. n.idx <= p.idx
    BY <1>2
  <2>2. tree[m] \in Trees \union {{}} /\ n \in tree[m] /\ p \in tree[m]
    BY <1>1, <1>2 DEF IInv, TypeOK
  <2>3. n.idx # p.idx
    BY <2>2, OneForAnIndex
  <2>4. n.idx \in Nat /\ p.idx \in Nat
    BY <2>2, MigrationsAssumption
  <2> QED BY <2>1, <2>3, <2>4
<1>9. \A p \in pending[m] \ {n}, r \in ledger' : r.idx < p.idx
  BY <1>1, <1>3, <1>8
<1> HIDE DEF n
<1> QED BY <1>1, <1>2, <1>3, <1>5, <1>6, <1>7, <1>9 DEF n

-----------------------------------------------------------------------------
(* Each action preserves the invariant.                                     *)

LEMMA StartKeeps ==
  ASSUME IInv, NEW m \in Migrator, Start(m) \/ StartFails(m)
  PROVE  IInv'
BY DEF IInv, TypeOK, LockInv, WorkInv, WholeInv, SchemaIsLedger, Start, StartFails, Goto, Code,
       Place

LEMMA LockKeeps ==
  ASSUME IInv, NEW m \in Migrator, Lock(m)
  PROVE  IInv'
<1>1. TypeOK'
  BY DEF IInv, TypeOK, Lock, Goto, Place
<1>2. LockInv'
  BY MigrationsAssumption DEF IInv, TypeOK, LockInv, Lock, Goto
<1> QED BY <1>1, <1>2 DEF IInv, TypeOK, WorkInv, WholeInv, SchemaIsLedger, Lock, Goto

LEMMA EnsureLedgerKeeps ==
  ASSUME IInv, NEW m \in Migrator, EnsureLedger(m)
  PROVE  IInv'
BY DEF IInv, TypeOK, LockInv, WorkInv, WholeInv, SchemaIsLedger, EnsureLedger, Goto, Place

LEMMA VerifyKeeps ==
  ASSUME IInv, NEW m \in Migrator, Verify(m)
  PROVE  IInv'
<1> DEFINE waiting == Pending(tree[m], ledger)
           stops == Drifted(tree[m], ledger) \/ waiting = {} \/ dryRun[m]
<1>1. /\ pc[m] = "verifying"
      /\ code' = [code EXCEPT ![m] =
                    IF Drifted(tree[m], ledger) THEN "drift" ELSE IF stops THEN "ok" ELSE @]
      /\ pending' = [pending EXCEPT ![m] = IF stops THEN {} ELSE waiting]
      /\ pc' = [pc EXCEPT ![m] = IF stops THEN "unlocking" ELSE "applying"]
      /\ UNCHANGED <<ledger, created, schema, lock, tree, dryRun, tx>>
  BY DEF Verify, Goto
<1>2. tree[m] \in Trees \union {{}} /\ ledger \in SUBSET Migration
  BY DEF IInv, TypeOK
<1>3. waiting \in SUBSET Migration
  BY <1>2 DEF Pending, Migration
<1>4. ~stops => /\ waiting # {}
                /\ waiting = tree[m] \ ledger
                /\ ledger \subseteq tree[m]
                /\ \A p \in waiting, r \in ledger : r.idx < p.idx
  <2>1. ASSUME ~Drifted(tree[m], ledger)
        PROVE  /\ waiting = tree[m] \ ledger
               /\ ledger \subseteq tree[m]
               /\ \A p \in tree[m] \ ledger, r \in ledger : r.idx < p.idx
    BY <1>2, <2>1, NoDriftIsPrefix
  <2> QED BY <2>1
<1> HIDE DEF waiting, stops
<1>5. TypeOK'
  BY <1>1, <1>3 DEF IInv, TypeOK, Code, Place
<1>6. LockInv'
  BY <1>1 DEF IInv, TypeOK, LockInv
<1>7. WorkInv'
  BY <1>1, <1>4 DEF IInv, TypeOK, WorkInv
<1> QED BY <1>1, <1>5, <1>6, <1>7 DEF IInv, TypeOK, WholeInv, SchemaIsLedger

LEMMA StatementKeeps ==
  ASSUME IInv, NEW m \in Migrator, Statement(m)
  PROVE  IInv'
<1>1. /\ pc[m] = "applying"
      /\ UNCHANGED <<ledger, created, schema, lock, pc, tree, dryRun, pending, code>>
  BY DEF Statement
<1>2. PICK s \in Statements : tx' = [tx EXCEPT ![m] = @ \union {<<NextOf(pending[m]), s>>}]
  BY DEF Statement
<1>3. NextOf(pending[m]) \in Migration
  BY <1>1, NextIsPending DEF IInv, WorkInv
<1>4. TypeOK'
  <2>1. tx' \in [Migrator -> SUBSET (Migration \X Statements)]
    BY <1>2, <1>3 DEF IInv, TypeOK
  <2> QED BY <1>1, <2>1 DEF IInv, TypeOK
<1>5. WholeInv'
  BY <1>1, <1>2 DEF IInv, TypeOK, WholeInv
<1> QED BY <1>1, <1>4, <1>5 DEF IInv, LockInv, WorkInv, SchemaIsLedger

LEMMA RecordKeeps ==
  ASSUME IInv, NEW m \in Migrator, Record(m)
  PROVE  IInv'
BY DEF IInv, TypeOK, LockInv, WorkInv, WholeInv, SchemaIsLedger, Record, Goto, Place

LEMMA CommitKeeps ==
  ASSUME IInv, NEW m \in Migrator, Commit(m)
  PROVE  IInv'
<1> DEFINE rest == pending[m] \ {NextOf(pending[m])}
<1>1. /\ pc[m] = "recorded" /\ Committed(m)
      /\ tx' = [tx EXCEPT ![m] = {}]
      /\ pending' = [pending EXCEPT ![m] = rest]
      /\ code' = [code EXCEPT ![m] = IF rest = {} THEN "ok" ELSE @]
      /\ pc' = [pc EXCEPT ![m] = IF rest = {} THEN "unlocking" ELSE "applying"]
      /\ UNCHANGED <<created, lock, tree, dryRun>>
  BY DEF Commit, Committed, Goto
<1>2. /\ ledger' \in SUBSET Migration
      /\ schema' \subseteq Migration \X Statements
      /\ SchemaIsLedger'
      /\ ledger' \subseteq tree[m]
      /\ rest = tree[m] \ ledger'
      /\ \A p \in rest, r \in ledger' : r.idx < p.idx
  BY <1>1, CommitAdds
<1>3. rest \in SUBSET Migration
  BY DEF IInv, TypeOK
<1> HIDE DEF rest
<1>4. TypeOK'
  BY <1>1, <1>2, <1>3 DEF IInv, TypeOK, Code, Place
<1>5. LockInv'
  BY <1>1 DEF IInv, TypeOK, LockInv
<1>6. WorkInv'
  <2> SUFFICES ASSUME NEW n \in Migrator, pc'[n] \in {"applying", "recorded", "deadCommitting"}
               PROVE  /\ pending'[n] # {}
                      /\ pending'[n] = tree'[n] \ ledger'
                      /\ ledger' \subseteq tree'[n]
                      /\ \A p \in pending'[n], r \in ledger' : r.idx < p.idx
    BY DEF WorkInv
  <2>1. n = m
    BY <1>1 DEF IInv, TypeOK, LockInv
  <2> QED BY <1>1, <1>2, <2>1 DEF IInv, TypeOK
<1>7. WholeInv'
  BY <1>1 DEF IInv, TypeOK, LockInv, WholeInv
<1> QED BY <1>2, <1>4, <1>5, <1>6, <1>7 DEF IInv

\* A failure, and the end of a dead session: the commit was carried out or all is
\* undone, and the migrator has nothing in hand.
LEMMA GivenUpKeeps ==
  ASSUME IInv, NEW m \in Migrator,
         \/ tx' = [tx EXCEPT ![m] = {}] /\ UNCHANGED <<ledger, schema>>
         \/ pc[m] \in {"recorded", "deadCommitting"} /\ Committed(m),
         pending' = [pending EXCEPT ![m] = {}],
         NEW place \in {"unlocking", "off"}, pc' = [pc EXCEPT ![m] = place],
         TypeOK => tree' \in [Migrator -> Trees \union {{}}],
         \A n \in Migrator : n # m => tree'[n] = tree[n],
         LockInv', created' \in BOOLEAN, lock' \in Migrator \union {NoMigrator},
         dryRun' \in [Migrator -> BOOLEAN], code' \in [Migrator -> Code]
  PROVE  IInv'
<1>1. /\ tx' = [tx EXCEPT ![m] = {}]
      /\ ledger' \in SUBSET Migration /\ schema' \subseteq Migration \X Statements
      /\ SchemaIsLedger'
  BY CommitAdds DEF Committed, IInv, TypeOK, SchemaIsLedger
<1>2. \A n \in Migrator :
        n # m /\ pc[n] \in {"applying", "recorded", "deadCommitting"} => ledger' = ledger
  BY DEF IInv, LockInv
<1>3. TypeOK'
  BY <1>1 DEF IInv, TypeOK, Place
<1>4. WorkInv'
  BY <1>2 DEF IInv, TypeOK, WorkInv
<1>5. WholeInv'
  BY <1>1 DEF IInv, TypeOK, WholeInv
<1> QED BY <1>1, <1>3, <1>4, <1>5 DEF IInv

LEMMA FailKeeps ==
  ASSUME IInv, NEW m \in Migrator, Fail(m)
  PROVE  IInv'
<1>1. LockInv'
  BY DEF IInv, TypeOK, LockInv, Fail, Goto
<1>2. code' \in [Migrator -> Code]
  BY DEF IInv, TypeOK, Fail, Code
<1>3. /\ \/ tx' = [tx EXCEPT ![m] = {}] /\ UNCHANGED <<ledger, schema>>
         \/ pc[m] \in {"recorded", "deadCommitting"} /\ Committed(m)
      /\ pending' = [pending EXCEPT ![m] = {}]
      /\ pc' = [pc EXCEPT ![m] = "unlocking"]
      /\ UNCHANGED <<created, lock, tree, dryRun>>
  BY DEF Fail, Goto
<1> QED BY <1>1, <1>2, <1>3, GivenUpKeeps DEF IInv, TypeOK

LEMMA SessionEndsKeeps ==
  ASSUME IInv, NEW m \in Migrator, SessionEnds(m)
  PROVE  IInv'
<1>1. /\ \/ tx' = [tx EXCEPT ![m] = {}] /\ UNCHANGED <<ledger, schema>>
         \/ pc[m] \in {"recorded", "deadCommitting"} /\ Committed(m)
      /\ lock' = IF lock = m THEN NoMigrator ELSE lock
      /\ pending' = [pending EXCEPT ![m] = {}]
      /\ pc' = [pc EXCEPT ![m] = "off"]
      /\ tree' = [tree EXCEPT ![m] = {}]
      /\ dryRun' = [dryRun EXCEPT ![m] = FALSE]
      /\ UNCHANGED <<created, code>>
  BY DEF SessionEnds, Leave, Goto
<1>2. LockInv'
  BY <1>1 DEF IInv, TypeOK, LockInv
<1> QED BY <1>1, <1>2, GivenUpKeeps DEF IInv, TypeOK

LEMMA UnlockKeeps ==
  ASSUME IInv, NEW m \in Migrator, Unlock(m)
  PROVE  IInv'
BY DEF IInv, TypeOK, LockInv, WorkInv, WholeInv, SchemaIsLedger, Unlock, Leave, Goto, Place

LEMMA CrashKeeps ==
  ASSUME IInv, NEW m \in Migrator, Crash(m)
  PROVE  IInv'
BY DEF IInv, TypeOK, LockInv, WorkInv, WholeInv, SchemaIsLedger, Crash, Goto, Code, Place

LEMMA StepKeeps == ASSUME IInv, [Next]_vars PROVE IInv'
<1>1. CASE UNCHANGED vars
  BY <1>1 DEF IInv, TypeOK, LockInv, WorkInv, WholeInv, SchemaIsLedger, vars
<1>2. CASE Next
  BY <1>2, StartKeeps, LockKeeps, EnsureLedgerKeeps, VerifyKeeps, StatementKeeps, RecordKeeps,
     CommitKeeps, FailKeeps, UnlockKeeps, CrashKeeps, SessionEndsKeeps DEF Next
<1> QED BY <1>1, <1>2

-----------------------------------------------------------------------------
(* The theorems.                                                            *)

\* Schema and ledger, the lock, and what the holder of the lock has verified, hold
\* together whatever the migrators of any releases do, and whenever they die.
THEOREM MigrationsInductive == Spec => []IInv
<1>1. Init => IInv
  BY InitIsInvariant
<1>2. IInv /\ [Next]_vars => IInv'
  BY StepKeeps
<1> QED BY <1>1, <1>2, PTL DEF Spec

\* Every variable of the migrator keeps its type.
THEOREM MigrationsTypeCorrect == Spec => []TypeOK
<1>1. IInv => TypeOK
  BY DEF IInv
<1> QED BY <1>1, MigrationsInductive, PTL

\* The statements in effect are those of the recorded migrations, each whole.
THEOREM CrashesLeaveNoHalf == Spec => []SchemaIsLedger
<1>1. IInv => SchemaIsLedger
  BY DEF IInv
<1> QED BY <1>1, MigrationsInductive, PTL

\* The recorded history is only continued, by the holder of the lock, from a release
\* that contains it.
THEOREM HistoryContinued == Spec => HistoryIsContinued
<1> DEFINE Continues ==
      ledger' # ledger =>
        /\ lock # NoMigrator
        /\ ledger \subseteq ledger'
        /\ ledger' \subseteq tree[lock]
        /\ \A p \in ledger' \ ledger, r \in ledger : r.idx < p.idx
<1>1. ASSUME IInv, Next, ledger' # ledger
      PROVE  \E m \in Migrator : pc[m] \in {"recorded", "deadCommitting"} /\ Committed(m)
  BY <1>1 DEF Next, Start, StartFails, Lock, EnsureLedger, Verify, Statement, Record, Commit, Fail,
              Unlock, Crash, SessionEnds
<1>2. IInv /\ [Next]_vars => Continues
  <2> SUFFICES ASSUME IInv, Next, ledger' # ledger PROVE Continues
    BY DEF vars
  <2>1. PICK m \in Migrator : pc[m] \in {"recorded", "deadCommitting"} /\ Committed(m)
    BY <1>1
  <2>2. lock = m /\ m # NoMigrator
    BY <2>1, MigrationsAssumption DEF IInv, LockInv
  <2> QED BY <2>1, <2>2, CommitAdds
<1> QED BY <1>2, MigrationsInductive, PTL DEF Spec, HistoryIsContinued

\* Success means a database at the release of the migrator, and a drift is one that
\* a review of the manifest shows.
THEOREM ExitCodesTrue == Spec => ExitCodesAreTrue
<1>1. ASSUME IInv, NEW n \in Migrator, Verify(n), NEW m \in Migrator, code'[m] # code[m]
      PROVE  /\ code'[m] = "ok" /\ ~dryRun[m] => ledger' = tree[m]
             /\ code'[m] = "drift" => DiffManifest(Manifest(ledger), tree[m]) # {}
  <2>1. n = m
    BY <1>1 DEF Verify, IInv, TypeOK
  <2>2. tree[m] \in Trees \union {{}} /\ ledger \in SUBSET Migration
    BY <1>1 DEF IInv, TypeOK
  <2>3. code'[m] = "drift" => Drifted(tree[m], ledger)
    BY <1>1, <2>1 DEF Verify, IInv, TypeOK
  <2>4. code'[m] = "ok" => /\ ~Drifted(tree[m], ledger)
                           /\ Pending(tree[m], ledger) = {} \/ dryRun[m]
    BY <1>1, <2>1 DEF Verify, IInv, TypeOK
  <2>5. ledger' = ledger
    BY <1>1 DEF Verify
  <2>6. ~Drifted(tree[m], ledger) /\ Pending(tree[m], ledger) = {} => ledger = tree[m]
    <3>1. ASSUME ~Drifted(tree[m], ledger)
          PROVE  ledger \subseteq tree[m] /\ Pending(tree[m], ledger) = tree[m] \ ledger
      BY <2>2, <3>1, NoDriftIsPrefix
    <3> QED BY <3>1
  <2>7. Drifted(tree[m], ledger) => DiffManifest(Manifest(ledger), tree[m]) # {}
    BY <2>2, DriftIsADiff
  <2> QED BY <2>3, <2>4, <2>5, <2>6, <2>7
<1>2. ASSUME IInv, NEW n \in Migrator, Commit(n), NEW m \in Migrator, code'[m] # code[m]
      PROVE  /\ code'[m] = "ok" => ledger' = tree[m]
             /\ code'[m] # "drift"
  <2>1. n = m /\ code'[m] = "ok" /\ pending[m] \ {NextOf(pending[m])} = {}
    BY <1>2 DEF Commit, IInv, TypeOK
  <2>2. ledger' \subseteq tree[m] /\ tree[m] \ ledger' = {}
    BY <1>2, <2>1, CommitAdds DEF Commit
  <2> QED BY <2>1, <2>2
<1>3. ASSUME IInv, Next, NEW m \in Migrator, code'[m] # code[m]
      PROVE  \/ code'[m] \notin {"ok", "drift"}
             \/ \E n \in Migrator : Verify(n) \/ Commit(n)
  BY <1>3 DEF IInv, TypeOK, Next, Start, StartFails, Lock, EnsureLedger, Statement, Record, Fail,
              Unlock, Crash, SessionEnds
<1>4. IInv /\ [Next]_vars =>
        \A m \in Migrator : code'[m] # code[m] =>
          /\ code'[m] = "ok" /\ ~dryRun[m] => ledger' = tree[m]
          /\ code'[m] = "drift" => DiffManifest(Manifest(ledger), tree[m]) # {}
  BY <1>1, <1>2, <1>3 DEF vars
<1> QED BY <1>4, MigrationsInductive, PTL DEF Spec, ExitCodesAreTrue

-----------------------------------------------------------------------------
(* WebServer: the index of validators.                                      *)

\* The index has the paths of what is not named by a hash, and the validator there is
\* that of a file that answers for the path.
LEMMA IndexIsOfFiles ==
  ASSUME NEW site \in Builds, NEW p
  PROVE  /\ p \in DOMAIN EtagIndex(site) <=> \E f \in FilesAt(site, p) : f.form # "hashed"
         /\ p \in DOMAIN EtagIndex(site) =>
              \E f \in FilesAt(site, p) : EtagIndex(site)[p] = HashFile(site[f])
<1> DEFINE at(side) == {f \in Walk(site, side) : p \in Entries(f)}
           paths == UNION {Entries(f) : f \in Walk(site, "client") \union Walk(site, "prerendered")}
           file == IF at("prerendered") # {} THEN CHOOSE f \in at("prerendered") : TRUE
                                             ELSE CHOOSE f \in at("client") : TRUE
<1>1. DOMAIN EtagIndex(site) = paths
  BY DEF EtagIndex
<1>2. p \in paths => EtagIndex(site)[p] = HashFile(site[file])
  BY DEF EtagIndex
<1>3. p \in paths <=> \E f \in FilesAt(site, p) : f.form # "hashed"
  <2>1. \A f \in DOMAIN site : f.form # "hashed" => Entries(f) = Pathnames(f)
    BY WebAssumption, ClientHasNoPages DEF Entries, Pathnames
  <2> QED BY <2>1, WebAssumption DEF Walk, FilesAt
<1>4. p \in paths => file \in at("prerendered") \union at("client")
  OBVIOUS
<1>5. at("prerendered") \union at("client") \subseteq FilesAt(site, p)
  BY ClientHasNoPages DEF Walk, FilesAt, Entries, Pathnames
<1> QED BY <1>1, <1>2, <1>3, <1>4, <1>5

\* If one file of the build answers for the path, that is the one.
LEMMA OneFile ==
  ASSUME NEW site \in Builds, NEW p, ~TwoFiles(site, p)
  PROVE  \A f, g \in FilesAt(site, p) : f = g
<1> SUFFICES ASSUME NEW f \in FilesAt(site, p), NEW g \in FilesAt(site, p), f # g PROVE FALSE
  OBVIOUS
<1>1. IsFiniteSet(FilesAt(site, p))
  BY WebAssumption, FS_Subset DEF FilesAt
<1>2. Cardinality({f} \union {g}) = 2 /\ {f} \union {g} \subseteq FilesAt(site, p)
  <2>1. IsFiniteSet({f}) /\ Cardinality({f}) = 1 /\ g \notin {f}
    BY FS_Singleton
  <2>2. Cardinality({f} \union {g}) = Cardinality({f}) + 1
    BY <2>1, FS_AddElement
  <2> QED BY <2>1, <2>2
<1>3. Cardinality(FilesAt(site, p)) \in Nat /\ Cardinality(FilesAt(site, p)) >= 2
  BY <1>1, <1>2, FS_Subset, FS_CardinalityType
<1> QED BY <1>3 DEF TwoFiles

LEMMA ServedIsThere ==
  ASSUME NEW site, NEW p, FilesAt(site, p) # {} PROVE FileServed(site, p) \in FilesAt(site, p)
BY DEF FileServed

-----------------------------------------------------------------------------
(* The copies of a visitor.                                                 *)

\* What the wrapped server gives a page: the validator of its contents, to be asked for
\* again, or, of an asset that a hash names, sirv's, and for good.
PageCopy(copy, p) ==
  /\ p \in DOMAIN EtagIndex(copy.of)
  /\ copy.policy = "no-cache" /\ copy.etag = EtagIndex(copy.of)[p]
  /\ TwoFiles(copy.of, p) \/ copy.body = copy.of[FileServed(copy.of, p)]

AssetCopy(copy, p) ==
  /\ FilesAt(copy.of, p) # {} /\ FileServed(copy.of, p).form = "hashed"
  /\ ~copy.etag.strong
  /\ copy.body = copy.of[FileServed(copy.of, p)]

CopyInv ==
  /\ DOMAIN copies = Path
  /\ \A p \in Path : copies[p] # NoCopy /\ copies[p].from = "server.js" =>
       /\ copies[p].of \in Builds
       /\ PageCopy(copies[p], p) \/ AssetCopy(copies[p], p)

\* A container runs the build that it was started with, and not by another role's link.
ProcInv ==
  /\ image \in Builds
  /\ DOMAIN procs = Container
  /\ \A c \in Container : procs[c].runs # "none" =>
       /\ procs[c].site \in Builds /\ procs[c].index = EtagIndex(procs[c].site)
       /\ procs[c].runs = "web" => procs[c].link # "worker"

WebInv == CopyInv /\ ProcInv /\ PagesAreTheContainers

\* The validator of a page or of an asset brings back what the container itself holds.
LEMMA CopyIsTheFile ==
  ASSUME NEW site \in Builds, NEW p \in Path, NEW copy, copy.of \in Builds,
         PageCopy(copy, p) \/ AssetCopy(copy, p), FilesAt(site, p) # {},
         \/ p \in DOMAIN EtagIndex(site) /\ copy.etag = EtagIndex(site)[p]
         \/ copy.etag = [strong |-> FALSE, of |-> Size[site[FileServed(site, p)]]]
  PROVE  \/ TwoFiles(site, p) \/ TwoFiles(copy.of, p)
         \/ copy.body = site[FileServed(site, p)]
<1>1. FileServed(site, p) \in FilesAt(site, p)
  BY ServedIsThere
<1>2. CASE AssetCopy(copy, p)
  <2>1. FileServed(copy.of, p) \in FilesAt(copy.of, p) /\ FileServed(copy.of, p).form = "hashed"
    BY <1>2, ServedIsThere DEF AssetCopy
  <2>2. copy.of[FileServed(copy.of, p)] = site[FileServed(site, p)]
    BY <1>1, <2>1, HashedNames DEF FilesAt
  <2> QED BY <1>2, <2>2 DEF AssetCopy
<1>3. CASE PageCopy(copy, p) /\ ~TwoFiles(site, p) /\ ~TwoFiles(copy.of, p)
  <2>1. PICK f \in FilesAt(copy.of, p) : copy.etag = HashFile(copy.of[f])
    BY <1>3, IndexIsOfFiles DEF PageCopy
  <2>2. copy.etag.strong
    BY <2>1 DEF HashFile
  <2>3. p \in DOMAIN EtagIndex(site) /\ copy.etag = EtagIndex(site)[p]
    BY <2>2
  <2>4. PICK g \in FilesAt(site, p) : copy.etag = HashFile(site[g])
    BY <2>3, IndexIsOfFiles
  <2>5. copy.of[f] = site[g]
    BY <2>1, <2>4 DEF HashFile
  <2>6. f = FileServed(copy.of, p) /\ g = FileServed(site, p)
    BY <1>3, <2>1, <2>4, OneFile, ServedIsThere
  <2> QED BY <1>3, <2>5, <2>6 DEF PageCopy
<1> QED BY <1>2, <1>3

\* One request to the wrapped server: what is fresh is right, and what is not modified
\* is the copy that was asked about.
LEMMA ListenerAnswers ==
  ASSUME NEW site \in Builds, NEW p \in Path, NEW tag
  PROVE  LET response == RequestListener(site, EtagIndex(site), p, tag)
         IN  /\ response.status = 200 /\ FilesAt(site, p) # {} =>
                  \/ /\ p \in DOMAIN EtagIndex(site)
                     /\ response.policy = "no-cache" /\ response.etag = EtagIndex(site)[p]
                     /\ response.body = site[FileServed(site, p)]
                  \/ /\ FileServed(site, p).form = "hashed" /\ ~response.etag.strong
                     /\ response.body = site[FileServed(site, p)]
             /\ FilesAt(site, p) = {} => response.status # 304 /\ response.etag = NoCopy
             /\ response.status = 304 =>
                  \/ p \in DOMAIN EtagIndex(site) /\ tag = EtagIndex(site)[p]
                  \/ tag = [strong |-> FALSE, of |-> Size[site[FileServed(site, p)]]]
<1> DEFINE index == EtagIndex(site)
           answered == Handler(site, p, tag)
<1>1. CASE p \in DOMAIN index /\ tag = index[p]
  <2>1. RequestListener(site, index, p, tag) = Response(304, NoCopy, index[p], "no-cache")
    BY <1>1 DEF RequestListener
  <2>2. FilesAt(site, p) # {}
    BY <1>1, IndexIsOfFiles
  <2> QED BY <1>1, <2>1, <2>2 DEF Response
<1>2. ASSUME FilesAt(site, p) # {}
      PROVE  /\ answered.status = 304 =>
                  tag = [strong |-> FALSE, of |-> Size[site[FileServed(site, p)]]]
             /\ answered.status = 200 =>
                  /\ answered.body = site[FileServed(site, p)]
                  /\ ~answered.etag.strong
             /\ answered = [status |-> answered.status, body |-> answered.body,
                            etag |-> answered.etag, policy |-> answered.policy]
  <2> DEFINE weak == [strong |-> FALSE, of |-> Size[site[FileServed(site, p)]]]
  <2>1. CASE tag = weak
    <3>1. answered = [status |-> 304, body |-> NoCopy, etag |-> NoCopy, policy |-> "none"]
      BY <1>2, <2>1 DEF Handler, Sirv, Response
    <3> QED BY <2>1, <3>1
  <2>2. CASE tag # weak
    <3>1. PICK policy :
            answered = [status |-> 200, body |-> site[FileServed(site, p)], etag |-> weak,
                        policy |-> policy]
      BY <1>2, <2>2 DEF Handler, Sirv, Response
    <3>2. ~weak.strong
      OBVIOUS
    <3> HIDE DEF weak
    <3> QED BY <3>1, <3>2
  <2> QED BY <2>1, <2>2
<1>3. FilesAt(site, p) = {} => answered.status # 304 /\ answered.etag = NoCopy
  BY DEF Handler, Handle, Response
<1>4. CASE p \in DOMAIN index /\ tag # index[p]
  <2>1. RequestListener(site, index, p, tag) = Patched(answered, index[p])
    BY <1>4 DEF RequestListener
  <2>2. FilesAt(site, p) # {}
    BY <1>4, IndexIsOfFiles
  <2> HIDE DEF answered, index
  <2> QED BY <1>2, <1>4, <2>1, <2>2 DEF Patched, index
<1>5. CASE p \notin DOMAIN index
  <2>1. RequestListener(site, index, p, tag) = answered
    BY <1>5 DEF RequestListener
  <2>2. FilesAt(site, p) # {} => FileServed(site, p).form = "hashed"
    BY <1>5, IndexIsOfFiles, ServedIsThere
  <2> HIDE DEF answered, index
  <2> QED BY <1>2, <1>3, <2>1, <2>2 DEF index
<1> QED BY <1>1, <1>4, <1>5

LEMMA AskKeeps ==
  ASSUME WebInv, NEW c \in Container, NEW p \in Path, Ask(c, p) PROVE WebInv'
<1> DEFINE copy == copies[p]
           site == procs[c].site
           tag == IF copy = NoCopy THEN NoCopy ELSE copy.etag
           response == IF procs[c].server = "server.js"
                       THEN RequestListener(site, procs[c].index, p, tag)
                       ELSE Handler(site, p, tag)
           kept == [body |-> response.body, etag |-> response.etag, policy |-> response.policy,
                    from |-> procs[c].server, of |-> site]
<1>1. /\ site \in Builds /\ procs[c].index = EtagIndex(site)
      /\ UNCHANGED <<image, procs, steps>>
  BY DEF Ask, WebInv, ProcInv
<1>2. ProcInv' /\ \A d \in Container : procs'[d].runs = "web" => procs'[d].link # "worker"
  BY <1>1 DEF WebInv, ProcInv
<1>3. /\ response.status = 200 =>
           /\ copies' = IF response.etag = NoCopy THEN copies ELSE [copies EXCEPT ![p] = kept]
           /\ shown' = Shown(p, kept, site)
      /\ response.status = 304 => shown' = Shown(p, copy, site) /\ UNCHANGED copies
      /\ response.status \notin {200, 304} => UNCHANGED <<copies, shown>>
  BY DEF Ask
<1>4. kept.from = procs[c].server /\ kept.of = site /\ kept.body = response.body
      /\ kept.etag = response.etag /\ kept.policy = response.policy
  OBVIOUS
<1>5. \A q, k, s : /\ Shown(q, k, s).path = q /\ Shown(q, k, s).body = k.body
                   /\ Shown(q, k, s).from = k.from /\ Shown(q, k, s).of = k.of
                   /\ Shown(q, k, s).site = s
  BY DEF Shown
<1>6. procs[c].server = "server.js" => response = RequestListener(site, EtagIndex(site), p, tag)
  BY <1>1
<1>7. ASSUME procs[c].server = "server.js", response.status = 200, FilesAt(site, p) # {}
      PROVE  /\ kept.body = site[FileServed(site, p)]
             /\ PageCopy(kept, p) \/ AssetCopy(kept, p)
  <2> HIDE DEF response, tag, site, copy
  <2>1. \/ /\ p \in DOMAIN EtagIndex(site)
           /\ response.policy = "no-cache" /\ response.etag = EtagIndex(site)[p]
           /\ response.body = site[FileServed(site, p)]
        \/ /\ FileServed(site, p).form = "hashed" /\ ~response.etag.strong
           /\ response.body = site[FileServed(site, p)]
    BY <1>1, <1>6, <1>7, ListenerAnswers
  <2> HIDE DEF kept
  <2> QED BY <1>4, <1>7, <2>1 DEF PageCopy, AssetCopy
<1> HIDE DEF response, kept, tag, site, copy
<1>8. CopyInv'
  <2>1. CASE UNCHANGED copies
    BY <2>1 DEF WebInv, CopyInv
  <2>2. CASE response.status = 200 /\ response.etag # NoCopy /\ copies' = [copies EXCEPT ![p] = kept]
    <3>1. DOMAIN copies' = Path /\ copies'[p] = kept /\ \A q \in Path \ {p} : copies'[q] = copies[q]
      BY <2>2 DEF WebInv, CopyInv
    <3>2. kept.from = "server.js" => kept.of \in Builds /\ (PageCopy(kept, p) \/ AssetCopy(kept, p))
      <4>1. kept.from = "server.js" => FilesAt(site, p) # {}
        BY <1>1, <1>4, <1>6, <2>2, ListenerAnswers
      <4> QED BY <1>1, <1>4, <1>7, <2>2, <4>1
    <3> QED BY <3>1, <3>2 DEF WebInv, CopyInv
  <2> QED BY <1>3, <2>1, <2>2
<1>9. PagesAreTheContainers'
  <2>1. CASE response.status = 200
    <3>1. /\ shown'.path = p /\ shown'.body = kept.body /\ shown'.from = procs[c].server
          /\ shown'.of = site /\ shown'.site = site
      BY <1>3, <1>4, <1>5, <2>1
    <3>2. site # NoCopy
      BY <1>1, WebAssumption
    <3> QED BY <1>2, <1>7, <2>1, <3>1, <3>2 DEF PagesAreTheContainers
  <2>2. CASE response.status = 304
    <3>1. /\ shown'.path = p /\ shown'.body = copy.body /\ shown'.from = copy.from
          /\ shown'.of = copy.of /\ shown'.site = site
      BY <1>3, <1>5, <2>2
    <3>2. site # NoCopy
      BY <1>1, WebAssumption
    <3>3. ASSUME copy.from = "server.js", FilesAt(site, p) # {}
          PROVE  \/ TwoFiles(site, p) \/ TwoFiles(copy.of, p)
                 \/ copy.body = site[FileServed(site, p)]
      <4>1. \/ p \in DOMAIN EtagIndex(site) /\ tag = EtagIndex(site)[p]
            \/ tag = [strong |-> FALSE, of |-> Size[site[FileServed(site, p)]]]
        <5>1. CASE procs[c].server = "server.js"
          BY <1>1, <1>6, <2>2, <5>1, ListenerAnswers
        <5>2. CASE procs[c].server # "server.js"
          BY <2>2, <3>3, <5>2 DEF response, Handler, Sirv, Response
        <5> QED BY <5>1, <5>2
      <4>2. copy # NoCopy /\ tag = copy.etag
        <5>1. tag \in [strong : BOOLEAN, of : Body \union Nat]
          <6>1. \A f \in FilesAt(site, p) : site[f] \in Body /\ Size[site[f]] \in Nat
            BY <1>1, WebAssumption DEF FilesAt
          <6>2. p \in DOMAIN EtagIndex(site) => \E f \in FilesAt(site, p) :
                  EtagIndex(site)[p] = [strong |-> TRUE, of |-> site[f]]
            BY <1>1, IndexIsOfFiles DEF HashFile
          <6>3. FileServed(site, p) \in FilesAt(site, p)
            BY <3>3, ServedIsThere
          <6>4. CASE p \in DOMAIN EtagIndex(site) /\ tag = EtagIndex(site)[p]
            <7>1. PICK f \in FilesAt(site, p) : tag = [strong |-> TRUE, of |-> site[f]]
              BY <6>2, <6>4
            <7>2. site[f] \in Body
              BY <6>1
            <7> QED BY <7>1, <7>2
          <6>5. CASE tag = [strong |-> FALSE, of |-> Size[site[FileServed(site, p)]]]
            BY <6>1, <6>3, <6>5
          <6> QED BY <4>1, <6>4, <6>5
        <5>2. tag # NoCopy
          BY <5>1, WebAssumption
        <5> QED BY <5>2 DEF tag
      <4>3. copy.of \in Builds /\ (PageCopy(copy, p) \/ AssetCopy(copy, p))
        BY <3>3, <4>2 DEF copy, WebInv, CopyInv
      <4> QED BY <1>1, <3>3, <4>1, <4>2, <4>3, CopyIsTheFile
    <3> QED BY <1>2, <3>1, <3>2, <3>3 DEF PagesAreTheContainers
  <2>3. CASE response.status \notin {200, 304}
    BY <1>2, <1>3, <2>3 DEF WebInv, PagesAreTheContainers
  <2> QED BY <2>1, <2>2, <2>3
<1> QED BY <1>2, <1>8, <1>9 DEF WebInv

LEMMA ShowCopyKeeps == ASSUME WebInv, NEW p \in Path, ShowCopy(p) PROVE WebInv'
<1>1. UNCHANGED <<image, procs, copies, steps>> /\ shown' = Shown(p, copies[p], NoCopy)
  BY DEF ShowCopy
<1>2. CopyInv' /\ ProcInv'
  BY <1>1 DEF WebInv, CopyInv, ProcInv
<1>3. /\ shown'.path = p /\ shown'.from = copies[p].from /\ shown'.site = NoCopy
  BY <1>1 DEF Shown
<1>4. ASSUME copies[p].from = "server.js"
      PROVE  \E site \in Builds : \E f \in FilesAt(site, p) : f.form = "hashed"
  <2>1. copies[p].of \in Builds /\ AssetCopy(copies[p], p)
    BY <1>4 DEF ShowCopy, WebInv, CopyInv, PageCopy
  <2> QED BY <2>1, ServedIsThere DEF AssetCopy
<1>5. \A c \in Container : procs'[c].runs = "web" => procs'[c].link # "worker"
  BY <1>1 DEF WebInv, ProcInv
<1> QED BY <1>2, <1>3, <1>4, <1>5 DEF WebInv, PagesAreTheContainers

LEMMA StartContainerKeeps ==
  ASSUME WebInv, NEW c \in Container, StartContainer(c) PROVE WebInv'
<1>1. PICK link \in {"web", "worker", "node"}, args \in Arguments, loads \in BOOLEAN,
           server \in {"server.js", "build/index.js"} :
        LET started == RunPlatformEntrypoint(link, args, loads)
        IN procs' = [procs EXCEPT ![c] =
                       IF started.runs = "none" THEN started
                       ELSE [runs |-> started.runs, link |-> link, site |-> image,
                             server |-> server, index |-> EtagIndex(image)]]
  BY DEF StartContainer
<1> DEFINE started == RunPlatformEntrypoint(link, args, loads)
<1>2. link = "worker" => started.runs # "web"
  BY DEF RunPlatformEntrypoint, ResolvePlatformRole, Role
<1> HIDE DEF started
<1>3. procs'[c] = IF started.runs = "none" THEN started
                  ELSE [runs |-> started.runs, link |-> link, site |-> image,
                        server |-> server, index |-> EtagIndex(image)]
  BY <1>1 DEF started, WebInv, ProcInv
<1>4. DOMAIN procs' = Container /\ \A d \in Container \ {c} : procs'[d] = procs[d]
  BY <1>1 DEF WebInv, ProcInv
<1>5. UNCHANGED <<image, copies>> /\ shown' = NoCopy
  BY DEF StartContainer
<1>6. ProcInv'
  BY <1>2, <1>3, <1>4, <1>5 DEF WebInv, ProcInv
<1>7. CopyInv'
  BY <1>5 DEF WebInv, CopyInv
<1> QED BY <1>5, <1>6, <1>7 DEF WebInv, ProcInv, PagesAreTheContainers

LEMMA WebStepKeeps == ASSUME WebInv, [WebNext]_webVars PROVE WebInv'
<1>1. CASE Deploy
  <2>1. image' \in Builds /\ UNCHANGED <<procs, copies>> /\ shown' = NoCopy
    BY <1>1 DEF Deploy
  <2> QED BY <2>1 DEF WebInv, CopyInv, ProcInv, PagesAreTheContainers
<1>2. ASSUME NEW c \in Container, StopContainer(c) PROVE WebInv'
  <2>1. /\ procs' = [procs EXCEPT ![c] = [runs |-> "none", code |-> 0]]
        /\ UNCHANGED <<image, copies>> /\ shown' = NoCopy
    BY <1>2 DEF StopContainer
  <2>2. /\ procs'[c].runs = "none" /\ DOMAIN procs' = Container
        /\ \A d \in Container \ {c} : procs'[d] = procs[d]
    BY <2>1 DEF WebInv, ProcInv
  <2> QED BY <2>1, <2>2 DEF WebInv, CopyInv, ProcInv, PagesAreTheContainers
<1>3. CASE UNCHANGED webVars
  BY <1>3 DEF webVars, WebInv, CopyInv, ProcInv, PagesAreTheContainers
<1> QED BY <1>1, <1>2, <1>3, StartContainerKeeps, AskKeeps, ShowCopyKeeps DEF WebNext

\* A visitor is shown what the container that answers holds, however many builds
\* have answered before.
THEOREM VisitorsSeeTheBuild == WebSpec => []PagesAreTheContainers
<1>1. WebInit => WebInv
  <2> SUFFICES ASSUME WebInit PROVE WebInv
    OBVIOUS
  <2>1. CopyInv /\ ProcInv
    BY DEF WebInit, CopyInv, ProcInv
  <2> QED BY <2>1 DEF WebInit, WebInv, PagesAreTheContainers
<1>2. WebInv /\ [WebNext]_webVars => WebInv'
  BY WebStepKeeps
<1>3. WebInv => PagesAreTheContainers
  BY DEF WebInv
<1> QED BY <1>1, <1>2, <1>3, PTL DEF WebSpec

-----------------------------------------------------------------------------
(* SessionTime: what a caller has been allowed.                             *)

\* Attempts in the order in which they were allowed, none of them yet to come.
InTimeOrder(stamps, t) ==
  /\ stamps \in Seq(Int)
  /\ \A n \in DOMAIN stamps : stamps[n] <= t
  /\ \A m, n \in DOMAIN stamps : m <= n => stamps[m] <= stamps[n]

\* What is recent of them is their end.
LEMMA RecentIsTail ==
  ASSUME NEW t \in Int, NEW c \in Int, NEW s, InTimeOrder(s, t)
  PROVE  \E p \in 0..Len(s) : /\ {n \in DOMAIN s : s[n] > c} = p + 1..Len(s)
                              /\ \A n \in 1..p : s[n] <= c
<1> DEFINE kept == {n \in DOMAIN s : s[n] > c}
<1>1. Len(s) \in Nat /\ DOMAIN s = 1..Len(s) /\ \A n \in 1..Len(s) : s[n] \in Int
  BY DEF InTimeOrder
<1>2. CASE kept = {}
  <2>1. Len(s) + 1..Len(s) = {}
    BY <1>1
  <2>2. \A n \in 1..Len(s) : s[n] <= c
    BY <1>1, <1>2
  <2> QED BY <1>1, <1>2, <2>1, <2>2
<1>3. CASE kept # {}
  <2>1. PICK f \in kept : \A n \in kept : f <= n
    <3>1. kept \in SUBSET Nat
      BY <1>1
    <3> HIDE DEF kept
    <3> QED BY <1>3, <3>1, LeastOfNaturals
  <2>2. \A n \in f..Len(s) : s[n] > c
    <3> SUFFICES ASSUME NEW n \in f..Len(s) PROVE s[n] > c
      OBVIOUS
    <3>1. f \in 1..Len(s) /\ n \in 1..Len(s) /\ f <= n /\ s[f] > c
      BY <1>1, <2>1
    <3>2. s[f] <= s[n]
      BY <1>1, <3>1 DEF InTimeOrder
    <3> QED BY <1>1, <3>1, <3>2
  <2>3. \A n \in 1..f - 1 : s[n] <= c
    BY <1>1, <2>1
  <2>4. kept = f - 1 + 1..Len(s)
    BY <1>1, <2>1, <2>2
  <2> QED BY <1>1, <2>1, <2>3, <2>4
<1> QED BY <1>2, <1>3

\* The end of a sequence.
LEMMA TailOf ==
  ASSUME NEW s \in Seq(Int), NEW p \in 0..Len(s)
  PROVE  /\ SubSeq(s, p + 1, Len(s)) \in Seq(Int)
         /\ Len(SubSeq(s, p + 1, Len(s))) = Len(s) - p
         /\ \A n \in 1..Len(s) - p : SubSeq(s, p + 1, Len(s))[n] = s[p + n]
<1> DEFINE a == p + 1
           b == Len(s)
<1>1. a \in Int /\ b \in Nat /\ b - a + 1 = Len(s) - p /\ (a > b => Len(s) - p = 0)
      /\ \A n \in 1..Len(s) - p : a + n - 1 = p + n
  OBVIOUS
<1>2. \A i \in a..b : s[i] \in Int
  OBVIOUS
<1> HIDE DEF a, b
<1>3. /\ SubSeq(s, a, b) \in Seq(Int)
      /\ Len(SubSeq(s, a, b)) = IF a <= b THEN b - a + 1 ELSE 0
      /\ \A i \in 1..b - a + 1 : SubSeq(s, a, b)[i] = s[a + i - 1]
  <2> DEFINE part == SubSeq(s, a, b)
  <2>1. part \in Seq(Int)
    BY <1>1, <1>2, SubSeqProperties
  <2>2. Len(part) = IF a <= b THEN b - a + 1 ELSE 0
    BY <1>1, <1>2, SubSeqProperties
  <2>3. \A i \in 1..b - a + 1 : part[i] = s[a + i - 1]
    BY <1>1, <1>2, SubSeqProperties
  <2> QED BY <2>1, <2>2, <2>3
<1>4. Len(SubSeq(s, a, b)) = Len(s) - p
  BY <1>1, <1>3
<1>5. \A n \in 1..Len(s) - p : SubSeq(s, a, b)[n] = s[p + n]
  BY <1>1, <1>3
<1> QED BY <1>3, <1>4, <1>5 DEF a, b

\* What the limiter still counts of a caller is the end of what it has allowed, and has
\* all of it that is recent.
Counts(s, h) ==
  \E m \in 0..Len(s) : /\ h = SubSeq(s, m + 1, Len(s))
                       /\ \A n \in 1..m : s[n] <= now - HitWindow

\* A prune leaves exactly what is in the window.
LEMMA PrunedIsRecent ==
  ASSUME now \in Int, NEW s, InTimeOrder(s, now), NEW h, Counts(s, h)
  PROVE  \E p \in 0..Len(s) :
           /\ Live(h) = SubSeq(s, p + 1, Len(s))
           /\ Len(Live(h)) = Len(s) - p
           /\ {n \in DOMAIN s : s[n] > now - HitWindow} = p + 1..Len(s)
           /\ \A n \in 1..p : s[n] <= now - HitWindow
<1>0. HitWindow \in Nat /\ s \in Seq(Int) /\ Len(s) \in Nat /\ DOMAIN s = 1..Len(s)
  BY TimeAssumption DEF InTimeOrder
<1>1. PICK m \in 0..Len(s) : h = SubSeq(s, m + 1, Len(s)) /\ \A n \in 1..m : s[n] <= now - HitWindow
  BY DEF Counts
<1>2. PICK p \in 0..Len(s) : /\ {n \in DOMAIN s : s[n] > now - HitWindow} = p + 1..Len(s)
                             /\ \A n \in 1..p : s[n] <= now - HitWindow
  <2> DEFINE c == now - HitWindow
  <2>1. c \in Int
    BY <1>0
  <2> HIDE DEF c
  <2>2. PICK p \in 0..Len(s) : {n \in DOMAIN s : s[n] > c} = p + 1..Len(s) /\ \A n \in 1..p : s[n] <= c
    BY <2>1, RecentIsTail
  <2> QED BY <2>2 DEF c
<1>3. m <= p
  <2>1. \A n \in 1..Len(s) : s[n] \in Int
    BY <1>0
  <2>2. CASE p < m
    <3>1. m \in p + 1..Len(s) /\ m \in 1..m
      BY <1>0, <2>2
    <3>2. s[m] > now - HitWindow /\ s[m] <= now - HitWindow
      BY <1>1, <1>2, <3>1
    <3> QED BY <1>0, <2>1, <3>1, <3>2
  <2> QED BY <2>2
<1>4. /\ h \in Seq(Int) /\ Len(h) = Len(s) - m
      /\ \A n \in 1..Len(h) : h[n] = s[m + n]
  BY <1>0, <1>1, TailOf
<1>5. {n \in DOMAIN h : h[n] > now - HitWindow} = p - m + 1..Len(h)
  <2>1. ASSUME NEW n \in 1..Len(h) PROVE h[n] > now - HitWindow <=> n >= p - m + 1
    <3>1. m + n \in DOMAIN s
      BY <1>0, <1>4
    <3>2. s[m + n] > now - HitWindow <=> m + n \in p + 1..Len(s)
      BY <1>2, <3>1
    <3>3. h[n] = s[m + n]
      BY <1>4
    <3>4. m + n \in p + 1..Len(s) <=> n >= p - m + 1
      BY <1>0, <1>4
    <3> QED BY <3>2, <3>3, <3>4
  <2>2. DOMAIN h = 1..Len(h) /\ Len(h) \in Nat
    BY <1>4
  <2>3. \A n : n \in p - m + 1..Len(h) <=> n \in 1..Len(h) /\ n >= p - m + 1
    BY <1>0, <1>3, <2>2
  <2> QED BY <2>1, <2>2, <2>3
<1>6. Live(h) = SubSeq(h, p - m + 1, Len(h))
  <2>1. p - m \in 0..Len(h)
    BY <1>0, <1>3, <1>4
  <2> QED BY <1>4, <1>5, <2>1, SelectedTail DEF Live
<1>7. SubSeq(h, p - m + 1, Len(h)) = SubSeq(s, p + 1, Len(s))
  <2>1. p - m \in 0..Len(h) /\ Len(h) - (p - m) = Len(s) - p
    BY <1>0, <1>3, <1>4
  <2>2. /\ SubSeq(h, p - m + 1, Len(h)) \in Seq(Int)
        /\ Len(SubSeq(h, p - m + 1, Len(h))) = Len(s) - p
        /\ \A n \in 1..Len(s) - p : SubSeq(h, p - m + 1, Len(h))[n] = h[p - m + n]
    BY <1>4, <2>1, TailOf
  <2>3. /\ SubSeq(s, p + 1, Len(s)) \in Seq(Int)
        /\ Len(SubSeq(s, p + 1, Len(s))) = Len(s) - p
        /\ \A n \in 1..Len(s) - p : SubSeq(s, p + 1, Len(s))[n] = s[p + n]
    BY <1>0, TailOf
  <2>4. \A n \in 1..Len(s) - p : h[p - m + n] = s[p + n]
    <3> SUFFICES ASSUME NEW n \in 1..Len(s) - p PROVE h[p - m + n] = s[p + n]
      OBVIOUS
    <3>1. p - m + n \in 1..Len(h) /\ m + (p - m + n) = p + n
      BY <1>0, <1>3, <1>4
    <3> QED BY <1>4, <3>1
  <2> QED BY <2>2, <2>3, <2>4, SeqEqual
<1>8. Len(SubSeq(s, p + 1, Len(s))) = Len(s) - p
  BY <1>0, TailOf
<1> QED BY <1>2, <1>6, <1>7, <1>8

WindowOf(s, t) == {n \in DOMAIN s : s[n] > t - HitWindow /\ s[n] <= t}

\* The window of a sequence has a cardinality.
LEMMA WindowFinite ==
  ASSUME NEW s \in Seq(Int), NEW t
  PROVE  IsFiniteSet(WindowOf(s, t)) /\ Cardinality(WindowOf(s, t)) \in Nat
<1>1. IsFiniteSet(1..Len(s)) /\ WindowOf(s, t) \in SUBSET (1..Len(s))
  BY FS_Interval DEF WindowOf
<1> QED BY <1>1, FS_Subset, FS_CardinalityType

\* What is in the window now is what the limiter still counts.
LEMMA WindowIsCounted ==
  ASSUME now \in Int, NEW s, InTimeOrder(s, now), NEW h, Counts(s, h)
  PROVE  /\ Len(Live(h)) \in Nat
         /\ Cardinality(WindowOf(s, now)) = Len(Live(h))
<1>1. PICK p \in 0..Len(s) : /\ Len(Live(h)) = Len(s) - p
                             /\ {n \in DOMAIN s : s[n] > now - HitWindow} = p + 1..Len(s)
  BY PrunedIsRecent
<1>2. WindowOf(s, now) = p + 1..Len(s)
  BY <1>1 DEF WindowOf, InTimeOrder
<1>3. Len(s) \in Nat
  BY DEF InTimeOrder
<1>4. p + 1 \in Int /\ Len(s) \in Int
      /\ (IF p + 1 > Len(s) THEN 0 ELSE Len(s) - (p + 1) + 1) = Len(s) - p /\ Len(s) - p \in Nat
  BY <1>3
<1>5. Cardinality(p + 1..Len(s)) = Len(s) - p
  BY <1>4, FS_Interval
<1> QED BY <1>1, <1>2, <1>4, <1>5

\* A caller that is sent away has the limit's number of attempts in the window, and
\* one less as soon as the oldest of them leaves it, which is when it is told to return.
LEMMA ToldWhenToReturn ==
  ASSUME now \in Int, NEW s, InTimeOrder(s, now), NEW h, Counts(s, h),
         Len(Live(h)) >= HitMax, Cardinality(WindowOf(s, now)) <= HitMax
  PROVE  LET wait == Head(Live(h)) + HitWindow - now
         IN /\ Cardinality(WindowOf(s, now + wait)) < HitMax
            /\ Cardinality(WindowOf(s, now + wait - 1)) >= HitMax
<1>0. HitWindow \in Nat /\ HitMax \in Nat /\ HitMax > 0
  BY TimeAssumption
<1>1. /\ s \in Seq(Int) /\ Len(s) \in Nat /\ DOMAIN s = 1..Len(s)
      /\ \A n \in 1..Len(s) : s[n] \in Int /\ s[n] <= now
  BY DEF InTimeOrder
<1>2. PICK p \in 0..Len(s) :
        /\ Live(h) = SubSeq(s, p + 1, Len(s)) /\ Len(Live(h)) = Len(s) - p
        /\ {n \in DOMAIN s : s[n] > now - HitWindow} = p + 1..Len(s)
  BY PrunedIsRecent
<1>3. Len(s) - p = HitMax
  <2>1. Cardinality(WindowOf(s, now)) = Len(Live(h)) /\ Len(Live(h)) \in Nat
    BY WindowIsCounted
  <2>2. Len(Live(h)) <= HitMax /\ Len(Live(h)) >= HitMax
    BY <2>1
  <2>3. Len(Live(h)) = HitMax
    BY <1>0, <2>1, <2>2
  <2> QED BY <1>2, <2>3
<1> DEFINE len == Len(s)
<1>11. p \in Int /\ len \in Int
  BY <1>1
<1>12. len - p = HitMax
  BY <1>3
<1> HIDE DEF len
<1>4. p + 1 \in DOMAIN s /\ Head(Live(h)) = s[p + 1]
  <2>1. p + 1 \in 1..Len(s)
    BY <1>0, <1>1, <1>3
  <2>2. SubSeq(s, p + 1, Len(s))[1] = s[p + 1]
    BY <1>1, <2>1
  <2> QED BY <1>1, <1>2, <2>1, <2>2
<1>5. s[p + 1] > now - HitWindow
  <2>1. p + 1 \in p + 1..Len(s)
    BY <1>1, <1>4
  <2> QED BY <1>2, <2>1
<1> DEFINE T == s[p + 1] + HitWindow
<1>6. s[p + 1] \in Int /\ now + (Head(Live(h)) + HitWindow - now) = T
  BY <1>0, <1>1, <1>4
<1>7. Cardinality(WindowOf(s, T)) < HitMax
  <2>1. WindowOf(s, T) \subseteq p + 2..Len(s)
    <3> SUFFICES ASSUME NEW n \in 1..Len(s), s[n] > T - HitWindow PROVE n \in p + 2..Len(s)
      BY <1>1 DEF WindowOf
    <3>1. s[n] > s[p + 1]
      BY <1>0, <1>1, <1>6
    <3>2. n > p + 1
      <4>1. n <= p + 1 => s[n] <= s[p + 1]
        BY <1>1, <1>4 DEF InTimeOrder
      <4>2. s[n] \in Int
        BY <1>1
      <4> QED BY <1>1, <1>6, <3>1, <4>1, <4>2
    <3> QED BY <1>1, <3>2
  <2>2. IsFiniteSet(p + 2..Len(s)) /\ Cardinality(p + 2..Len(s)) = HitMax - 1
    <3>1. p + 2 \in Int /\ len \in Int
      BY <1>11
    <3>2. len - (p + 2) + 1 = HitMax - 1 /\ (p + 2 > len => HitMax - 1 = 0)
      BY <1>0, <1>11, <1>12
    <3>3. IsFiniteSet(p + 2..len) /\ Cardinality(p + 2..len) = HitMax - 1
      BY <3>1, <3>2, FS_Interval
    <3> QED BY <3>3 DEF len
  <2>3. Cardinality(WindowOf(s, T)) <= HitMax - 1
    BY <2>1, <2>2, FS_Subset
  <2> HIDE DEF T
  <2> QED BY <1>0, <1>1, <2>3, WindowFinite
<1>8. Cardinality(WindowOf(s, T - 1)) >= HitMax
  <2>1. p + 1..Len(s) \subseteq WindowOf(s, T - 1)
    <3> SUFFICES ASSUME NEW n \in p + 1..Len(s)
                 PROVE  n \in DOMAIN s /\ s[n] > T - 1 - HitWindow /\ s[n] <= T - 1
      BY DEF WindowOf
    <3>1. n \in DOMAIN s /\ p + 1 <= n /\ s[n] \in Int /\ s[n] <= now
      BY <1>1
    <3>2. s[p + 1] <= s[n]
      BY <1>4, <3>1 DEF InTimeOrder
    <3> QED BY <1>0, <1>5, <1>6, <3>1, <3>2
  <2>2. Cardinality(p + 1..Len(s)) = HitMax
    BY <1>0, <1>1, <1>3, FS_Interval
  <2>3. IsFiniteSet(WindowOf(s, T - 1))
    BY <1>1, WindowFinite
  <2> HIDE DEF T
  <2>4. Cardinality(p + 1..Len(s)) <= Cardinality(WindowOf(s, T - 1))
    BY <2>1, <2>3, FS_Subset
  <2> QED BY <2>2, <2>4
<1> DEFINE wait == Head(Live(h)) + HitWindow - now
<1>9. now + wait = T /\ wait \in Int
  BY <1>0, <1>4, <1>6
<1> HIDE DEF T, wait
<1>10. now + wait - 1 = T - 1
  BY <1>9
<1>13. Cardinality(WindowOf(s, now + wait)) < HitMax /\ Cardinality(WindowOf(s, now + wait - 1)) >= HitMax
  BY <1>7, <1>8, <1>9, <1>10
<1> QED BY <1>13 DEF wait

\* No window that has passed has more attempts than the limit.
Limited(s, t) == \A u \in Int : u <= t => Cardinality(WindowOf(s, u)) <= HitMax

\* A counted attempt joins the window only while there is room for it.
LEMMA CountedAttempt ==
  ASSUME now \in Int, NEW s, InTimeOrder(s, now), NEW h, Counts(s, h),
         Len(Live(h)) < HitMax, Limited(s, now)
  PROVE  /\ InTimeOrder(Append(s, now), now)
         /\ Counts(Append(s, now), Append(Live(h), now))
         /\ Limited(Append(s, now), now)
<1> DEFINE len == Len(s)
           s2 == Append(s, now)
<1>0. HitWindow \in Nat /\ HitMax \in Nat /\ s \in Seq(Int) /\ len \in Nat
  BY TimeAssumption DEF InTimeOrder
<1>1. /\ s2 \in Seq(Int) /\ Len(s2) = len + 1
      /\ DOMAIN s = 1..len /\ DOMAIN s2 = 1..len + 1
      /\ \A n \in 1..len : s2[n] = s[n]
      /\ s2[len + 1] = now
  BY <1>0
<1> HIDE DEF s2, len
<1>2. InTimeOrder(s2, now)
  <2>1. \A n \in 1..len : s[n] <= now
    BY <1>1 DEF InTimeOrder
  <2>2. \A n \in 1..len + 1 : n \in 1..len \/ n = len + 1
    BY <1>0
  <2>3. \A n \in 1..len + 1 : s2[n] <= now
    BY <1>1, <2>1, <2>2
  <2>4. ASSUME NEW m \in 1..len + 1, NEW n \in 1..len + 1, m <= n PROVE s2[m] <= s2[n]
    <3>1. CASE n \in 1..len
      <4>1. m \in 1..len
        BY <1>0, <2>4, <3>1
      <4>2. s[m] <= s[n]
        BY <1>1, <2>4, <3>1, <4>1 DEF InTimeOrder
      <4> QED BY <1>1, <3>1, <4>1, <4>2
    <3>2. CASE n = len + 1
      BY <1>1, <2>3, <3>2
    <3> QED BY <2>2, <3>1, <3>2
  <2> QED BY <1>1, <2>3, <2>4 DEF InTimeOrder
<1>3. PICK p \in 0..len :
        /\ Live(h) = SubSeq(s, p + 1, len) /\ Len(Live(h)) = len - p
        /\ {n \in DOMAIN s : s[n] > now - HitWindow} = p + 1..len
        /\ \A n \in 1..p : s[n] <= now - HitWindow
  BY PrunedIsRecent DEF len
<1>4. Counts(s2, Append(Live(h), now))
  <2>1. Live(h) \in Seq(Int) /\ \A n \in 1..len - p : Live(h)[n] = s[p + n]
    BY <1>0, <1>3, TailOf DEF len
  <2>2. /\ Append(Live(h), now) \in Seq(Int) /\ Len(Append(Live(h), now)) = len - p + 1
        /\ \A n \in 1..len - p : Append(Live(h), now)[n] = Live(h)[n]
        /\ Append(Live(h), now)[len - p + 1] = now
    BY <1>3, <2>1
  <2>3. p \in 0..Len(s2) /\ Len(s2) - p = len - p + 1
    BY <1>0, <1>1
  <2>4. /\ SubSeq(s2, p + 1, Len(s2)) \in Seq(Int)
        /\ Len(SubSeq(s2, p + 1, Len(s2))) = len - p + 1
        /\ \A n \in 1..len - p + 1 : SubSeq(s2, p + 1, Len(s2))[n] = s2[p + n]
    BY <1>1, <2>3, TailOf
  <2>5. ASSUME NEW n \in 1..len - p + 1 PROVE s2[p + n] = Append(Live(h), now)[n]
    <3>1. CASE n \in 1..len - p
      <4>1. p + n \in 1..len
        BY <1>0, <3>1
      <4> QED BY <1>1, <2>1, <2>2, <3>1, <4>1
    <3>2. CASE n = len - p + 1
      <4>1. p + n = len + 1
        BY <1>0, <3>2
      <4> QED BY <1>1, <2>2, <3>2, <4>1
    <3>3. n \in 1..len - p \/ n = len - p + 1
      BY <1>0
    <3> QED BY <3>1, <3>2, <3>3
  <2>6. SubSeq(s2, p + 1, Len(s2)) = Append(Live(h), now)
    BY <2>2, <2>4, <2>5, SeqEqual
  <2>7. \A n \in 1..p : s2[n] <= now - HitWindow
    <3>1. \A n \in 1..p : n \in 1..len
      BY <1>0
    <3> QED BY <1>1, <1>3, <3>1
  <2> QED BY <2>3, <2>6, <2>7 DEF Counts
<1>5. ASSUME NEW u \in Int, u <= now PROVE Cardinality(WindowOf(s2, u)) <= HitMax
  <2>1. CASE u < now
    <3>1. \A n \in 1..len + 1 : n \in 1..len \/ n = len + 1
      BY <1>0
    <3>2. ~(s2[len + 1] <= u)
      BY <1>1, <2>1
    <3>3. WindowOf(s2, u) = WindowOf(s, u)
      BY <1>0, <1>1, <3>1, <3>2 DEF WindowOf
    <3> QED BY <1>5, <3>3 DEF Limited
  <2>2. CASE u = now
    <3>1. WindowOf(s2, now) \subseteq WindowOf(s, now) \union {len + 1}
      <4>1. \A n \in 1..len + 1 : n \in 1..len \/ n = len + 1
        BY <1>0
      <4> QED BY <1>1, <4>1 DEF WindowOf
    <3>2. IsFiniteSet(WindowOf(s, now)) /\ Cardinality(WindowOf(s, now)) \in Nat
      BY <1>0, WindowFinite
    <3>3. /\ IsFiniteSet(WindowOf(s, now) \union {len + 1})
          /\ Cardinality(WindowOf(s, now) \union {len + 1}) <= Cardinality(WindowOf(s, now)) + 1
      BY <3>2, FS_AddElement
    <3>4. Cardinality(WindowOf(s2, now)) <= Cardinality(WindowOf(s, now) \union {len + 1})
      BY <3>1, <3>3, FS_Subset
    <3>5. Cardinality(WindowOf(s, now)) < HitMax
      BY WindowIsCounted
    <3>6. Cardinality(WindowOf(s2, now)) \in Nat /\ Cardinality(WindowOf(s, now) \union {len + 1}) \in Nat
      BY <1>1, <3>3, WindowFinite, FS_CardinalityType
    <3> QED BY <1>0, <2>2, <3>2, <3>3, <3>4, <3>5, <3>6
  <2> QED BY <1>5, <2>1, <2>2
<1> QED BY <1>2, <1>4, <1>5 DEF Limited, s2

\* Time only takes attempts out of the window.
LEMMA TimeTakesOut ==
  ASSUME now \in Int, NEW s, InTimeOrder(s, now), Limited(s, now)
  PROVE  InTimeOrder(s, now + 1) /\ Limited(s, now + 1)
<1>0. HitWindow \in Nat /\ HitMax \in Nat /\ s \in Seq(Int) /\ \A n \in DOMAIN s : s[n] \in Int /\ s[n] <= now
  BY TimeAssumption DEF InTimeOrder
<1>1. InTimeOrder(s, now + 1)
  <2>1. \A n \in DOMAIN s : s[n] <= now + 1
    BY <1>0
  <2> QED BY <2>1 DEF InTimeOrder
<1>2. Cardinality(WindowOf(s, now + 1)) <= HitMax
  <2>1. WindowOf(s, now + 1) \subseteq WindowOf(s, now)
    BY <1>0 DEF WindowOf
  <2>2. Cardinality(WindowOf(s, now + 1)) <= Cardinality(WindowOf(s, now))
    BY <1>0, <2>1, WindowFinite, FS_Subset
  <2>3. Cardinality(WindowOf(s, now)) <= HitMax
    BY DEF Limited
  <2> QED BY <1>0, <2>2, <2>3, WindowFinite
<1>3. \A u \in Int : u <= now + 1 => u <= now \/ u = now + 1
  OBVIOUS
<1> QED BY <1>1, <1>2, <1>3 DEF Limited

LEMMA NothingAllowed ==
  ASSUME now \in Int
  PROVE  InTimeOrder(<<>>, now) /\ Counts(<<>>, <<>>) /\ Limited(<<>>, now)
<1>1. InTimeOrder(<<>>, now)
  BY DEF InTimeOrder
<1>2. Counts(<<>>, <<>>)
  <2>1. 0 \in 0..Len(<<>>) /\ <<>> = SubSeq(<<>>, 0 + 1, Len(<<>>)) /\ 1..0 = {}
    OBVIOUS
  <2> QED BY <2>1 DEF Counts
<1>3. \A u : WindowOf(<<>>, u) = {}
  BY DEF WindowOf
<1>4. Cardinality({}) = 0 /\ HitMax \in Nat
  BY FS_EmptySet, TimeAssumption
<1>5. Limited(<<>>, now)
  <2>1. ASSUME NEW u PROVE Cardinality(WindowOf(<<>>, u)) <= HitMax
    <3>1. Cardinality(WindowOf(<<>>, u)) = 0
      BY <1>3, <1>4
    <3> QED BY <3>1, <1>4
  <2> QED BY <2>1 DEF Limited
<1> QED BY <1>1, <1>2, <1>5

-----------------------------------------------------------------------------
(* SessionTime: the invariant.                                              *)

Session == [id : Id, created : Int, expires : Int, readable : BOOLEAN]

ClockInv == now \in Int /\ zone \in Int

SessionInv ==
  /\ rows \in [Id -> Session \union {NoSession}]
  /\ request \in Session \union {NoSession}

LimitInv ==
  /\ hits = [k \in Key |-> hits[k]] /\ granted = [k \in Key |-> granted[k]]
  /\ \A k \in Key : /\ InTimeOrder(granted[k], now) /\ Counts(granted[k], hits[k])
                    /\ Limited(granted[k], now)

ToldInv ==
  answer.told = "later" =>
    /\ InWindow(answer.to, answer.at + answer.wait) < HitMax
    /\ InWindow(answer.to, answer.at + answer.wait - 1) >= HitMax

TimeInv == ClockInv /\ SessionInv /\ LimitInv /\ ToldInv /\ LiveIsAlive /\ KeptWhileAlive /\ FreshIsRecent

\* A session is stored and resolved as one.
LEMMA SessionsAre ==
  ASSUME ClockInv
  PROVE  /\ \A i \in Id : New(i) \in Session
         /\ \A style : \A row \in Session : Normalized(row, style) \in Session
<1>1. ASSUME NEW i \in Id PROVE New(i) \in Session
  BY TimeAssumption DEF ClockInv, Session, New
<1>2. ASSUME NEW row \in Session, NEW style PROVE Normalized(row, style) \in Session
  <2>1. Normalized(row, style)
          = [id |-> row.id, created |-> row.created, expires |-> row.expires, readable |-> style = "ISO"]
    BY DEF Normalized, Session
  <2>2. (style = "ISO") \in BOOLEAN
    OBVIOUS
  <2> QED BY <2>1, <2>2 DEF Session
<1> QED BY <1>1, <1>2

\* What a step that leaves the limiter alone leaves of its bounds.
LEMMA LimiterAlone ==
  ASSUME LimitInv, UNCHANGED <<now, hits, granted>>
  PROVE  LimitInv'
  BY DEF LimitInv, InTimeOrder, Counts, Limited, WindowOf

LEMMA TickKeeps == TimeInv /\ Tick => TimeInv'
<1> SUFFICES ASSUME TimeInv, Tick PROVE TimeInv'
  OBVIOUS
<1> USE DEF Tick, TimeInv
<1>1. ClockInv' /\ SessionInv'
  BY DEF ClockInv, SessionInv
<1>2. LimitInv'
  <2>1. \A k \in Key : InTimeOrder(granted[k], now + 1) /\ Limited(granted[k], now + 1)
    BY TimeTakesOut DEF LimitInv, ClockInv
  <2>2. ASSUME NEW k \in Key PROVE Counts(granted[k], hits[k])'
    <3>1. PICK m \in 0..Len(granted[k]) :
            /\ hits[k] = SubSeq(granted[k], m + 1, Len(granted[k]))
            /\ \A n \in 1..m : granted[k][n] <= now - HitWindow
      BY DEF LimitInv, Counts
    <3>2. \A n \in 1..m : granted[k][n] \in Int
      BY DEF LimitInv, InTimeOrder
    <3>3. \A n \in 1..m : granted[k][n] <= now' - HitWindow
      <4>1. now \in Int /\ now' = now + 1 /\ HitWindow \in Nat
        BY TimeAssumption DEF ClockInv
      <4>2. \A x \in Int : x <= now - HitWindow => x <= now' - HitWindow
        BY <4>1
      <4> QED BY <3>1, <3>2, <4>2
    <3> QED BY <3>1, <3>3 DEF Counts
  <2>3. \A k \in Key : InTimeOrder(granted[k], now)' /\ Limited(granted[k], now)'
    BY <2>1 DEF InTimeOrder, Limited, WindowOf
  <2> QED BY <2>2, <2>3 DEF LimitInv
<1>3. ToldInv'
  BY DEF ToldInv, InWindow
<1>4. LiveIsAlive' /\ KeptWhileAlive' /\ FreshIsRecent'
  BY DEF LiveIsAlive, KeptWhileAlive, FreshIsRecent
<1> QED BY <1>1, <1>2, <1>3, <1>4

LEMMA RestartKeeps == TimeInv /\ Restart => TimeInv'
<1> SUFFICES ASSUME TimeInv, Restart PROVE TimeInv'
  OBVIOUS
<1> USE DEF Restart, TimeInv
<1>1. ClockInv' /\ SessionInv'
  BY TimeAssumption DEF ClockInv, SessionInv
<1>2. LimitInv'
  <2>1. InTimeOrder(<<>>, now) /\ Counts(<<>>, <<>>) /\ Limited(<<>>, now)
    BY NothingAllowed DEF ClockInv
  <2>2. now' = now /\ hits' = [k \in Key |-> <<>>] /\ granted' = [k \in Key |-> <<>>]
    OBVIOUS
  <2>3. ASSUME NEW k \in Key
        PROVE  InTimeOrder(granted[k], now)' /\ Counts(granted[k], hits[k])' /\ Limited(granted[k], now)'
    <3>1. granted'[k] = <<>> /\ hits'[k] = <<>>
      BY <2>2
    <3> QED BY <2>1, <2>2, <3>1 DEF InTimeOrder, Counts, Limited, WindowOf
  <2> QED BY <2>2, <2>3 DEF LimitInv
<1>3. ToldInv' /\ LiveIsAlive' /\ KeptWhileAlive' /\ FreshIsRecent'
  BY DEF ToldInv, LiveIsAlive, KeptWhileAlive, FreshIsRecent
<1> QED BY <1>1, <1>2, <1>3

LEMMA DeniedKeeps == ASSUME TimeInv, NEW k \in Key, Denied(k) PROVE TimeInv'
<1> USE DEF Denied, TimeInv
<1>1. ClockInv' /\ SessionInv'
  BY DEF ClockInv, SessionInv
<1>2. LimitInv'
  <2>1. ASSUME NEW l \in Key
        PROVE  InTimeOrder(granted[l], now)' /\ Counts(granted[l], hits[l])' /\ Limited(granted[l], now)'
    <3>1. Counts(granted[l], Live(hits[l]))
      <4>1. PICK p \in 0..Len(granted[l]) : /\ Live(hits[l]) = SubSeq(granted[l], p + 1, Len(granted[l]))
                                            /\ \A n \in 1..p : granted[l][n] <= now - HitWindow
        BY PrunedIsRecent DEF ClockInv, LimitInv
      <4> QED BY <4>1 DEF Counts
    <3>2. hits'[l] = Live(hits[l])
      BY DEF Pruned
    <3> QED BY <3>1, <3>2 DEF LimitInv, InTimeOrder, Counts, Limited, WindowOf
  <2> QED BY <2>1 DEF LimitInv, Pruned
<1>3. ToldInv'
  <2> DEFINE wait == Head(Live(hits[k])) + HitWindow - now
             s == granted[k]
  <2>1. Len(Live(hits[k])) >= HitMax
    <3>1. Len(Live(hits[k])) \in Nat
      BY WindowIsCounted DEF ClockInv, LimitInv
    <3> QED BY <3>1, TimeAssumption DEF Allowed
  <2>2. Cardinality(WindowOf(s, now)) <= HitMax
    BY DEF LimitInv, Limited, ClockInv
  <2>3. Cardinality(WindowOf(s, now + wait)) < HitMax /\ Cardinality(WindowOf(s, now + wait - 1)) >= HitMax
    <3> HIDE DEF s
    <3>1. InTimeOrder(s, now) /\ Counts(s, hits[k]) /\ now \in Int
      BY DEF LimitInv, ClockInv, s
    <3> QED BY <2>1, <2>2, <3>1, ToldWhenToReturn
  <2>4. answer' = [told |-> "later", to |-> k, wait |-> wait, at |-> now]
    BY DEF RetryAfter
  <2> HIDE DEF wait
  <2>5. answer'.to = k /\ answer'.at = now /\ answer'.wait = wait
    BY <2>4
  <2> QED BY <2>3, <2>5 DEF ToldInv, InWindow, WindowOf
<1>4. LiveIsAlive' /\ KeptWhileAlive' /\ FreshIsRecent'
  BY DEF LiveIsAlive, KeptWhileAlive, FreshIsRecent
<1> QED BY <1>1, <1>2, <1>3, <1>4

LEMMA LogInKeeps == ASSUME TimeInv, NEW k \in Key, LogIn(k) PROVE TimeInv'
<1> USE DEF TimeInv
<1>1. /\ hits' = Counted(k) /\ granted' = [granted EXCEPT ![k] = Append(@, now)]
      /\ Allowed(k) /\ answer' = [told |-> "nothing"] /\ UNCHANGED <<now, zone, lost>>
  BY DEF LogIn
<1>2. ClockInv'
  BY <1>1 DEF ClockInv
<1>3. SessionInv'
  <2>1. CASE UNCHANGED <<rows, request>>
    BY <2>1 DEF SessionInv
  <2>2. ASSUME NEW i \in Id, NEW style \in DateStyle,
               rows' = [rows EXCEPT ![i] = New(i)], request' = Normalized(New(i), style)
        PROVE  SessionInv'
    BY <2>2, SessionsAre DEF SessionInv
  <2> QED BY <2>1, <2>2 DEF LogIn
<1>4. LimitInv'
  <2>1. ASSUME NEW l \in Key
        PROVE  InTimeOrder(granted[l], now)' /\ Counts(granted[l], hits[l])' /\ Limited(granted[l], now)'
    <3>1. CASE l = k
      <4>1. granted'[l] = Append(granted[k], now) /\ hits'[l] = Append(Live(hits[k]), now)
        BY <1>1, <3>1 DEF LimitInv, Counted, Pruned
      <4>2. /\ InTimeOrder(Append(granted[k], now), now)
            /\ Counts(Append(granted[k], now), Append(Live(hits[k]), now))
            /\ Limited(Append(granted[k], now), now)
        BY <1>1, CountedAttempt DEF LimitInv, ClockInv, Allowed
      <4> DEFINE s == Append(granted[k], now)
                 h == Append(Live(hits[k]), now)
      <4>3. granted'[l] = s /\ hits'[l] = h /\ now' = now
        BY <1>1, <4>1
      <4>4. InTimeOrder(s, now) /\ Counts(s, h) /\ Limited(s, now)
        BY <4>2
      <4> HIDE DEF s, h
      <4>5. InTimeOrder(granted[l], now)'
        BY <4>3, <4>4 DEF InTimeOrder
      <4>6. Counts(granted[l], hits[l])'
        BY <4>3, <4>4 DEF Counts
      <4>7. Limited(granted[l], now)'
        BY <4>3, <4>4 DEF Limited, WindowOf
      <4> QED BY <4>5, <4>6, <4>7
    <3>2. CASE l # k
      <4>1. granted'[l] = granted[l] /\ hits'[l] = Live(hits[l])
        BY <1>1, <3>2 DEF LimitInv, Counted, Pruned
      <4>2. PICK p \in 0..Len(granted[l]) : /\ Live(hits[l]) = SubSeq(granted[l], p + 1, Len(granted[l]))
                                            /\ \A n \in 1..p : granted[l][n] <= now - HitWindow
        BY PrunedIsRecent DEF ClockInv, LimitInv
      <4>3. Counts(granted[l], Live(hits[l]))
        BY <4>2 DEF Counts
      <4> DEFINE h == Live(hits[l])
      <4>4. granted'[l] = granted[l] /\ hits'[l] = h /\ now' = now
        BY <1>1, <4>1
      <4>5. InTimeOrder(granted[l], now) /\ Counts(granted[l], h) /\ Limited(granted[l], now)
        BY <4>3 DEF LimitInv
      <4> HIDE DEF h
      <4>6. InTimeOrder(granted[l], now)'
        BY <4>4, <4>5 DEF InTimeOrder
      <4>7. Counts(granted[l], hits[l])'
        BY <4>4, <4>5 DEF Counts
      <4>8. Limited(granted[l], now)'
        BY <4>4, <4>5 DEF Limited, WindowOf
      <4> QED BY <4>6, <4>7, <4>8
    <3> QED BY <3>1, <3>2
  <2>2. hits' = [l \in Key |-> hits'[l]] /\ granted' = [l \in Key |-> granted'[l]]
    BY <1>1 DEF LimitInv, Counted, Pruned
  <2> QED BY <2>1, <2>2 DEF LimitInv
<1>5. ToldInv' /\ LiveIsAlive' /\ KeptWhileAlive' /\ FreshIsRecent'
  BY <1>1 DEF ToldInv, LiveIsAlive, KeptWhileAlive, FreshIsRecent
<1> QED BY <1>2, <1>3, <1>4, <1>5

LEMMA ValidateSessionKeeps == ASSUME TimeInv, NEW i \in Id, ValidateSession(i) PROVE TimeInv'
<1> USE DEF TimeInv
<1>1. UNCHANGED <<now, zone, hits, granted>>
  BY DEF ValidateSession
<1>2. ClockInv' /\ LimitInv'
  BY <1>1, LimiterAlone DEF ClockInv
<1>3. rows[i] \in Session /\ rows[i].expires \in Int
  BY DEF ValidateSession, SessionInv, Session
<1>4. PICK style \in DateStyle, misread \in BOOLEAN :
        IF VendorExpired(rows[i], Pinned(style), misread)
        THEN /\ rows' = [rows EXCEPT ![i] = NoSession]
             /\ lost' = IF rows[i].expires > now THEN lost \union {zone} ELSE lost
             /\ request' = NoSession /\ answer' = [told |-> "nothing"]
        ELSE /\ request' = IF Expired(rows[i]) THEN NoSession ELSE Normalized(rows[i], Pinned(style))
             /\ answer' = IF Expired(rows[i]) THEN [told |-> "nothing"]
                          ELSE [told |-> "live", session |-> rows[i], at |-> now]
             /\ UNCHANGED <<rows, lost>>
  BY DEF ValidateSession
<1>5. VendorExpired(rows[i], Pinned(style), misread) <=> rows[i].expires - zone < now
  BY DEF VendorExpired, Pinned
<1>6. CASE VendorExpired(rows[i], Pinned(style), misread)
  <2>1. SessionInv'
    BY <1>4, <1>6 DEF SessionInv
  <2>2. KeptWhileAlive'
    <3>1. rows[i].expires > now => zone > 0
      BY <1>3, <1>5, <1>6 DEF ClockInv
    <3> QED BY <1>4, <1>6, <3>1 DEF KeptWhileAlive
  <2>3. ToldInv' /\ LiveIsAlive' /\ FreshIsRecent'
    BY <1>4, <1>6 DEF ToldInv, LiveIsAlive, FreshIsRecent
  <2> QED BY <1>2, <2>1, <2>2, <2>3
<1>7. CASE ~VendorExpired(rows[i], Pinned(style), misread)
  <2>1. SessionInv'
    BY <1>2, <1>3, <1>4, <1>7, SessionsAre DEF SessionInv
  <2>2. CASE Expired(rows[i])
    <3>1. answer' = [told |-> "nothing"]
      BY <1>4, <1>7, <2>2
    <3>2. ToldInv' /\ LiveIsAlive' /\ FreshIsRecent'
      BY <3>1 DEF ToldInv, LiveIsAlive, FreshIsRecent
    <3> QED BY <1>2, <1>4, <1>7, <2>1, <3>2 DEF KeptWhileAlive
  <2>3. CASE ~Expired(rows[i])
    <3>1. answer' = [told |-> "live", session |-> rows[i], at |-> now]
      BY <1>4, <1>7, <2>3
    <3>2. rows[i].expires > now
      BY <1>3, <2>3 DEF Expired, ClockInv
    <3>3. LiveIsAlive'
      BY <3>1, <3>2 DEF LiveIsAlive
    <3>4. ToldInv' /\ FreshIsRecent'
      BY <3>1 DEF ToldInv, FreshIsRecent
    <3> QED BY <1>2, <1>4, <1>7, <2>1, <3>3, <3>4 DEF KeptWhileAlive
  <2> QED BY <2>2, <2>3
<1> QED BY <1>6, <1>7

LEMMA RequireFreshReauthKeeps == TimeInv /\ RequireFreshReauth => TimeInv'
<1> SUFFICES ASSUME TimeInv, RequireFreshReauth PROVE TimeInv'
  OBVIOUS
<1> USE DEF TimeInv
<1>1. /\ UNCHANGED <<now, zone, rows, request, hits, granted, lost>>
      /\ request \in Session
      /\ answer' = IF Fresh(request) THEN [told |-> "fresh", session |-> request, at |-> now]
                   ELSE [told |-> "reauth_required", session |-> request, at |-> now]
  BY DEF RequireFreshReauth, SessionInv
<1>2. ClockInv' /\ SessionInv' /\ LimitInv' /\ KeptWhileAlive'
  BY <1>1, LimiterAlone DEF ClockInv, SessionInv, KeptWhileAlive
<1>3. CASE Fresh(request)
  <2>1. answer' = [told |-> "fresh", session |-> request, at |-> now]
    BY <1>1, <1>3
  <2>2. now - request.created \in 0..Window
    BY <1>1, <1>3, TimeAssumption DEF Fresh, ClockInv, Session
  <2> QED BY <1>2, <2>1, <2>2 DEF ToldInv, LiveIsAlive, FreshIsRecent
<1>4. CASE ~Fresh(request)
  <2>1. answer'.told = "reauth_required"
    BY <1>1, <1>4
  <2> QED BY <1>2, <2>1 DEF ToldInv, LiveIsAlive, FreshIsRecent
<1> QED BY <1>3, <1>4

LEMMA SessionStepKeeps ==
  ASSUME TimeInv, ResolveAnonymous \/ Reauthenticate \/ Reap \/ \E i \in Id : LogOut(i)
  PROVE  TimeInv'
<1> USE DEF TimeInv
<1>1. UNCHANGED <<now, zone, hits, granted>>
  BY DEF ResolveAnonymous, Reauthenticate, Reap, LogOut
<1>2. ClockInv' /\ LimitInv'
  BY <1>1, LimiterAlone DEF ClockInv
<1>3. SessionInv'
  <2>1. CASE ResolveAnonymous
    BY <2>1 DEF ResolveAnonymous, SessionInv
  <2>2. CASE Reauthenticate
    BY <2>2, SessionsAre DEF Reauthenticate, SessionInv
  <2>3. CASE Reap
    <3>1. PICK reaped \in SUBSET Id : rows' = [i \in Id |-> IF i \in reaped THEN NoSession ELSE rows[i]]
      BY <2>3 DEF Reap
    <3>2. request' = request
      BY <2>3 DEF Reap
    <3> QED BY <3>1, <3>2 DEF SessionInv
  <2>4. CASE \E i \in Id : LogOut(i)
    BY <2>4 DEF LogOut, SessionInv
  <2> QED BY <2>1, <2>2, <2>3, <2>4
<1>4. lost' = lost
  <2>1. CASE Reap
    <3>1. PICK reaped \in SUBSET {i \in Id : rows[i] # NoSession /\ Expired(rows[i])} :
            lost' = IF \E i \in reaped : rows[i].expires > now THEN lost \union {0} ELSE lost
      BY <2>1 DEF Reap
    <3>2. \A i \in reaped : rows[i].expires \in Int /\ rows[i].expires <= now
      BY DEF SessionInv, Session, Expired
    <3> QED BY <3>1, <3>2 DEF ClockInv
  <2> QED BY <2>1 DEF ResolveAnonymous, Reauthenticate, LogOut
<1>5. answer' = answer \/ answer' = [told |-> "nothing"]
  BY DEF ResolveAnonymous, Reauthenticate, Reap, LogOut
<1>6. ToldInv' /\ LiveIsAlive' /\ KeptWhileAlive' /\ FreshIsRecent'
  <2>1. KeptWhileAlive'
    BY <1>4 DEF KeptWhileAlive
  <2>2. CASE answer' = answer
    BY <1>1, <2>1, <2>2 DEF ToldInv, InWindow, LiveIsAlive, FreshIsRecent
  <2>3. CASE answer' = [told |-> "nothing"]
    BY <2>1, <2>3 DEF ToldInv, LiveIsAlive, FreshIsRecent
  <2> QED BY <1>5, <2>2, <2>3
<1> QED BY <1>2, <1>3, <1>6

\* No zone and no date style brings an expired session to life or a live one to its end
\* but a process east of UTC; no window has more attempts than the limit, and a caller is
\* told exactly when to return: for any durations, limits, zones and sessions.
THEOREM SessionsAreJudgedByTime == TimeSpec => []JudgedByTrueTime
<1>1. TimeInit => TimeInv
  <2> SUFFICES ASSUME TimeInit PROVE TimeInv
    OBVIOUS
  <2> USE DEF TimeInit
  <2>1. ClockInv /\ SessionInv
    BY TimeAssumption DEF ClockInv, SessionInv
  <2>2. LimitInv
    BY NothingAllowed DEF LimitInv
  <2> QED BY <2>1, <2>2 DEF TimeInv, ToldInv, LiveIsAlive, KeptWhileAlive, FreshIsRecent
<1>2. TimeInv /\ [TimeNext]_timeVars => TimeInv'
  <2> SUFFICES ASSUME TimeInv, [TimeNext]_timeVars PROVE TimeInv'
    OBVIOUS
  <2>1. CASE UNCHANGED timeVars
    BY <2>1, LimiterAlone DEF timeVars, TimeInv, ClockInv, SessionInv, ToldInv, InWindow,
                              LiveIsAlive, KeptWhileAlive, FreshIsRecent
  <2>2. CASE TimeNext
    BY <2>2, TickKeeps, RestartKeeps, DeniedKeeps, LogInKeeps, ValidateSessionKeeps,
       RequireFreshReauthKeeps, SessionStepKeeps DEF TimeNext
  <2> QED BY <2>1, <2>2
<1>3. TimeInv => JudgedByTrueTime
  <2> SUFFICES ASSUME TimeInv PROVE NeverTooOften
    BY DEF TimeInv, JudgedByTrueTime
  <2>1. ASSUME NEW k \in Key, NEW t \in 0..now PROVE InWindow(k, t) <= HitMax
    <3>1. t \in Int /\ t <= now
      BY DEF TimeInv, ClockInv
    <3> QED BY <3>1 DEF TimeInv, LimitInv, Limited, WindowOf, InWindow
  <2> QED BY <2>1 DEF TimeInv, ToldInv, NeverTooOften
<1> QED BY <1>1, <1>2, <1>3, PTL DEF TimeSpec

=============================================================================
