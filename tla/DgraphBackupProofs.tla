------------------------- MODULE DgraphBackupProofs -------------------------
(* DgraphBackup is type correct, keeps its exports and implements          *)
(* BackupLifecycle: proved for every set of backups, every set of exports  *)
(* and every bound.                                                        *)
EXTENDS DgraphBackup, TLAPS

-----------------------------------------------------------------------------
(* Facts about the operators of the model.                                 *)

Statuses == {"failed", "success"}

LEMMA AbsentType == Absent \in Version /\ \A url \in BOOLEAN : New(url) \in Version
BY DEF Absent, New, Version, Phases

(* Every object has versions: the one stored and the one in the cache.     *)
LEMMA VersionsExist ==
    ASSUME TypeOK, NEW b \in Objects
    PROVE  /\ versions[b] \in Seq(Version)
           /\ Len(versions[b]) \in Nat \ {0}
           /\ DOMAIN versions[b] = 1 .. Len(versions[b])
           /\ seen[b] \in 1 .. Len(versions[b])
           /\ Stored(b) \in Version
           /\ Cached(b) \in Version
BY DEF TypeOK, Stored, Cached

(* A stored version is appended, and no other object is touched.           *)
LEMMA StoreAppends ==
    ASSUME TypeOK, NEW b \in Objects, NEW v \in Version, Store(b, v)
    PROVE  /\ versions' \in [Objects -> Seq(Version)]
           /\ versions'[b] = Append(versions[b], v)
           /\ \A c \in Objects : c # b => versions'[c] = versions[c]
           /\ \A c \in Objects : Len(versions[c]) <= Len(versions'[c])
<1>1. versions \in [Objects -> Seq(Version)]
  BY DEF TypeOK
<1>2. Append(versions[b], v) \in Seq(Version)
  BY <1>1
<1>3. versions' = [versions EXCEPT ![b] = Append(versions[b], v)]
  BY DEF Store
<1>4. Len(Append(versions[b], v)) = Len(versions[b]) + 1 /\ Len(versions[b]) \in Nat
  BY <1>1
<1>. QED
  BY <1>1, <1>2, <1>3, <1>4

(* The worker in a Reconcile is a record of Work.                          *)
LEMMA BusyWorker ==
    ASSUME TypeOK, worker # Idle
    PROVE  /\ worker \in Work
           /\ worker.pc \in Pcs
           /\ worker.b \in Objects
           /\ worker.obj \in Version
           /\ worker.rv \in 1 .. Len(versions[worker.b])
<1>1. worker \in Work
  BY DEF TypeOK
<1>2. Len(versions[worker.b]) \in Nat
  BY <1>1, VersionsExist DEF Work
<1>. QED
  BY <1>1, <1>2 DEF Work, TypeOK

(* What a step of the worker makes of its record: another call, or another *)
(* object in memory, of the same Reconcile.                                *)
LEMMA WorkUpdates ==
    ASSUME NEW w \in Work, NEW pc \in Pcs, NEW obj \in Version
    PROVE  LET x == [w EXCEPT !.pc = pc, !.obj = obj]
               y == [w EXCEPT !.pc = pc]
           IN  /\ x \in Work /\ x.b = w.b /\ x.rv = w.rv
               /\ y \in Work /\ y.b = w.b /\ y.rv = w.rv
BY DEF Work

(* The part of the type invariant a write leaves to be shown.              *)
WritesType ==
    /\ versions' \in [Objects -> Seq(Version)]
    /\ \A c \in Objects : Len(versions[c]) <= Len(versions'[c])

(* The part of it that the end of a step of the worker leaves.             *)
EndType ==
    /\ queue' \subseteq Objects
    /\ worker' \in Work \cup {Idle}
    /\ (worker # Idle => worker.rv <= Len(versions[worker.b]))'
    /\ gauge' \in [Objects -> SUBSET Statuses]

LEMMA NoWriteType ==
    ASSUME TypeOK, UNCHANGED versions
    PROVE  WritesType
<1>. \A c \in Objects : Len(versions[c]) \in Nat
  BY VersionsExist
<1>. QED
  BY DEF TypeOK, WritesType

(* An update of the object by the worker, whether it succeeds or fails.    *)
LEMMA UpdateType ==
    ASSUME TypeOK, worker # Idle, NEW v \in Version,
           Put(worker.b, v) \/ Store(worker.b, v) \/ UNCHANGED versions
    PROVE  /\ WritesType
           /\ NewRv(worker.b) \in Nat \ {0}
           /\ NewRv(worker.b) = Len(versions'[worker.b])
           /\ worker.rv <= Len(versions'[worker.b])
<1>1. worker.b \in Objects /\ worker.rv \in 1 .. Len(versions[worker.b])
      /\ Len(versions[worker.b]) \in Nat \ {0}
  BY BusyWorker, VersionsExist
<1>2. WritesType
  BY <1>1, NoWriteType, StoreAppends DEF Put, WritesType
<1>3. Len(versions'[worker.b]) \in Nat /\ Len(versions[worker.b]) <= Len(versions'[worker.b])
  BY <1>1, <1>2 DEF WritesType
<1>. QED
  BY <1>1, <1>2, <1>3 DEF NewRv

(* A step that spends the bound on something, or nothing.                  *)
LEMMA BudgetType ==
    ASSUME TypeOK, NEW what \in Bounded, Spend(what) \/ UNCHANGED budget
    PROVE  budget' \in [Bounded -> Nat]
BY DEF Spend, Bounded, TypeOK

(* Each way a step of the worker ends leaves the worker, the queue and the *)
(* metrics well typed, provided that the record it goes on with is.        *)
LEMMA WorkerEnds ==
    ASSUME TypeOK, worker # Idle, NEW w \in Work, w.rv <= Len(versions'[w.b]),
           Goto(w) \/ ReturnNil \/ ReturnErr \/ Gone \/ Retry
    PROVE  EndType
<1>1. worker.b \in Objects /\ queue \subseteq Objects /\ gauge \in [Objects -> SUBSET Statuses]
  BY BusyWorker DEF TypeOK, Statuses
<1>2. \A s \in Statuses : Reports(worker.b, s) => gauge' \in [Objects -> SUBSET Statuses]
  BY <1>1 DEF Reports
<1>3. CASE Goto(w)
  BY <1>1, <1>3 DEF Goto, EndType
<1>4. CASE ReturnNil \/ ReturnErr
  BY <1>1, <1>2, <1>4 DEF ReturnNil, ReturnErr, EndType, Statuses
<1>5. CASE Gone \/ Retry
  BY <1>1, <1>5 DEF Gone, Retry, EndType
<1>. QED
  BY <1>3, <1>4, <1>5

(* It suffices that a step of the worker keeps the types of what it        *)
(* changes.                                                                *)
LEMMA StepType ==
    ASSUME TypeOK, WritesType, EndType, bucket' \subseteq Exports,
           budget' \in [Bounded -> Nat], UNCHANGED <<seen, secrets>>
    PROVE  TypeOK'
<1>1. \A b \in Objects : seen'[b] <= Len(versions'[b])
  <2>. SUFFICES ASSUME NEW b \in Objects PROVE seen[b] <= Len(versions'[b])
    OBVIOUS
  <2>. Len(versions'[b]) \in Nat
    BY DEF WritesType
  <2>. QED
    BY VersionsExist DEF WritesType
<1>. QED
  BY <1>1 DEF TypeOK, WritesType, EndType, Statuses

-----------------------------------------------------------------------------
(* The steps.                                                              *)

LEMMA InitType == Init => TypeOK
<1>. SUFFICES ASSUME Init PROVE TypeOK
  OBVIOUS
<1>1. versions \in [Objects -> Seq(Version)] /\ \A b \in Objects : Len(versions[b]) = 1
  BY AbsentType DEF Init
<1>2. budget \in [Bounded -> Nat]
  BY BoundsAssumption DEF Init, Bounded
<1>3. seen \in [Objects -> Nat \ {0}] /\ \A b \in Objects : seen[b] <= Len(versions[b])
  BY <1>1 DEF Init
<1>4. gauge \in [Objects -> SUBSET {"failed", "success"}]
  BY DEF Init
<1>. QED
  BY <1>1, <1>2, <1>3, <1>4, Zenon DEF Init, TypeOK

(* Users, the informer and restarts.                                       *)
LEMMA EnvironmentType ==
    ASSUME TypeOK, NEW b \in Objects,
           \/ CreateObject(b) \/ EditObject(b) \/ DeleteObject(b)
           \/ Deliver(b) \/ Crash
    PROVE  TypeOK'
<1>1. /\ Absent \in Version
      /\ \A url \in BOOLEAN : New(url) \in Version
      /\ Stored(b) \in Version
      /\ \A url \in BOOLEAN : [Stored(b) EXCEPT !.url = url] \in Version
      /\ [Stored(b) EXCEPT !.life = "deleting"] \in Version
  BY VersionsExist, AbsentType DEF Version
<1>2. \A c \in Objects : Len(versions[c]) \in Nat \ {0} /\ seen[c] \in 1 .. Len(versions[c])
  BY VersionsExist
<1>3. ASSUME NEW v \in Version, Store(b, v),
             UNCHANGED <<seen, queue, worker, secrets, bucket, gauge>>,
             budget' \in [Bounded -> Nat]
      PROVE  TypeOK'
  <2>1. /\ versions' \in [Objects -> Seq(Version)]
        /\ \A c \in Objects : Len(versions[c]) <= Len(versions'[c])
        /\ \A c \in Objects : Len(versions'[c]) \in Nat
    BY <1>3, StoreAppends
  <2>2. \A c \in Objects : seen'[c] <= Len(versions'[c])
    BY <1>2, <1>3, <2>1
  <2>3. worker' # Idle => worker'.rv <= Len(versions'[worker'.b])
    BY <1>2, <1>3, <2>1, BusyWorker
  <2>. QED
    BY <1>3, <2>1, <2>2, <2>3 DEF TypeOK
<1>4. CASE CreateObject(b)
  BY <1>1, <1>3, <1>4 DEF CreateObject, TypeOK
<1>5. CASE EditObject(b)
  <2>. budget' \in [Bounded -> Nat]
    BY <1>5 DEF EditObject, Spend, Bounded, TypeOK
  <2>. QED
    BY <1>1, <1>3, <1>5 DEF EditObject
<1>6. CASE DeleteObject(b)
  BY <1>1, <1>3, <1>6 DEF DeleteObject, Deleted, TypeOK
<1>7. CASE Deliver(b)
  <2>1. seen' \in [Objects -> Nat \ {0}] /\ \A c \in Objects : seen'[c] <= Len(versions[c])
    BY <1>2, <1>7 DEF Deliver, TypeOK
  <2>. QED
    BY <1>7, <2>1 DEF Deliver, TypeOK
<1>8. CASE Crash
  <2>1. budget' \in [Bounded -> Nat]
    BY <1>8 DEF Crash, Spend, Bounded, TypeOK
  <2>2. seen' \in [Objects -> Nat \ {0}] /\ \A c \in Objects : seen'[c] <= Len(versions[c])
    BY <1>2, <1>8 DEF Crash
  <2>. QED
    BY <1>8, <2>1, <2>2 DEF Crash, TypeOK
<1>. QED
  BY <1>4, <1>5, <1>6, <1>7, <1>8

LEMMA ReconcileType ==
    ASSUME TypeOK, NEW b \in Objects, Reconcile(b)
    PROVE  TypeOK'
<1>. DEFINE w == [pc |-> "finalize", b |-> b, obj |-> Cached(b), rv |-> seen[b]]
            ws == {[w EXCEPT !.pc = DeletePc(w.obj)],
                   [w EXCEPT !.pc = "start", !.obj.phase = "Started"],
                   [w EXCEPT !.obj.fin = TRUE],
                   [w EXCEPT !.pc = "credentials"]}
<1>1. /\ Cached(b) \in Version
      /\ seen[b] \in Nat \ {0}
      /\ seen[b] <= Len(versions[b])
  BY VersionsExist
<1>2. w \in Work
  BY <1>1 DEF Work, Pcs, SavePcs
<1>3. ws \subseteq Work
  <2>1. [w EXCEPT !.pc = DeletePc(w.obj)] \in Work /\ [w EXCEPT !.pc = "credentials"] \in Work
    BY <1>2 DEF Work, Pcs, DeletePc
  <2>2. [w EXCEPT !.pc = "start", !.obj.phase = "Started"] \in Work
    BY <1>2 DEF Work, Version, Phases, Pcs, SavePcs
  <2>3. [w EXCEPT !.obj.fin = TRUE] \in Work
    BY <1>2 DEF Work, Version
  <2>. QED
    BY <2>1, <2>2, <2>3
<1>4. \A x \in ws : x.rv = seen[b] /\ x.b = b
  OBVIOUS
<1>5. worker' \in ws \cup {Idle}
  BY DEF Reconcile
<1>6. worker' # Idle => worker'.rv <= Len(versions[worker'.b])
  BY <1>1, <1>4, <1>5
<1>7. gauge' \in [Objects -> SUBSET {"failed", "success"}]
  BY DEF Reconcile, Reports, TypeOK
<1>. HIDE DEF ws
<1>. QED
  BY <1>3, <1>5, <1>6, <1>7 DEF Reconcile, TypeOK, apiVars

(* The updates of the object between two calls.                            *)
LEMMA SaveType ==
    ASSUME TypeOK, Save \/ SaveFails
    PROVE  TypeOK'
<1>1. worker # Idle /\ worker.obj \in Version /\ worker \in Work
  <2>. worker # Idle
    BY DEF Save, SaveFails, SavePcs, Idle
  <2>. QED
    BY BusyWorker
<1>2. /\ WritesType
      /\ NewRv(worker.b) \in Nat \ {0}
      /\ NewRv(worker.b) = Len(versions'[worker.b])
      /\ worker.rv <= Len(versions'[worker.b])
  BY <1>1, UpdateType DEF Save, SaveFails, Saved, NotSaved
<1>3. budget' \in [Bounded -> Nat]
  <2>. "faults" \in Bounded /\ (Spend("faults") \/ UNCHANGED budget)
    BY DEF Save, SaveFails, Saved, NotSaved, Bounded
  <2>. QED
    BY BudgetType
<1>4. EndType
  <2>. DEFINE w == [worker EXCEPT !.rv = NewRv(worker.b)]
  <2>1. w \in Work /\ w.b = worker.b /\ w.rv = NewRv(worker.b)
    BY <1>1, <1>2 DEF Work
  <2>2. LET x == [w EXCEPT !.pc = "start", !.obj.phase = "Started"]
            y == [w EXCEPT !.pc = "credentials"]
            z == [w EXCEPT !.pc = "completed", !.obj.phase = "Completed"]
        IN  {x, y, z} \subseteq Work /\ \A v \in {x, y, z} : v.b = w.b /\ v.rv = w.rv
    <3>. HIDE DEF w
    <3>1. /\ w.obj \in Version /\ {"start", "credentials", "completed"} \subseteq Pcs
          /\ [w.obj EXCEPT !.phase = "Started"] \in Version
          /\ [w.obj EXCEPT !.phase = "Completed"] \in Version
      BY <2>1 DEF Work, Version, Phases, Pcs, SavePcs
    <3>. QED
      BY <2>1, <3>1 DEF Work
  <2>3. CASE SaveFails
    BY <1>1, <1>2, <2>3, WorkerEnds DEF SaveFails
  <2>4. CASE Save
    <3>1. PICK x \in Work : /\ x.b = w.b /\ x.rv = w.rv
                            /\ Goto(x) \/ ReturnErr \/ ReturnNil
      <4>. AfterSave(w)
        BY <2>4 DEF Save
      <4>. HIDE DEF w
      <4>. QED
        BY <2>1, <2>2 DEF AfterSave
    <3>2. x.rv <= Len(versions'[x.b])
      BY <1>1, <1>2, <2>1, <3>1
    <3>. QED
      BY <1>1, <3>1, <3>2, WorkerEnds
  <2>. QED
    BY <2>3, <2>4
<1>. QED
  BY <1>2, <1>3, <1>4, StepType DEF Save, SaveFails, TypeOK

LEMMA ExportDirectory ==
    ASSUME ~(Exports \subseteq Recorded)
    PROVE  LET e == CHOOSE f \in Exports : f \notin Recorded
           IN  e \in Exports /\ e \notin Recorded
OBVIOUS

(* The calls of the worker to the secrets, to Dgraph and to the bucket.    *)
LEMMA CallType ==
    ASSUME TypeOK, GetCredentials \/ Export \/ Erase
    PROVE  TypeOK'
<1>1. worker # Idle /\ worker \in Work /\ worker.obj \in Version
  <2>. worker # Idle
    BY DEF GetCredentials, Export, Erase, At, Idle
  <2>. QED
    BY BusyWorker
<1>2. UNCHANGED <<versions, seen, secrets>>
  BY DEF GetCredentials, Export, Erase, apiVars
<1>3. WritesType
  BY <1>2, NoWriteType
<1>4. budget' \in [Bounded -> Nat]
  <2>. "faults" \in Bounded /\ (Spend("faults") \/ UNCHANGED budget)
    BY DEF GetCredentials, Export, Erase, Bounded
  <2>. QED
    BY BudgetType
<1>5. bucket' \subseteq Exports
  <2>1. CASE Export
    <3>. DEFINE e == CHOOSE f \in Exports : f \notin Recorded
    <3>1. e \in Exports
      BY <2>1, ExportDirectory DEF Export
    <3>. HIDE DEF e
    <3>2. bucket' \in {bucket, bucket \cup {e}}
      BY <2>1 DEF Export, e
    <3>. QED
      BY <3>1, <3>2 DEF TypeOK
  <2>2. CASE GetCredentials \/ Erase
    BY <2>2 DEF GetCredentials, Erase, TypeOK
  <2>. QED
    BY <2>1, <2>2
<1>6. PICK x \in Work : /\ x.b = worker.b /\ x.rv = worker.rv
                        /\ Goto(x) \/ ReturnErr \/ Retry
  <2>1. CASE GetCredentials
    <3>. "export" \in Pcs
      BY DEF Pcs
    <3>. QED
      BY <1>1, <2>1, WorkUpdates DEF GetCredentials
  <2>2. CASE Export
    <3>. DEFINE e == CHOOSE f \in Exports : f \notin Recorded
    <3>1. e \in Exports
      BY <2>2, ExportDirectory DEF Export
    <3>2. \A f \in Exports \cup {NoExport} :
             LET x == [worker EXCEPT !.pc = "response", !.obj.export = f]
             IN  x \in Work /\ x.b = worker.b /\ x.rv = worker.rv
      BY <1>1 DEF Work, Version, Pcs, SavePcs
    <3>3. LET x == ExportFailed(worker, e)
          IN  x \in Work /\ x.b = worker.b /\ x.rv = worker.rv
      BY <1>1 DEF ExportFailed, Work, Version, Phases, Pcs, SavePcs
    <3>. HIDE DEF e
    <3>4. \/ \E f \in Exports \cup {NoExport} :
                Goto([worker EXCEPT !.pc = "response", !.obj.export = f])
          \/ Goto(ExportFailed(worker, e))
      BY <2>2, <3>1 DEF Export, e
    <3>. QED
      BY <3>2, <3>3, <3>4
  <2>3. CASE Erase
    <3>. "unfinalize" \in Pcs
      BY DEF Pcs
    <3>. QED
      BY <1>1, <2>3, WorkUpdates DEF Erase
  <2>. QED
    BY <2>1, <2>2, <2>3
<1>7. x.rv <= Len(versions'[x.b])
  BY <1>1, <1>2, <1>6, BusyWorker, VersionsExist
<1>8. EndType
  BY <1>1, <1>6, <1>7, WorkerEnds
<1>. QED
  BY <1>2, <1>3, <1>4, <1>5, <1>8, StepType

LEMMA FinalizerType ==
    ASSUME TypeOK, RemoveFinalizer
    PROVE  TypeOK'
<1>1. worker # Idle
  BY DEF RemoveFinalizer, At, Idle
<1>2. WritesType /\ worker.rv <= Len(versions'[worker.b])
  <2>. UNCHANGED versions \/ Store(worker.b, Absent)
    BY DEF RemoveFinalizer
  <2>. QED
    BY <1>1, AbsentType, UpdateType
<1>3. budget' \in [Bounded -> Nat]
  <2>. "faults" \in Bounded /\ (Spend("faults") \/ UNCHANGED budget)
    BY DEF RemoveFinalizer, Bounded
  <2>. QED
    BY BudgetType
<1>4. Gone \/ Retry
  BY DEF RemoveFinalizer
<1>5. EndType
  BY <1>1, <1>2, <1>4, BusyWorker, WorkerEnds
<1>. QED
  BY <1>2, <1>3, <1>5, StepType DEF RemoveFinalizer, TypeOK

LEMMA NextType == TypeOK /\ [Next]_vars => TypeOK'
<1>. SUFFICES ASSUME TypeOK, [Next]_vars PROVE TypeOK'
  OBVIOUS
<1>1. CASE UNCHANGED vars
  BY <1>1 DEF vars, apiVars, TypeOK
<1>2. ASSUME NEW b \in Objects,
             \/ CreateObject(b) \/ EditObject(b) \/ DeleteObject(b)
             \/ Deliver(b) \/ Reconcile(b)
      PROVE  TypeOK'
  BY <1>2, EnvironmentType, ReconcileType
<1>3. CASE Crash
  <2>1. CASE Objects = {}
    BY <1>3, <2>1 DEF Crash, Spend, Bounded, TypeOK
  <2>. QED
    BY <1>3, <2>1, EnvironmentType
<1>4. CASE CreateSecrets
  BY <1>4 DEF CreateSecrets, TypeOK, apiVars
<1>5. CASE WorkerStep
  BY <1>5, SaveType, CallType, FinalizerType DEF WorkerStep
<1>. QED
  BY <1>1, <1>2, <1>3, <1>4, <1>5 DEF Next

(* Every variable keeps its type; in particular the cache and the worker   *)
(* never hold a version the API server has not stored, and only exports    *)
(* are in the bucket.                                                      *)
THEOREM TypeCorrect == Spec => []TypeOK
BY InitType, NextType, PTL DEF Spec

-----------------------------------------------------------------------------
(* Safety: what the objects say of the exports in the bucket.              *)
(*                                                                         *)
(* The worker erases the export of a copy that may be of long ago, so that *)
(* the invariant speaks of all versions of all objects: what was once      *)
(* being deleted is never live again and keeps its export, and no two      *)
(* objects ever record the same one.                                       *)

(* The inductive invariant.                                                *)

(* Processing begins with the finalizer, and nothing is left of an object  *)
(* that is gone.                                                           *)
Sound(v) ==
    /\ v.life = "absent" => v.phase = ""
    /\ v.phase # "" => v.fin

Deleting(b, i) == versions[b][i].life = "deleting"

(* The versions of an object: it is not brought back from its deletion,    *)
(* which leaves the export it records as it is.                            *)
History(b) ==
    /\ versions[b][1] = Absent
    /\ \A i \in DOMAIN versions[b] : Sound(versions[b][i])
    /\ \A i \in DOMAIN versions[b] :
          Deleting(b, i) =>
              /\ Stored(b).life # "live"
              /\ Stored(b).life = "deleting" => Stored(b).export = versions[b][i].export

(* No other object records the export e.                                   *)
Owned(b, e) ==
    \A c \in Objects : \A i \in DOMAIN versions[c] : versions[c][i].export = e => c = b

Owners ==
    \A b \in Objects : \A i \in DOMAIN versions[b] :
        versions[b][i].export # NoExport => Owned(b, versions[b][i].export)

(* The object in the worker's memory at each of its calls, given the       *)
(* version it was made from.                                               *)
CopyOf(w, base) ==
    \/ w.pc = "finalize" /\ base.phase = "" /\ w.obj = [base EXCEPT !.fin = TRUE]
    \/ /\ w.pc = "start" /\ base.phase = "" /\ base.fin
       /\ w.obj = [base EXCEPT !.phase = "Started"]
    \/ w.pc \in {"credentials", "export"} /\ base.phase = "Started" /\ w.obj = base
    \/ /\ w.pc = "failed" /\ base.phase = "Started"
       /\ w.obj = [base EXCEPT !.phase = "Failed"]
    \/ /\ w.pc = "response" /\ base.phase = "Started"
       /\ w.obj = [base EXCEPT !.export = w.obj.export]
       /\ w.obj.export # NoExport => w.obj.export \in bucket /\ Owned(w.b, w.obj.export)
    \/ /\ w.pc = "completed" /\ base.phase = "Started"
       /\ w.obj = [base EXCEPT !.phase = "Completed"]

Copy(w) ==
    LET base == versions[w.b][w.rv]
    IN  \/ base.life = "live" /\ CopyOf(w, base)
        \/ w.pc = "erase" /\ base.life = "deleting" /\ w.obj = base
        \/ w.pc = "unfinalize" /\ base.life = "deleting" /\ base.export \notin bucket

Histories == \A b \in Objects : History(b)
Copies    == worker # Idle => Copy(worker)

IInv == TypeOK /\ Histories /\ Owners /\ Copies /\ RecordedExportKept /\ GoneWithItsExport
-----------------------------------------------------------------------------
(* Versions.                                                               *)

(* Every version an object had it keeps.                                   *)
Grows ==
    \A b \in Objects : \A i \in DOMAIN versions[b] :
        i \in DOMAIN versions'[b] /\ versions'[b][i] = versions[b][i]

LEMMA StoreGrows ==
    ASSUME TypeOK, NEW b \in Objects, NEW v \in Version, Store(b, v)
    PROVE  /\ Grows
           /\ DOMAIN versions'[b] = 1 .. (Len(versions[b]) + 1)
           /\ versions'[b][Len(versions[b]) + 1] = v
           /\ Stored(b)' = v
           /\ \A c \in Objects : c # b => versions'[c] = versions[c]
<1>1. versions[b] \in Seq(Version) /\ Len(versions[b]) \in Nat \ {0}
  BY VersionsExist
<1>2. /\ versions'[b] = Append(versions[b], v)
      /\ \A c \in Objects : c # b => versions'[c] = versions[c]
  BY StoreAppends
<1>3. /\ Len(versions'[b]) = Len(versions[b]) + 1
      /\ versions'[b][Len(versions[b]) + 1] = v
      /\ \A i \in 1 .. Len(versions[b]) : versions'[b][i] = versions[b][i]
      /\ DOMAIN versions'[b] = 1 .. (Len(versions[b]) + 1)
  BY <1>1, <1>2
<1>4. \A c \in Objects : DOMAIN versions[c] = 1 .. Len(versions[c])
  BY VersionsExist
<1>5. \A i \in 1 .. Len(versions[b]) : i \in 1 .. (Len(versions[b]) + 1)
  BY <1>1
<1>6. Grows
  BY <1>2, <1>3, <1>4, <1>5 DEF Grows
<1>. QED
  BY <1>2, <1>3, <1>6 DEF Stored

(* The last version of an object is one of its versions.                   *)
LEMMA LastVersion ==
    ASSUME IInv, NEW b \in Objects
    PROVE  /\ Len(versions[b]) \in DOMAIN versions[b]
           /\ Stored(b) = versions[b][Len(versions[b])]
           /\ Stored(b) \in Version /\ Sound(Stored(b)) /\ History(b)
           /\ Stored(b).export # NoExport => Owned(b, Stored(b).export)
<1>1. Len(versions[b]) \in DOMAIN versions[b] /\ Stored(b) \in Version
  BY VersionsExist DEF IInv
<1>. QED
  BY <1>1 DEF IInv, Histories, History, Owners, Stored

(* An object that was never stored is absent and records nothing.          *)
LEMMA FirstVersion ==
    ASSUME IInv, NEW b \in Objects, Len(versions[b]) = 1
    PROVE  Stored(b) = Absent /\ \A i \in DOMAIN versions[b] : ~Deleting(b, i)
<1>1. DOMAIN versions[b] = {1} /\ versions[b][1] = Absent
  BY VersionsExist DEF IInv, Histories, History
<1>2. Absent.life = "absent"
  BY DEF Absent
<1>. QED
  BY <1>1, <1>2 DEF Stored, Deleting

(* What may be stored after the versions an object has.                    *)
Fits(b, v) ==
    /\ Sound(v)
    /\ v.export # NoExport => Owned(b, v.export)
    /\ v.life = "live" =>
          /\ Stored(b).life = "live" \/ Len(versions[b]) = 1
          /\ v.export # NoExport => v.export \in bucket
    /\ v.life = "deleting" =>
          \/ Stored(b).life = "live"
          \/ Stored(b).life = "deleting" /\ v.export = Stored(b).export
    /\ v.life = "absent" =>
          \/ Stored(b).life = "live"
          \/ \A i \in DOMAIN versions[b] : Deleting(b, i) => versions[b][i].export \notin bucket

(* The parts of the invariant that speak of the versions.                  *)
VersionsInv == Histories /\ Owners /\ RecordedExportKept /\ GoneWithItsExport

LEMMA SameVersions ==
    ASSUME IInv, UNCHANGED versions
    PROVE  Histories' /\ Owners'
<1>1. \A b \in Objects : Stored(b)' = Stored(b)
  BY DEF Stored
<1>2. Histories'
  BY <1>1 DEF IInv, Histories, History, Deleting, Sound
<1>3. Owners'
  BY DEF IInv, Owners, Owned
<1>. QED
  BY <1>2, <1>3

LEMMA NoStoreInv ==
    ASSUME IInv, UNCHANGED <<versions, bucket>>
    PROVE  VersionsInv' /\ Grows
<1>1. \A b \in Objects : Stored(b)' = Stored(b)
  BY DEF Stored
<1>2. Histories' /\ Owners'
  BY SameVersions
<1>3. Grows
  BY DEF Grows
<1>4. RecordedExportKept'
  BY <1>1 DEF IInv, RecordedExportKept
<1>5. GoneWithItsExport'
  BY <1>1 DEF IInv, GoneWithItsExport
<1>. QED
  BY <1>2, <1>3, <1>4, <1>5 DEF VersionsInv

LEMMA StoreHistory ==
    ASSUME IInv, NEW b \in Objects, NEW v \in Version, Store(b, v), Fits(b, v)
    PROVE  Histories'
<1>. SUFFICES ASSUME NEW c \in Objects PROVE History(c)'
  BY DEF Histories
<1>1. TypeOK
  BY DEF IInv
<1>2. CASE c # b
  <2>1. versions'[c] = versions[c]
    BY <1>1, <1>2, StoreGrows
  <2>. QED
    BY <2>1 DEF IInv, Histories, History, Stored, Deleting
<1>3. CASE c = b
  <2>1. History(b) /\ Len(versions[b]) \in Nat \ {0} /\ DOMAIN versions[b] = 1 .. Len(versions[b])
    BY <1>1, VersionsExist DEF IInv, Histories
  <2>2. /\ Stored(b)' = v
        /\ \A i \in DOMAIN versions[b] : versions'[b][i] = versions[b][i]
        /\ DOMAIN versions'[b] = 1 .. (Len(versions[b]) + 1)
        /\ versions'[b][Len(versions[b]) + 1] = v
    BY <1>1, StoreGrows DEF Grows
  <2>3. (versions[b][1] = Absent)'
    BY <2>1, <2>2 DEF History
  <2>4. ASSUME NEW i \in DOMAIN versions'[b]
        PROVE  Sound(versions'[b][i])
    BY <2>1, <2>2 DEF History, Fits
  <2>5. ASSUME NEW i \in DOMAIN versions'[b], versions'[b][i].life = "deleting"
        PROVE  /\ v.life # "live"
               /\ v.life = "deleting" => v.export = versions'[b][i].export
    <3>1. CASE i = Len(versions[b]) + 1
      BY <2>2, <2>5, <3>1
    <3>2. CASE i \in DOMAIN versions[b]
      <4>1. /\ Deleting(b, i) /\ versions'[b][i] = versions[b][i]
            /\ Stored(b).life # "live" /\ Len(versions[b]) # 1
        BY <2>1, <2>2, <2>5, <3>2, FirstVersion DEF History, Deleting
      <4>. QED
        BY <2>1, <3>2, <4>1 DEF History, Fits
    <3>. QED
      BY <2>1, <2>2, <3>1, <3>2
  <2>. QED
    BY <1>3, <2>2, <2>3, <2>4, <2>5 DEF History, Deleting, Sound
<1>. QED
  BY <1>2, <1>3

(* What an object owns it goes on owning, if another stores only what it   *)
(* owns itself.                                                            *)
LEMMA StoreOwned ==
    ASSUME IInv, NEW b \in Objects, NEW v \in Version, Store(b, v),
           NEW c \in Objects, NEW e, Owned(c, e), v.export = e => b = c
    PROVE  Owned(c, e)'
<1>. SUFFICES ASSUME NEW d \in Objects, NEW i \in DOMAIN versions'[d], versions'[d][i].export = e
              PROVE  d = c
  BY DEF Owned
<1>1. TypeOK
  BY DEF IInv
<1>2. CASE d # b
  BY <1>1, <1>2, StoreGrows DEF Owned
<1>3. CASE d = b
  <2>1. i \in DOMAIN versions[b] \/ i = Len(versions[b]) + 1
    BY <1>1, <1>3, StoreGrows, VersionsExist
  <2>. QED
    BY <1>1, <1>3, <2>1, StoreGrows DEF Grows, Owned
<1>. QED
  BY <1>2, <1>3

LEMMA StoreOwners ==
    ASSUME IInv, NEW b \in Objects, NEW v \in Version, Store(b, v), Fits(b, v)
    PROVE  Owners'
<1>. SUFFICES ASSUME NEW c \in Objects, NEW i \in DOMAIN versions'[c],
                     NEW e, e = versions'[c][i].export, e # NoExport
              PROVE  Owned(c, e)'
  <2>. SUFFICES ASSUME NEW c \in Objects, NEW i \in DOMAIN versions'[c],
                       versions'[c][i].export # NoExport,
                       NEW d \in Objects, NEW j \in DOMAIN versions'[d],
                       versions'[d][j].export = versions'[c][i].export
                PROVE  d = c
    BY DEF Owners, Owned
  <2>. QED
    BY DEF Owned
<1>1. TypeOK /\ Owners
  BY DEF IInv
<1>2. CASE c = b /\ i = Len(versions[b]) + 1
  <2>1. e = v.export
    BY <1>1, <1>2, StoreGrows
  <2>2. Owned(b, e)
    BY <2>1 DEF Fits
  <2>. QED
    BY <1>2, <2>2, StoreOwned
<1>3. CASE i \in DOMAIN versions[c]
  <2>1. e = versions[c][i].export
    BY <1>1, <1>3, StoreGrows DEF Grows
  <2>2. Owned(c, e)
    BY <1>1, <1>3, <2>1 DEF Owners
  <2>3. v.export = e => b = c
    <3>. SUFFICES ASSUME v.export = e PROVE b = c
      OBVIOUS
    <3>1. Owned(b, e)
      BY DEF Fits
    <3>. QED
      BY <1>3, <2>1, <3>1 DEF Owned
  <2>. QED
    BY <2>2, <2>3, StoreOwned
<1>4. i \in DOMAIN versions[c] \/ (c = b /\ i = Len(versions[b]) + 1)
  BY <1>1, StoreGrows, VersionsExist
<1>. QED
  BY <1>2, <1>3, <1>4

LEMMA StoreInv ==
    ASSUME IInv, NEW b \in Objects, NEW v \in Version, Store(b, v), Fits(b, v),
           UNCHANGED bucket
    PROVE  VersionsInv' /\ Grows
<1>1. TypeOK /\ RecordedExportKept /\ GoneWithItsExport
  BY DEF IInv
<1>2. /\ Grows /\ Stored(b)' = v
      /\ \A c \in Objects : c # b => versions'[c] = versions[c] /\ Stored(c)' = Stored(c)
  BY <1>1, StoreGrows DEF Stored
<1>3. RecordedExportKept'
  BY <1>1, <1>2 DEF RecordedExportKept, Fits
<1>4. GoneWithItsExport'
  <2>. SUFFICES ASSUME NEW c \in Objects, Stored(c)'.life = "absent",
                       NEW i \in DOMAIN versions'[c], versions'[c][i].life = "deleting"
                PROVE  versions'[c][i].export \notin bucket
    BY DEF GoneWithItsExport
  <2>1. CASE c # b
    BY <1>1, <1>2, <2>1 DEF GoneWithItsExport
  <2>2. CASE c = b
    <3>1. i \in DOMAIN versions[b] /\ versions'[b][i] = versions[b][i] /\ Deleting(b, i)
      <4>. i \in DOMAIN versions[b] \/ i = Len(versions[b]) + 1
        BY <1>1, <2>2, StoreGrows, VersionsExist
      <4>. QED
        BY <1>1, <1>2, <2>2, StoreGrows DEF Grows, Deleting
    <3>2. Stored(b).life # "live"
      BY <3>1 DEF IInv, Histories, History
    <3>. QED
      BY <1>2, <2>2, <3>1, <3>2 DEF Fits
  <2>. QED
    BY <2>1, <2>2
<1>. QED
  BY <1>2, <1>3, <1>4, StoreHistory, StoreOwners DEF VersionsInv

-----------------------------------------------------------------------------
(* The steps that store a version.                                         *)

(* What may follow a version, as the life cycle sees it.                   *)
Moves(u, v) ==
    \/ v.life = u.life /\ v.phase = u.phase
    \/ u.life = "absent" /\ v.life = "live" /\ v.phase = u.phase
    \/ u.life = "live" /\ v.life = "live" /\ <<u.phase, v.phase>> \in PhaseEdges
    \/ u.life = "live" /\ v.life = "absent" /\ u.phase = "" /\ v.phase = ""
    \/ u.life = "live" /\ v.life = "deleting" /\ v.phase = u.phase
    \/ u.life = "deleting" /\ v.life = "absent" /\ v.phase = ""

(* A step that stores v, as the next version of b.                         *)
Follows(b, v) == v \in Version /\ Store(b, v) /\ Fits(b, v) /\ Moves(Stored(b), v)

(* The versions are as they were, or one that fits was added.              *)
Writes == UNCHANGED versions \/ \E b \in Objects : \E v \in Version : Follows(b, v)

LEMMA WritesInv ==
    ASSUME IInv, Writes, UNCHANGED bucket
    PROVE  VersionsInv' /\ Grows
BY NoStoreInv, StoreInv DEF Writes, Follows

(* A user stores a version that records what the last one does.            *)
LEMMA UserFollows ==
    ASSUME IInv, NEW b \in Objects, CreateObject(b) \/ EditObject(b) \/ DeleteObject(b)
    PROVE  \E v \in Version : Follows(b, v) /\ v.export \in {NoExport, Stored(b).export}
<1>1. /\ \A url \in BOOLEAN :
            /\ New(url) \in Version /\ New(url).life = "live" /\ New(url).phase = ""
            /\ New(url).export = NoExport
      /\ Absent \in Version /\ Absent.life = "absent" /\ Absent.phase = ""
      /\ Absent.export = NoExport
  BY DEF New, Absent, Version, Phases
<1>2. /\ Stored(b) \in Version /\ Sound(Stored(b)) /\ History(b)
      /\ Stored(b).export # NoExport => Owned(b, Stored(b).export)
      /\ Stored(b).life = "live" /\ Stored(b).export # NoExport => Stored(b).export \in bucket
  BY LastVersion DEF IInv, RecordedExportKept
<1>3. CASE CreateObject(b)
  <2>1. PICK url \in BOOLEAN : Store(b, New(url))
    BY <1>3 DEF CreateObject
  <2>2. Stored(b) = Absent /\ Len(versions[b]) = 1
    BY <1>3, FirstVersion DEF CreateObject
  <2>. DEFINE v == New(url)
  <2>3. /\ v \in Version /\ v.life = "live" /\ v.phase = "" /\ v.export = NoExport
        /\ Store(b, v)
    BY <1>1, <2>1
  <2>. HIDE DEF v
  <2>. QED
    BY <1>1, <2>2, <2>3 DEF Follows, Fits, Moves, Sound
<1>4. CASE EditObject(b)
  <2>1. PICK url \in BOOLEAN : Store(b, [Stored(b) EXCEPT !.url = url])
    BY <1>4 DEF EditObject
  <2>2. Stored(b).life # "absent"
    BY <1>4 DEF EditObject, Exists
  <2>. DEFINE v == [Stored(b) EXCEPT !.url = url]
  <2>3. /\ v \in Version /\ Store(b, v)
        /\ v.life = Stored(b).life /\ v.fin = Stored(b).fin
        /\ v.phase = Stored(b).phase /\ v.export = Stored(b).export
    BY <1>2, <2>1 DEF Version
  <2>. HIDE DEF v
  <2>4. Fits(b, v) /\ Moves(Stored(b), v)
    BY <1>2, <2>2, <2>3 DEF Fits, Moves, Sound
  <2>. QED
    BY <2>3, <2>4 DEF Follows
<1>5. CASE DeleteObject(b)
  <2>1. Stored(b).life = "live" /\ Store(b, Deleted(Stored(b), Absent))
    BY <1>5 DEF DeleteObject
  <2>2. CASE Stored(b).fin
    <3>. DEFINE v == [Stored(b) EXCEPT !.life = "deleting"]
    <3>1. /\ v \in Version /\ v.life = "deleting" /\ v.phase = Stored(b).phase
          /\ v.fin /\ v.export = Stored(b).export /\ Store(b, v)
      BY <1>2, <2>1, <2>2 DEF Version, Deleted
    <3>. HIDE DEF v
    <3>. QED
      BY <1>2, <2>1, <3>1 DEF Follows, Fits, Moves, Sound
  <2>3. CASE ~Stored(b).fin
    <3>. Store(b, Absent) /\ Stored(b).phase = ""
      BY <1>2, <2>1, <2>3 DEF Deleted, Sound
    <3>. QED
      BY <1>1, <2>1 DEF Follows, Fits, Moves, Sound
  <2>. QED
    BY <2>2, <2>3
<1>. QED
  BY <1>3, <1>4, <1>5

(* The version the worker's copy was made from.                            *)
LEMMA BaseVersion ==
    ASSUME IInv, worker # Idle
    PROVE  LET base == versions[worker.b][worker.rv]
           IN  /\ worker.b \in Objects /\ worker.rv \in DOMAIN versions[worker.b]
               /\ base \in Version /\ Sound(base) /\ Copy(worker)
               /\ base.export # NoExport => Owned(worker.b, base.export)
               /\ Fresh(worker) => base = Stored(worker.b)
<1>1. worker.b \in Objects /\ worker.rv \in 1 .. Len(versions[worker.b])
  BY BusyWorker DEF IInv
<1>2. /\ versions[worker.b] \in Seq(Version)
      /\ DOMAIN versions[worker.b] = 1 .. Len(versions[worker.b])
  BY <1>1, VersionsExist DEF IInv
<1>3. Copy(worker) /\ History(worker.b) /\ Owners
  BY <1>1 DEF IInv, Copies, Histories
<1>. QED
  BY <1>1, <1>2, <1>3 DEF History, Owners, Fresh, Stored

(* In the calls that update the object the copy is live, and says nothing  *)
(* of the bucket that is not so.                                           *)
LEMMA SavedCopy ==
    ASSUME IInv, worker # Idle, worker.pc \in SavePcs
    PROVE  LET base == versions[worker.b][worker.rv]
               v    == worker.obj
           IN  /\ base.life = "live" /\ CopyOf(worker, base)
               /\ v \in Version /\ v.life = "live" /\ Sound(v)
               /\ v.phase = base.phase \/ <<base.phase, v.phase>> \in PhaseEdges
               /\ \/ v.export = base.export
                  \/ v.export = NoExport
                  \/ v.export \in bucket /\ Owned(worker.b, v.export)
<1>. DEFINE base == versions[worker.b][worker.rv]
<1>1. base \in Version /\ Sound(base) /\ worker.obj \in Version
  BY BaseVersion, BusyWorker DEF IInv
<1>2. base.life = "live" /\ CopyOf(worker, base)
  BY BaseVersion DEF Copy, SavePcs
<1>. HIDE DEF base
<1>3. base.life = "live" /\ worker.obj.life = "live"
  BY <1>1, <1>2 DEF CopyOf, Version, SavePcs
<1>4. Sound(worker.obj)
  BY <1>1, <1>2, <1>3 DEF CopyOf, Version, SavePcs, Sound
<1>5. worker.obj.phase = base.phase \/ <<base.phase, worker.obj.phase>> \in PhaseEdges
  BY <1>1, <1>2 DEF CopyOf, Version, SavePcs, PhaseEdges
<1>6. \/ worker.obj.export = base.export \/ worker.obj.export = NoExport
      \/ worker.obj.export \in bucket /\ Owned(worker.b, worker.obj.export)
  BY <1>1, <1>2 DEF CopyOf, Version, SavePcs
<1>. QED
  BY <1>1, <1>2, <1>3, <1>4, <1>5, <1>6 DEF base

LEMMA UpdateWrites ==
    ASSUME IInv, worker # Idle, worker.pc \in SavePcs,
           Saved(worker.obj) \/ NotSaved(worker.obj)
    PROVE  Writes
<1>. DEFINE b == worker.b
            v == worker.obj
<1>1. UNCHANGED versions \/ (Fresh(worker) /\ Store(b, v))
  BY DEF Saved, NotSaved, Put
<1>2. CASE Fresh(worker) /\ Store(b, v)
  <2>1. b \in Objects /\ versions[b][worker.rv] = Stored(b)
    BY <1>2, BaseVersion
  <2>2. /\ Stored(b).life = "live" /\ v \in Version /\ v.life = "live" /\ Sound(v)
        /\ v.phase = Stored(b).phase \/ <<Stored(b).phase, v.phase>> \in PhaseEdges
        /\ \/ v.export = Stored(b).export
           \/ v.export = NoExport
           \/ v.export \in bucket /\ Owned(b, v.export)
    BY <2>1, SavedCopy
  <2>3. Stored(b).export # NoExport => Stored(b).export \in bucket /\ Owned(b, Stored(b).export)
    BY <2>1, <2>2, LastVersion DEF IInv, RecordedExportKept
  <2>4. Fits(b, v) /\ Moves(Stored(b), v)
    BY <2>2, <2>3 DEF Fits, Moves
  <2>. QED
    BY <1>2, <2>1, <2>2, <2>4 DEF Writes, Follows
<1>. QED
  BY <1>1, <1>2 DEF Writes

(* The finalizer is removed only from an object that is being deleted and  *)
(* whose export is gone: the version read is, and no later one is live or  *)
(* records another export.                                                 *)
LEMMA FinalizerWrites ==
    ASSUME IInv, RemoveFinalizer
    PROVE  Writes
<1>. DEFINE b    == worker.b
            base == versions[b][worker.rv]
<1>1. worker # Idle /\ worker.pc = "unfinalize"
  BY DEF RemoveFinalizer, At, Idle
<1>2. b \in Objects /\ worker.rv \in DOMAIN versions[b] /\ Copy(worker)
  BY <1>1, BaseVersion
<1>3. base.life = "deleting" /\ base.export \notin bucket
  BY <1>1, <1>2 DEF Copy, CopyOf
<1>4. CASE Store(b, Absent) /\ Cached(b).life # "absent" /\ seen[b] = Len(versions[b])
  <2>1. History(b) /\ Stored(b) \in Version
    BY <1>2, LastVersion
  <2>2. Stored(b).life # "live" /\ Stored(b).life # "absent"
    BY <1>2, <1>3, <1>4, <2>1 DEF History, Deleting, Stored, Cached
  <2>3. Stored(b).life = "deleting"
    BY <2>1, <2>2 DEF Version
  <2>4. \A i \in DOMAIN versions[b] : Deleting(b, i) => versions[b][i].export \notin bucket
    BY <1>2, <1>3, <2>1, <2>3 DEF History, Deleting
  <2>5. Absent \in Version /\ Absent.life = "absent" /\ Absent.phase = "" /\ Absent.export = NoExport
    BY DEF Absent, Version, Phases
  <2>6. Fits(b, Absent) /\ Moves(Stored(b), Absent)
    BY <2>3, <2>4, <2>5 DEF Fits, Moves, Sound
  <2>. QED
    BY <1>2, <1>4, <2>5, <2>6 DEF Writes, Follows
<1>5. CASE UNCHANGED versions
  BY <1>5 DEF Writes
<1>. QED
  BY <1>4, <1>5 DEF RemoveFinalizer

-----------------------------------------------------------------------------
(* The steps keep the invariant.                                           *)

(* The copy of the worker is as good as it was, after a step of others     *)
(* that records no new export.                                             *)
LEMMA CopiesKept ==
    ASSUME IInv, NEW b \in Objects, NEW v \in Version, Follows(b, v),
           v.export \in {NoExport, Stored(b).export}, UNCHANGED <<worker, bucket>>
    PROVE  Copies'
<1>. SUFFICES ASSUME worker # Idle PROVE Copy(worker)'
  BY DEF Copies
<1>. DEFINE base == versions[worker.b][worker.rv]
            e    == worker.obj.export
<1>1. worker.b \in Objects /\ worker.rv \in DOMAIN versions[worker.b] /\ Copy(worker)
  BY BaseVersion
<1>2. base' = base
  BY <1>1, StoreGrows DEF Grows, Follows, IInv
<1>3. ASSUME e # NoExport, Owned(worker.b, e) PROVE Owned(worker.b, e)'
  <2>1. v.export = e => b = worker.b
    BY <1>3, LastVersion DEF Owned, Stored
  <2>. QED
    BY <1>1, <1>3, <2>1, StoreOwned DEF Follows
<1>. QED
  BY <1>1, <1>2, <1>3 DEF Copy, CopyOf

LEMMA EnvironmentInv ==
    ASSUME IInv, NEW b \in Objects,
           \/ CreateObject(b) \/ EditObject(b) \/ DeleteObject(b)
           \/ Deliver(b) \/ Crash
    PROVE  VersionsInv' /\ Copies'
<1>1. CASE CreateObject(b) \/ EditObject(b) \/ DeleteObject(b)
  <2>1. PICK v \in Version : Follows(b, v) /\ v.export \in {NoExport, Stored(b).export}
    BY <1>1, UserFollows
  <2>2. UNCHANGED <<worker, bucket>>
    BY <1>1 DEF CreateObject, EditObject, DeleteObject
  <2>. QED
    BY <2>1, <2>2, CopiesKept, WritesInv DEF Writes
<1>2. CASE Deliver(b)
  <2>. UNCHANGED <<versions, bucket, worker>>
    BY <1>2 DEF Deliver
  <2>. QED
    BY NoStoreInv DEF IInv, Copies, Copy, CopyOf, Owned
<1>3. CASE Crash
  BY <1>3, NoStoreInv DEF Crash, Copies
<1>. QED
  BY <1>1, <1>2, <1>3

LEMMA ReconcileInv ==
    ASSUME IInv, NEW b \in Objects, Reconcile(b)
    PROVE  VersionsInv' /\ Copies'
<1>. DEFINE base == Cached(b)
            w    == [pc |-> "finalize", b |-> b, obj |-> base, rv |-> seen[b]]
<1>1. UNCHANGED <<versions, bucket>>
  BY DEF Reconcile, apiVars
<1>2. base \in Version /\ Sound(base) /\ base = versions[b][seen[b]]
  BY VersionsExist DEF IInv, Histories, History, Cached
<1>3. SUFFICES ASSUME worker' # Idle PROVE Copy(worker)'
  BY <1>1, NoStoreInv DEF Copies
<1>4. /\ worker'.b = b /\ worker'.rv = seen[b]
      /\ \/ /\ base.life = "deleting" /\ worker'.pc = "erase" /\ worker'.obj = base
         \/ /\ base.life = "live" /\ base.phase = "" /\ base.fin
            /\ worker'.pc = "start" /\ worker'.obj = [base EXCEPT !.phase = "Started"]
         \/ /\ base.life = "live" /\ base.phase = ""
            /\ worker'.pc = "finalize" /\ worker'.obj = [base EXCEPT !.fin = TRUE]
         \/ /\ base.life = "live" /\ base.phase = "Started"
            /\ worker'.pc = "credentials" /\ worker'.obj = base
  BY <1>3 DEF Reconcile, DeletePc, NeedsExport
<1>5. versions'[b][seen[b]] = base
  BY <1>1, <1>2
<1>. HIDE DEF base
<1>. QED
  BY <1>4, <1>5 DEF Copy, CopyOf

LEMMA SaveInv ==
    ASSUME IInv, Save \/ SaveFails
    PROVE  VersionsInv' /\ Copies'
<1>. DEFINE b  == worker.b
            v  == worker.obj
            rv == NewRv(b)
            w  == [worker EXCEPT !.rv = rv]
<1>1. worker # Idle /\ worker.pc \in SavePcs /\ worker \in Work /\ b \in Objects
  <2>. worker # Idle /\ worker.pc \in SavePcs
    BY DEF Save, SaveFails, SavePcs, Idle
  <2>. QED
    BY BusyWorker DEF IInv
<1>2. VersionsInv'
  <2>. UNCHANGED bucket /\ (Saved(v) \/ NotSaved(v))
    BY DEF Save, SaveFails
  <2>. QED
    BY <1>1, UpdateWrites, WritesInv
<1>3. CASE SaveFails
  BY <1>2, <1>3 DEF SaveFails, ReturnErr, Copies
<1>4. CASE Save
  <2>1. versions'[b][rv] = v
    <3>1. Put(b, v) /\ v \in Version
      BY <1>1, <1>4, SavedCopy DEF Save, Saved
    <3>2. versions'[b][Len(versions'[b])] = v
      BY <1>1, <3>1, StoreGrows DEF Put, IInv, Stored
    <3>. QED
      BY <3>2 DEF NewRv
  <2>2. v \in Version /\ v.life = "live" /\ CopyOf(worker, versions[b][worker.rv])
        /\ versions[b][worker.rv] \in Version
    BY <1>1, SavedCopy, BaseVersion
  <2>3. SUFFICES ASSUME worker' # Idle PROVE Copy(worker)'
    BY <1>2 DEF Copies
  <2>4. /\ worker'.b = b /\ worker'.rv = rv
        /\ \/ /\ worker.pc = "finalize" /\ worker'.pc = "start"
              /\ worker'.obj = [v EXCEPT !.phase = "Started"]
           \/ worker.pc = "start" /\ worker'.pc = "credentials" /\ worker'.obj = v
           \/ /\ worker.pc = "response" /\ worker'.pc = "completed"
              /\ worker'.obj = [v EXCEPT !.phase = "Completed"]
    <3>1. AfterSave(w)
      BY <1>4 DEF Save
    <3>2. w \in [pc : Pcs, b : Objects, obj : Version, rv : {rv}] /\ w.b = b /\ w.rv = rv /\ w.obj = v
      BY <1>1 DEF Work
    <3>. HIDE DEF w, v, rv
    <3>. QED
      BY <2>3, <3>1, <3>2 DEF AfterSave, Goto, ReturnErr, ReturnNil, At
  <2>5. /\ worker.pc = "finalize" => v.phase = "" /\ v.fin
        /\ worker.pc = "start" \/ worker.pc = "response" => v.phase = "Started"
    BY <2>2 DEF CopyOf, Version
  <2>. HIDE DEF v, rv, b
  <2>. QED
    BY <2>1, <2>2, <2>4, <2>5 DEF Copy, CopyOf
<1>. QED
  BY <1>3, <1>4

LEMMA CredentialsInv ==
    ASSUME IInv, GetCredentials
    PROVE  VersionsInv' /\ Copies'
<1>1. worker # Idle /\ worker.pc = "credentials" /\ worker \in Work
  <2>. worker # Idle /\ worker.pc = "credentials"
    BY DEF GetCredentials, At, Idle
  <2>. QED
    BY BusyWorker DEF IInv
<1>2. UNCHANGED <<versions, bucket>>
  BY DEF GetCredentials, apiVars
<1>3. Copy(worker)
  BY <1>1, BaseVersion
<1>4. worker' = Idle \/ worker' = [worker EXCEPT !.pc = "export"]
  BY DEF GetCredentials, ReturnErr, Goto
<1>5. ASSUME worker' = [worker EXCEPT !.pc = "export"] PROVE Copy(worker)'
  <2>. /\ worker'.pc = "export" /\ worker'.b = worker.b /\ worker'.rv = worker.rv
       /\ worker'.obj = worker.obj
    BY <1>1, <1>5 DEF Work
  <2>. QED
    BY <1>1, <1>2, <1>3 DEF Copy, CopyOf
<1>. QED
  BY <1>2, <1>4, <1>5, NoStoreInv DEF Copies

(* A new export goes into a directory that no object has ever recorded.    *)
LEMMA ExportInv ==
    ASSUME IInv, Export
    PROVE  VersionsInv' /\ Copies'
<1>. DEFINE b == worker.b
            base == versions[b][worker.rv]
<1>1. worker # Idle /\ worker.pc = "export" /\ worker \in Work /\ worker.obj \in Version
  <2>. worker # Idle /\ worker.pc = "export"
    BY DEF Export, At, Idle
  <2>. QED
    BY BusyWorker DEF IInv
<1>2. UNCHANGED versions
  BY DEF Export, apiVars
<1>3. PICK e \in Exports :
         /\ e \notin Recorded
         /\ bucket' \in {bucket, bucket \cup {e}}
         /\ \/ bucket' = bucket \cup {e} /\ worker' = [worker EXCEPT !.pc = "response", !.obj.export = e]
            \/ worker' = [worker EXCEPT !.pc = "response", !.obj.export = NoExport]
            \/ worker' = ExportFailed(worker, e)
  <2>. DEFINE f == CHOOSE f \in Exports : f \notin Recorded
  <2>1. f \in Exports /\ f \notin Recorded
    BY ExportDirectory DEF Export
  <2>. HIDE DEF f
  <2>2. /\ bucket' \in {bucket, bucket \cup {f}}
        /\ \/ bucket' = bucket \cup {f} /\ worker' = [worker EXCEPT !.pc = "response", !.obj.export = f]
           \/ worker' = [worker EXCEPT !.pc = "response", !.obj.export = NoExport]
           \/ worker' = ExportFailed(worker, f)
    BY DEF Export, f, Goto
  <2>. QED
    BY <2>1, <2>2
<1>4. \A c \in Objects : \A i \in DOMAIN versions[c] : versions[c][i].export # e
  BY <1>3 DEF Recorded
<1>5. \A c \in Objects : Stored(c)' = Stored(c)
  BY <1>2 DEF Stored
<1>6. VersionsInv'
  <2>1. Histories' /\ Owners'
    BY <1>2, SameVersions
  <2>2. RecordedExportKept'
    BY <1>3, <1>5 DEF IInv, RecordedExportKept
  <2>3. GoneWithItsExport'
    BY <1>2, <1>3, <1>4, <1>5 DEF IInv, GoneWithItsExport
  <2>. QED
    BY <2>1, <2>2, <2>3 DEF VersionsInv
<1>7. Copy(worker)'
  <2>1. /\ base.life = "live" /\ base.phase = "Started" /\ worker.obj = base
        /\ versions'[b][worker.rv] = base
    BY <1>1, <1>2, BaseVersion DEF Copy, CopyOf
  <2>2. /\ worker'.b = b /\ worker'.rv = worker.rv
        /\ \/ /\ worker'.pc = "response" /\ e \in bucket'
              /\ worker'.obj = [base EXCEPT !.export = e]
           \/ worker'.pc = "response" /\ worker'.obj = [base EXCEPT !.export = NoExport]
           \/ worker'.pc = "failed" /\ worker'.obj = [base EXCEPT !.phase = "Failed"]
    BY <1>1, <1>3, <2>1 DEF ExportFailed, Work
  <2>3. \A f \in {e, NoExport} : [base EXCEPT !.export = f].export = f
    BY <1>1, <2>1 DEF Version
  <2>4. Owned(worker.b, e)'
    BY <1>2, <1>4 DEF Owned
  <2>5. versions'[worker'.b][worker'.rv] = base
    BY <2>1, <2>2
  <2>. HIDE DEF base, b
  <2>6. CASE worker'.pc = "response"
    <3>1. worker'.obj = [base EXCEPT !.export = worker'.obj.export]
      BY <2>2, <2>3, <2>6
    <3>2. worker'.obj.export # NoExport => worker'.obj.export = e /\ e \in bucket'
      BY <2>2, <2>3, <2>6
    <3>3. (worker.obj.export # NoExport => Owned(worker.b, worker.obj.export))'
      BY <2>4, <3>2 DEF Owned
    <3>. QED
      BY <2>1, <2>5, <2>6, <3>1, <3>2, <3>3 DEF Copy, CopyOf
  <2>7. CASE worker'.pc = "failed"
    BY <2>1, <2>2, <2>5, <2>7 DEF Copy, CopyOf
  <2>. QED
    BY <2>2, <2>6, <2>7
<1>. QED
  BY <1>6, <1>7 DEF Copies

(* The export erased is that of an object being deleted, and of no other:  *)
(* no live object records it.                                              *)
LEMMA EraseInv ==
    ASSUME IInv, Erase
    PROVE  VersionsInv' /\ Copies'
<1>. DEFINE b    == worker.b
            base == versions[b][worker.rv]
<1>1. worker # Idle /\ worker.pc = "erase" /\ worker \in Work
  <2>. worker # Idle /\ worker.pc = "erase"
    BY DEF Erase, At, Idle
  <2>. QED
    BY BusyWorker DEF IInv
<1>2. UNCHANGED versions
  BY DEF Erase, apiVars
<1>3. /\ b \in Objects /\ worker.rv \in DOMAIN versions[b]
      /\ base.life = "deleting" /\ worker.obj = base
      /\ base.export # NoExport => Owned(b, base.export)
  BY <1>1, BaseVersion DEF Copy, CopyOf
<1>4. /\ bucket' \in {bucket, bucket \ {base.export}}
      /\ \/ worker' = Idle
         \/ worker' = [worker EXCEPT !.pc = "unfinalize"] /\ bucket' = bucket \ {base.export}
  BY <1>3 DEF Erase, Goto, Retry
<1>5. \A c \in Objects : Stored(c)' = Stored(c)
  BY <1>2 DEF Stored
<1>6. VersionsInv'
  <2>1. Histories' /\ Owners'
    BY <1>2, SameVersions
  <2>2. RecordedExportKept'
    <3>. SUFFICES ASSUME NEW c \in Objects, Stored(c).life = "live", Stored(c).export # NoExport,
                         Stored(c).export = base.export
                  PROVE  FALSE
      BY <1>4, <1>5 DEF IInv, RecordedExportKept
    <3>1. c = b
      BY <1>3, LastVersion DEF Owned
    <3>. QED
      BY <1>3, <3>1, LastVersion DEF History, Deleting
  <2>3. GoneWithItsExport'
    BY <1>2, <1>4, <1>5 DEF IInv, GoneWithItsExport
  <2>. QED
    BY <2>1, <2>2, <2>3 DEF VersionsInv
<1>7. ASSUME worker' = [worker EXCEPT !.pc = "unfinalize"], bucket' = bucket \ {base.export}
      PROVE  Copy(worker)'
  <2>. worker'.b = b /\ worker'.rv = worker.rv /\ worker'.pc = "unfinalize"
    BY <1>1, <1>7 DEF Work
  <2>. QED
    BY <1>2, <1>3, <1>7 DEF Copy
<1>. QED
  BY <1>4, <1>6, <1>7 DEF Copies

-----------------------------------------------------------------------------
(* The theorems.                                                           *)

LEMMA InitInv == Init => IInv
<1>. SUFFICES ASSUME Init PROVE IInv
  OBVIOUS
<1>1. TypeOK
  BY InitType
<1>2. \A b \in Objects : /\ DOMAIN versions[b] = {1} /\ versions[b][1] = Absent
                        /\ Stored(b) = Absent
  BY DEF Init, Stored
<1>3. Absent.life = "absent" /\ Absent.phase = "" /\ Absent.export = NoExport
  BY DEF Absent
<1>4. Histories /\ Owners
  BY <1>2, <1>3 DEF Histories, History, Deleting, Sound, Owners
<1>5. RecordedExportKept /\ GoneWithItsExport
  BY <1>2, <1>3 DEF RecordedExportKept, GoneWithItsExport
<1>6. Copies
  BY DEF Init, Copies
<1>. QED
  BY <1>1, <1>4, <1>5, <1>6 DEF IInv

LEMMA NextInv == IInv /\ [Next]_vars => IInv'
<1>. SUFFICES ASSUME IInv, [Next]_vars PROVE IInv'
  OBVIOUS
<1>1. TypeOK'
  BY NextType DEF IInv
<1>2. SUFFICES VersionsInv' /\ Copies'
  BY <1>1 DEF IInv, VersionsInv
<1>3. ASSUME UNCHANGED <<versions, bucket, worker>>
      PROVE  VersionsInv' /\ Copies'
  BY <1>3, NoStoreInv DEF IInv, Copies, Copy, CopyOf, Owned
<1>4. CASE UNCHANGED vars \/ CreateSecrets
  BY <1>3, <1>4 DEF vars, apiVars, CreateSecrets
<1>5. ASSUME NEW b \in Objects,
             \/ CreateObject(b) \/ EditObject(b) \/ DeleteObject(b)
             \/ Deliver(b) \/ Reconcile(b)
      PROVE  VersionsInv' /\ Copies'
  BY <1>5, EnvironmentInv, ReconcileInv
<1>6. CASE Crash
  BY <1>6, NoStoreInv DEF Crash, Copies
<1>7. CASE RemoveFinalizer
  <2>. UNCHANGED bucket /\ worker' = Idle
    BY <1>7 DEF RemoveFinalizer, Gone, Retry
  <2>. QED
    BY <1>7, FinalizerWrites, WritesInv DEF Copies
<1>8. CASE Save \/ SaveFails \/ GetCredentials \/ Export \/ Erase
  BY <1>8, SaveInv, CredentialsInv, ExportInv, EraseInv
<1>. QED
  BY <1>4, <1>5, <1>6, <1>7, <1>8 DEF Next, WorkerStep

LEMMA Inductive == Spec => []IInv
BY InitInv, NextInv, PTL DEF Spec

(* The files a live object records stay in the bucket, however stale the   *)
(* copies that deletions started from, and whatever calls failed: exports  *)
(* are only erased for an object that is not live any more, and no other   *)
(* object records them.                                                    *)
THEOREM ExportsKept == Spec => []RecordedExportKept
BY Inductive, PTL DEF IInv

(* An object that was exported leaves only with the export it records.     *)
THEOREM ExportsGone == Spec => []GoneWithItsExport
BY Inductive, PTL DEF IInv

-----------------------------------------------------------------------------
(* Refinement of BackupLifecycle: a version that follows another moves its *)
(* object along the life cycle, and every step stores only versions that   *)
(* do.                                                                     *)

LEMMA UnchangedMaps ==
    ASSUME UNCHANGED versions
    PROVE  UNCHANGED Lifecycle!vars
BY DEF Lifecycle!vars, Stored

LEMMA StoreMaps ==
    ASSUME TypeOK, NEW b \in Objects, NEW v \in Version, Store(b, v), Moves(Stored(b), v)
    PROVE  [Lifecycle!Next]_(Lifecycle!vars)
<1>. DEFINE life  == [c \in Objects |-> Stored(c).life]
            phase == [c \in Objects |-> Stored(c).phase]
            u     == Stored(b)
<1>1. Stored(b)' = v /\ \A c \in Objects : c # b => Stored(c)' = Stored(c)
  BY StoreGrows DEF Stored
<1>2. /\ life' = [life EXCEPT ![b] = v.life] /\ life[b] = u.life
      /\ phase' = [phase EXCEPT ![b] = v.phase] /\ phase[b] = u.phase
      /\ v.life = u.life => UNCHANGED life
      /\ v.phase = u.phase => UNCHANGED phase
  BY <1>1
<1>3. CASE v.life = u.life /\ v.phase = u.phase
  BY <1>2, <1>3 DEF Lifecycle!vars
<1>4. CASE u.life = "absent" /\ v.life = "live" /\ v.phase = u.phase
  BY <1>2, <1>4 DEF Lifecycle!Create, Lifecycle!Next
<1>5. CASE u.life = "live" /\ v.life = "live" /\ <<u.phase, v.phase>> \in PhaseEdges
  <2>. v.phase \in {e[2] : e \in PhaseEdges}
    <3>. <<u.phase, v.phase>>[2] = v.phase
      OBVIOUS
    <3>. QED
      BY <1>5
  <2>. QED
    BY <1>2, <1>5 DEF Lifecycle!Advance, Lifecycle!Next
<1>6. CASE u.life = "live" /\ v.life = "absent" /\ u.phase = "" /\ v.phase = ""
  BY <1>2, <1>6 DEF Lifecycle!DeleteUntouched, Lifecycle!Next
<1>7. CASE u.life = "live" /\ v.life = "deleting" /\ v.phase = u.phase
  BY <1>2, <1>7 DEF Lifecycle!RequestDeletion, Lifecycle!Next
<1>8. CASE u.life = "deleting" /\ v.life = "absent" /\ v.phase = ""
  BY <1>2, <1>8 DEF Lifecycle!Finalize, Lifecycle!Next
<1>. QED
  BY <1>3, <1>4, <1>5, <1>6, <1>7, <1>8 DEF Moves

LEMMA StepWrites ==
    ASSUME IInv, [Next]_vars
    PROVE  Writes
<1>1. ASSUME NEW b \in Objects, CreateObject(b) \/ EditObject(b) \/ DeleteObject(b)
      PROVE  Writes
  BY <1>1, UserFollows DEF Writes
<1>2. CASE Save \/ SaveFails
  <2>. /\ worker # Idle /\ worker.pc \in SavePcs
       /\ Saved(worker.obj) \/ NotSaved(worker.obj)
    BY <1>2 DEF Save, SaveFails, SavePcs, Idle
  <2>. QED
    BY UpdateWrites
<1>3. CASE RemoveFinalizer
  BY <1>3, FinalizerWrites
<1>4. CASE UNCHANGED versions
  BY <1>4 DEF Writes
<1>. QED
  BY <1>1, <1>2, <1>3, <1>4 DEF Next, WorkerStep, Deliver, Reconcile, CreateSecrets, Crash,
     GetCredentials, Export, Erase, vars, apiVars

-----------------------------------------------------------------------------
(* The objects keep the promise of a backup, whatever happens inside the   *)
(* operator: phases move along PhaseEdges, deletion freezes them, and an   *)
(* object whose processing began leaves through the finalizer.             *)
THEOREM LifecycleImplemented == Spec => ImplementsLifecycle
<1>1. Init => Lifecycle!Init
  <2>. Absent.life = "absent" /\ Absent.phase = ""
    BY DEF Absent
  <2>. SUFFICES ASSUME Init PROVE \A b \in Objects : Stored(b) = Absent
    BY DEF Lifecycle!Init
  <2>. QED
    BY DEF Init, Stored
<1>2. IInv /\ [Next]_vars => [Lifecycle!Next]_(Lifecycle!vars)
  BY StepWrites, UnchangedMaps, StoreMaps DEF Writes, Follows, IInv
<1>. QED
  BY <1>1, <1>2, Inductive, PTL DEF Spec, ImplementsLifecycle, Lifecycle!Spec
=============================================================================
