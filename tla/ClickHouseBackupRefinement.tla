--------------------- MODULE ClickHouseBackupRefinement ---------------------
(* ClickHouseBackup implements BackupLifecycle: proved for every set of    *)
(* backups and every bound.                                                *)
EXTENDS ClickHouseBackupSafety

-----------------------------------------------------------------------------
(* What may follow a version, as the life cycle sees it.                   *)
Moves(u, v) ==
    \/ v.life = u.life /\ v.phase = u.phase
    \/ u.life = "absent" /\ v.life = "live" /\ v.phase = u.phase
    \/ u.life = "live" /\ v.life = "live" /\ <<u.phase, v.phase>> \in PhaseEdges
    \/ u.life = "live" /\ v.life = "absent" /\ u.phase = "" /\ v.phase = ""
    \/ u.life = "live" /\ v.life = "deleting" /\ v.phase = u.phase
    \/ u.life = "deleting" /\ v.life = "absent" /\ v.phase = ""

LEMMA UnchangedMaps ==
    ASSUME UNCHANGED versions
    PROVE  UNCHANGED Lifecycle!vars
BY DEF Lifecycle!vars, Stored

(* A stored version that may follow the last one is a step of the life     *)
(* cycle, or changes nothing of it.                                        *)
LEMMA StoreMaps ==
    ASSUME TypeOK, NEW b \in Objects, NEW v \in Version, Store(b, v), Moves(Stored(b), v)
    PROVE  [Lifecycle!Next]_(Lifecycle!vars)
<1>. DEFINE life  == [c \in Objects |-> Stored(c).life]
            phase == [c \in Objects |-> Stored(c).phase]
            u     == Stored(b)
<1>1. Stored(b)' = v /\ \A c \in Objects : c # b => Stored(c)' = Stored(c)
  BY StoreGrows DEF Stored
<1>2. /\ life' = [life EXCEPT ![b] = v.life]
      /\ phase' = [phase EXCEPT ![b] = v.phase]
      /\ life[b] = u.life /\ phase[b] = u.phase
  BY <1>1
<1>3. /\ v.life = u.life => UNCHANGED life
      /\ v.phase = u.phase => UNCHANGED phase
  BY <1>1
<1>4. CASE v.life = u.life /\ v.phase = u.phase
  BY <1>3, <1>4 DEF Lifecycle!vars
<1>5. CASE u.life = "absent" /\ v.life = "live" /\ v.phase = u.phase
  <2>. Lifecycle!Create(b)
    BY <1>2, <1>3, <1>5 DEF Lifecycle!Create
  <2>. QED
    BY DEF Lifecycle!Next
<1>6. CASE u.life = "live" /\ v.life = "live" /\ <<u.phase, v.phase>> \in PhaseEdges
  <2>1. v.phase \in {e[2] : e \in PhaseEdges}
    <3>. <<u.phase, v.phase>>[2] = v.phase
      OBVIOUS
    <3>. QED
      BY <1>6
  <2>. Lifecycle!Advance(b)
    BY <1>2, <1>3, <1>6, <2>1 DEF Lifecycle!Advance
  <2>. QED
    BY DEF Lifecycle!Next
<1>7. CASE u.life = "live" /\ v.life = "absent" /\ u.phase = "" /\ v.phase = ""
  <2>. Lifecycle!DeleteUntouched(b)
    BY <1>2, <1>3, <1>7 DEF Lifecycle!DeleteUntouched
  <2>. QED
    BY DEF Lifecycle!Next
<1>8. CASE u.life = "live" /\ v.life = "deleting" /\ v.phase = u.phase
  <2>. Lifecycle!RequestDeletion(b)
    BY <1>2, <1>3, <1>8 DEF Lifecycle!RequestDeletion
  <2>. QED
    BY DEF Lifecycle!Next
<1>9. CASE u.life = "deleting" /\ v.life = "absent" /\ v.phase = ""
  <2>. Lifecycle!Finalize(b)
    BY <1>2, <1>9 DEF Lifecycle!Finalize
  <2>. QED
    BY DEF Lifecycle!Next
<1>. QED
  BY <1>4, <1>5, <1>6, <1>7, <1>8, <1>9 DEF Moves

(* The last version of an object is one of its versions.                   *)
LEMMA LastVersion ==
    ASSUME IInv, NEW b \in Objects
    PROVE  /\ Stored(b) \in Version /\ Sound(Stored(b)) /\ History(b)
           /\ Len(versions[b]) \in DOMAIN versions[b]
<1>1. versions[b] \in Seq(Version) /\ Len(versions[b]) \in Nat \ {0}
  BY VersionsExist DEF IInv, TypeOK
<1>2. Len(versions[b]) \in DOMAIN versions[b]
  BY <1>1
<1>. QED
  BY <1>1, <1>2 DEF IInv, Histories, History, Stored

(* Users: only an object that nothing was done for goes without a          *)
(* finalizer.                                                              *)
LEMMA UserMaps ==
    ASSUME IInv, NEW b \in Objects, CreateObject(b) \/ EditObject(b) \/ DeleteObject(b)
    PROVE  [Lifecycle!Next]_(Lifecycle!vars)
<1>1. TypeOK
  BY DEF IInv
<1>2. /\ New \in Version /\ New.life = "live" /\ New.phase = ""
      /\ Absent \in Version /\ Absent.life = "absent" /\ Absent.phase = ""
  BY DEF New, Absent, Version, Phases, Errors
<1>3. Stored(b) \in Version /\ Sound(Stored(b)) /\ History(b)
  BY LastVersion
<1>4. CASE CreateObject(b)
  <2>1. Stored(b).life = "absent" /\ Stored(b).phase = ""
    BY <1>1, <1>3, <1>4, LastVersion, FirstVersion DEF CreateObject, Stored
  <2>. QED
    BY <1>1, <1>2, <1>4, <2>1, StoreMaps DEF CreateObject, Moves
<1>5. CASE EditObject(b)
  <2>. Moves(Stored(b), Stored(b))
    BY DEF Moves
  <2>. QED
    BY <1>1, <1>3, <1>5, StoreMaps DEF EditObject
<1>6. CASE DeleteObject(b)
  <2>. DEFINE v == Deleted(Stored(b), Absent)
  <2>1. v \in Version /\ Moves(Stored(b), v)
    <3>1. CASE Stored(b).fin
      BY <1>3, <1>6, <3>1 DEF Deleted, Moves, Version, DeleteObject
    <3>2. CASE ~Stored(b).fin
      BY <1>2, <1>3, <1>6, <3>2 DEF Deleted, Moves, DeleteObject, Sound
    <3>. QED
      BY <3>1, <3>2
  <2>2. Store(b, v)
    BY <1>6 DEF DeleteObject
  <2>. QED
    BY <1>1, <2>1, <2>2, StoreMaps
<1>. QED
  BY <1>4, <1>5, <1>6

(* What the worker makes of the phase of the version it read.              *)
PhaseFollows(u, v) == v.phase = u.phase \/ <<u.phase, v.phase>> \in PhaseEdges

LEMMA UpdateMaps ==
    ASSUME IInv, worker # Idle, NEW v \in Version, Saved(v) \/ NotSaved(v),
           versions[worker.b][worker.rv].life = "live", v.life = "live",
           PhaseFollows(versions[worker.b][worker.rv], v)
    PROVE  [Lifecycle!Next]_(Lifecycle!vars)
<1>1. UNCHANGED versions \/ (Fresh(worker) /\ Store(worker.b, v))
  BY DEF Saved, NotSaved, Put
<1>2. CASE Fresh(worker) /\ Store(worker.b, v)
  <2>1. worker.b \in Objects /\ TypeOK /\ versions[worker.b][worker.rv] = Stored(worker.b)
    BY <1>2, BusyWorker, BaseExists DEF IInv
  <2>. QED
    BY <1>2, <2>1, StoreMaps DEF Moves, PhaseFollows
<1>. QED
  BY <1>1, <1>2, UnchangedMaps

LEMMA EdgesOfStages ==
    ASSUME NEW s \in Stages
    PROVE  {<<"", "Started">>, <<Todo(s), Running(s)>>, <<Todo(s), Failed(s)>>,
            <<Running(s), Succeeded(s)>>, <<Running(s), Failed(s)>>} \subseteq PhaseEdges
BY DEF PhaseEdges

(* The worker's own updates.                                               *)
LEMMA WorkerMaps ==
    ASSUME IInv, Save \/ SaveFails \/ PollError \/ PollSuccess
    PROVE  [Lifecycle!Next]_(Lifecycle!vars)
<1>. DEFINE base == versions[worker.b][worker.rv]
            s    == worker.stage
<1>1. worker # Idle /\ worker.pc \in SavePcs \cup {"poll"}
  BY DEF Save, SaveFails, PollError, PollSuccess, SavePcs, At, Idle
<1>2. worker \in Work /\ worker.obj \in Version /\ s \in Stages
  BY <1>1, BusyWorker DEF IInv
<1>3. base.life = "live" /\ CopyOf(worker, base) /\ base \in Version /\ Sound(base)
  BY <1>1, LiveCopy, BaseExists DEF SavePcs
<1>4. CASE Save \/ SaveFails
  <2>1. worker.pc \in SavePcs /\ (Saved(worker.obj) \/ NotSaved(worker.obj))
    BY <1>4 DEF Save, SaveFails
  <2>2. worker.obj.life = "live" /\ PhaseFollows(base, worker.obj)
    <3>. HIDE DEF base
    <3>. QED
      BY <1>2, <1>3, <2>1, EdgesOfStages DEF CopyOf, SavePcs, Version, PhaseFollows
  <2>. QED
    BY <1>1, <1>2, <1>3, <2>1, <2>2, UpdateMaps
<1>5. CASE PollError \/ PollSuccess
  <2>1. worker.pc = "poll"
    BY <1>5 DEF PollError, PollSuccess, At
  <2>2. base.phase = Running(s) /\ worker.obj.life = "live"
    <3>. HIDE DEF base
    <3>. QED
      BY <1>3, <2>1 DEF CopyOf, Version
  <2>3. CASE PollError
    <3>. DEFINE v == FailedObj(worker, "server")
    <3>1. v \in Version /\ v.phase = Failed(s) /\ v.life = "live"
      BY <1>2, <2>2, FailedObjType DEF Errors, FailedObj, Version
    <3>2. Saved(v) \/ NotSaved(v)
      BY <2>3 DEF PollError
    <3>3. PhaseFollows(base, v)
      BY <1>2, <2>2, <3>1, EdgesOfStages DEF PhaseFollows
    <3>. QED
      BY <1>1, <1>3, <3>1, <3>2, <3>3, UpdateMaps
  <2>4. CASE PollSuccess
    <3>. DEFINE v == [worker.obj EXCEPT !.phase = Succeeded(s)]
    <3>1. v \in Version /\ v.phase = Succeeded(s) /\ v.life = "live"
      BY <1>2, <2>2, StagePhases DEF Version
    <3>2. [worker EXCEPT !.obj.phase = Succeeded(s)].obj = v
      BY <1>2 DEF Work
    <3>3. Saved(v) \/ NotSaved(v)
      BY <2>4, <3>2 DEF PollSuccess
    <3>4. PhaseFollows(base, v)
      BY <1>2, <2>2, <3>1, EdgesOfStages DEF PhaseFollows
    <3>. HIDE DEF v
    <3>. QED
      BY <1>1, <1>3, <3>1, <3>3, <3>4, UpdateMaps
  <2>. QED
    BY <1>5, <2>3, <2>4
<1>. QED
  BY <1>4, <1>5

(* The finalizer is removed only from an object that is being deleted: the *)
(* version read is, and none of the later ones is live.                    *)
LEMMA FinalizerMaps ==
    ASSUME IInv, RemoveFinalizer
    PROVE  [Lifecycle!Next]_(Lifecycle!vars)
<1>. DEFINE b == worker.b
<1>1. worker # Idle /\ worker.pc = "unfinalize"
  BY DEF RemoveFinalizer, At, Idle
<1>2. b \in Objects /\ TypeOK
  BY <1>1, BusyWorker DEF IInv
<1>3. worker.rv \in DOMAIN versions[b] /\ versions[b][worker.rv].life = "deleting"
  BY <1>1, BaseExists DEF IInv, Copies, Copy, CopyOf
<1>4. CASE /\ Store(b, Absent) /\ Cached(b).life # "absent"
           /\ seen[b] = Len(versions[b])
  <2>1. Stored(b).life # "absent"
    BY <1>4 DEF Stored, Cached
  <2>2. Stored(b).life # "live" /\ Stored(b) \in Version
    BY <1>2, <1>3, LastVersion DEF History
  <2>3. Stored(b).life = "deleting"
    BY <2>1, <2>2 DEF Version
  <2>4. Absent \in Version /\ Absent.life = "absent" /\ Absent.phase = ""
    BY DEF Absent, Version, Phases, Errors
  <2>. QED
    BY <1>2, <1>4, <2>3, <2>4, StoreMaps DEF Moves
<1>5. CASE UNCHANGED versions
  BY <1>5, UnchangedMaps
<1>. QED
  BY <1>4, <1>5 DEF RemoveFinalizer

-----------------------------------------------------------------------------
(* The objects keep the promise of a backup, whatever happens inside the   *)
(* operator: phases move along PhaseEdges, deletion freezes them, and an   *)
(* object whose processing began leaves through the finalizer.             *)
THEOREM LifecycleImplemented == Spec => ImplementsLifecycle
<1>1. Init => Lifecycle!Init
  <2>. Absent.life = "absent" /\ Absent.phase = ""
    BY DEF Absent
  <2>. SUFFICES ASSUME Init PROVE \A b \in Objects : Stored(b) = Absent
    BY DEF Lifecycle!Init
  <2>. QED
    BY DEF Init, Stored
<1>2. IInv /\ [Next]_vars => [Lifecycle!Next]_(Lifecycle!vars)
  <2>. SUFFICES ASSUME IInv, [Next]_vars PROVE [Lifecycle!Next]_(Lifecycle!vars)
    OBVIOUS
  <2>1. ASSUME NEW b \in Objects, CreateObject(b) \/ EditObject(b) \/ DeleteObject(b)
        PROVE  [Lifecycle!Next]_(Lifecycle!vars)
    BY <2>1, UserMaps
  <2>2. CASE Save \/ SaveFails \/ PollError \/ PollSuccess \/ RemoveFinalizer
    BY <2>2, WorkerMaps, FinalizerMaps
  <2>3. CASE UNCHANGED versions
    BY <2>3, UnchangedMaps
  <2>. QED
    BY <2>1, <2>2, <2>3 DEF Next, ServerStep, WorkerStep, Deliver, Expire, Reconcile, Crash,
       StartCommand, RefuseCommand, FinishCommand, Resolve, Post, CheckDeadline, GiveUp,
       ListBackups, Erase, vars, apiVars
<1>. QED
  BY <1>1, <1>2, Inductive, PTL DEF Spec, ImplementsLifecycle, Lifecycle!Spec
=============================================================================
