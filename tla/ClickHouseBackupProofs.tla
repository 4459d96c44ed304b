---------------------- MODULE ClickHouseBackupProofs ----------------------
(* What TLAPS proves of ClickHouseBackup for every set of backups and      *)
(* every bound.                                                            *)
EXTENDS ClickHouseBackup, TLAPS

-----------------------------------------------------------------------------
(* Facts about the operators of the model.                                 *)

(* The phases of a stage are phases.                                       *)
LEMMA StagePhases ==
    ASSUME NEW s \in Stages
    PROVE  {Todo(s), Running(s), Succeeded(s), Failed(s)} \subseteq Phases
BY DEF Stages, Phases, Todo, Running, Succeeded, Failed

(* Every object has versions: the one stored and the one in the cache.     *)
LEMMA VersionsExist ==
    ASSUME TypeOK, NEW b \in Objects
    PROVE  /\ Len(versions[b]) \in Nat \ {0}
           /\ seen[b] \in 1 .. Len(versions[b])
           /\ Stored(b) \in Version
           /\ Cached(b) \in Version
BY DEF TypeOK, Stored, Cached

(* A stored version is appended, and no other object is touched.           *)
LEMMA StoreAppends ==
    ASSUME TypeOK, NEW b \in Objects, NEW v \in Version, Store(b, v)
    PROVE  /\ versions' \in [Objects -> Seq(Version)]
           /\ versions'[b] = Append(versions[b], v)
           /\ \A c \in Objects : c # b => versions'[c] = versions[c]
           /\ \A c \in Objects : Len(versions[c]) <= Len(versions'[c])
<1>1. versions \in [Objects -> Seq(Version)]
  BY DEF TypeOK
<1>2. Append(versions[b], v) \in Seq(Version)
  BY <1>1
<1>3. versions' = [versions EXCEPT ![b] = Append(versions[b], v)]
  BY DEF Store
<1>4. Len(Append(versions[b], v)) = Len(versions[b]) + 1 /\ Len(versions[b]) \in Nat
  BY <1>1
<1>. QED
  BY <1>1, <1>2, <1>3, <1>4

(* The worker in a Reconcile is a record of Work.                          *)
LEMMA BusyWorker ==
    ASSUME TypeOK, worker # Idle
    PROVE  /\ worker \in Work
           /\ worker.pc \in Pcs
           /\ worker.b \in Objects
           /\ worker.stage \in Stages
           /\ worker.obj \in Version
           /\ worker.rv \in 1 .. Len(versions[worker.b])
           /\ worker.todo \in SUBSET Locations
<1>1. worker \in Work
  BY DEF TypeOK
<1>2. Len(versions[worker.b]) \in Nat
  BY <1>1, VersionsExist DEF Work
<1>. QED
  BY <1>1, <1>2 DEF Work, TypeOK

LEMMA EnterType ==
    ASSUME NEW w \in Work, NEW s \in Stages
    PROVE  Enter(w, s) \in Work
<1>1. Enter(w, s).pc \in Pcs
  BY DEF Enter, Pcs, SavePcs, Work
<1>. QED
  BY <1>1 DEF Enter, Work

(* A write leaves every object at least the versions it had.               *)
LEMMA PutGrows ==
    ASSUME TypeOK, worker # Idle, NEW v \in Version, Put(worker.b, v) \/ UNCHANGED versions
    PROVE  /\ versions' \in [Objects -> Seq(Version)]
           /\ \A c \in Objects : Len(versions[c]) <= Len(versions'[c])
           /\ NewRv(worker.b) \in Nat \ {0}
<1>1. worker.b \in Objects
  BY BusyWorker
<1>2. CASE UNCHANGED versions
  BY <1>1, <1>2, VersionsExist DEF TypeOK, NewRv
<1>3. CASE Store(worker.b, v)
  <2>. \A c \in Objects : Len(versions[c]) \in Nat \ {0}
    BY VersionsExist
  <2>. Len(versions'[worker.b]) \in Nat
    BY <1>1, <1>3, StoreAppends
  <2>. QED
    BY <1>1, <1>3, StoreAppends DEF NewRv
<1>. QED
  BY <1>2, <1>3 DEF Put

-----------------------------------------------------------------------------
(* Type correctness.                                                       *)

(* Each way a step of the worker ends leaves the worker and the queue well *)
(* typed, provided that the record it goes on with is.                     *)
LEMMA WorkerEnds ==
    ASSUME TypeOK, worker # Idle,
           versions' \in [Objects -> Seq(Version)],
           \A c \in Objects : Len(versions[c]) <= Len(versions'[c]),
           NEW w \in Work, w.rv <= Len(versions'[w.b]),
           \/ Goto(w) \/ Leave(w) \/ Goto(Enter(w, "create"))
           \/ ReturnNil \/ ReturnErr \/ Retry
           \/ worker' = Idle /\ UNCHANGED <<queue, gauge>>
    PROVE  /\ queue' \subseteq Objects
           /\ worker' \in Work \cup {Idle}
           /\ (worker # Idle => worker.rv <= Len(versions[worker.b]))'
           /\ gauge' \in [Objects -> SUBSET {"failed", "success"}]
<1>1. worker.b \in Objects /\ queue \subseteq Objects
      /\ gauge \in [Objects -> SUBSET {"failed", "success"}]
  BY BusyWorker DEF TypeOK
<1>2. CASE worker' = Idle
  BY <1>1, <1>2, EnterType DEF Goto, Leave, ReturnNil, ReturnErr, Retry
<1>3. CASE Goto(w)
  BY <1>1, <1>3 DEF Goto
<1>4. ASSUME NEW s \in Stages, Goto(Enter(w, s))
      PROVE  /\ queue' \subseteq Objects
             /\ worker' \in Work
             /\ worker'.rv <= Len(versions'[worker'.b])
             /\ gauge' \in [Objects -> SUBSET {"failed", "success"}]
  <2>1. Enter(w, s) \in Work
    BY EnterType
  <2>2. Enter(w, s).rv = w.rv /\ Enter(w, s).b = w.b
    BY DEF Enter, Work
  <2>. QED
    BY <1>1, <1>4, <2>1, <2>2 DEF Goto
<1>5. CASE Leave(w) /\ worker' # Idle
  <2>1. Goto(Enter(w, "upload"))
    BY <1>5 DEF Leave, Goto, ReturnNil
  <2>. QED
    BY <2>1, <1>4 DEF Stages
<1>6. CASE Goto(Enter(w, "create"))
  BY <1>6, <1>4 DEF Stages
<1>. QED
  BY <1>2, <1>3, <1>5, <1>6 DEF ReturnNil, ReturnErr, Retry

LEMMA InitType == Init => TypeOK
<1>. SUFFICES ASSUME Init PROVE TypeOK
  OBVIOUS
<1>1. Absent \in Version
  BY DEF Absent, Version, Phases, Errors
<1>2. versions \in [Objects -> Seq(Version)]
      /\ \A b \in Objects : Len(versions[b]) = 1
  BY <1>1 DEF Init
<1>3. budget \in [Bounded -> Nat]
  BY BoundsAssumption DEF Init, Bounded
<1>4. rows \in Seq(Rows)
  BY DEF Init
<1>5. seen \in [Objects -> Nat \ {0}] /\ \A b \in Objects : seen[b] <= Len(versions[b])
  BY <1>2 DEF Init
<1>6. gauge \in [Objects -> SUBSET {"failed", "success"}]
  BY DEF Init
<1>. QED
  BY <1>2, <1>3, <1>4, <1>5, <1>6, Zenon DEF Init, TypeOK

(* Users, the informer, time and restarts.                                 *)
LEMMA EnvironmentType ==
    ASSUME TypeOK, NEW b \in Objects,
           \/ CreateObject(b) \/ EditObject(b) \/ DeleteObject(b)
           \/ Deliver(b) \/ Expire(b) \/ Crash
    PROVE  TypeOK'
<1>1. /\ Absent \in Version
      /\ New \in Version
      /\ Stored(b) \in Version
      /\ [Stored(b) EXCEPT !.life = "deleting"] \in Version
  BY VersionsExist DEF Absent, New, Version, Phases, Errors
<1>2. \A c \in Objects : Len(versions[c]) \in Nat \ {0} /\ seen[c] \in 1 .. Len(versions[c])
  BY VersionsExist
<1>3. ASSUME NEW v \in Version, Store(b, v),
             UNCHANGED <<seen, queue, worker, expired, serverVars, gauge>>,
             budget' \in [Bounded -> Nat]
      PROVE  TypeOK'
  <2>1. /\ versions' \in [Objects -> Seq(Version)]
        /\ \A c \in Objects : Len(versions[c]) <= Len(versions'[c])
        /\ \A c \in Objects : Len(versions'[c]) \in Nat
    BY <1>3, StoreAppends
  <2>2. \A c \in Objects : seen'[c] <= Len(versions'[c])
    BY <1>2, <1>3, <2>1
  <2>3. worker' # Idle => worker'.rv <= Len(versions'[worker'.b])
    BY <1>2, <1>3, <2>1, BusyWorker
  <2>. QED
    BY <1>3, <2>1, <2>2, <2>3 DEF TypeOK, serverVars
<1>4. CASE CreateObject(b)
  BY <1>1, <1>3, <1>4 DEF CreateObject, TypeOK
<1>5. CASE EditObject(b)
  <2>. budget' \in [Bounded -> Nat]
    BY <1>5 DEF EditObject, Spend, Bounded, TypeOK
  <2>. QED
    BY <1>1, <1>3, <1>5 DEF EditObject
<1>6. CASE DeleteObject(b)
  BY <1>1, <1>3, <1>6 DEF DeleteObject, Deleted, TypeOK
<1>7. CASE Deliver(b)
  <2>1. seen' \in [Objects -> Nat \ {0}] /\ \A c \in Objects : seen'[c] <= Len(versions[c])
    BY <1>2, <1>7 DEF Deliver, TypeOK
  <2>. QED
    BY <1>7, <2>1 DEF Deliver, TypeOK, serverVars
<1>8. CASE Expire(b)
  BY <1>8 DEF Expire, TypeOK, apiVars, serverVars
<1>9. CASE Crash
  <2>1. budget' \in [Bounded -> Nat]
    BY <1>9 DEF Crash, Spend, Bounded, TypeOK
  <2>2. seen' \in [Objects -> Nat \ {0}] /\ \A c \in Objects : seen'[c] <= Len(versions[c])
    BY <1>2, <1>9 DEF Crash
  <2>. QED
    BY <1>9, <2>1, <2>2 DEF Crash, TypeOK, serverVars
<1>. QED
  BY <1>4, <1>5, <1>6, <1>7, <1>8, <1>9

(* The clickhouse-backup server.                                           *)
LEMMA ServerType ==
    ASSUME TypeOK, ServerStep
    PROVE  TypeOK'
<1>1. ASSUME NEW c \in inbox, StartCommand(c) \/ RefuseCommand(c)
      PROVE  TypeOK'
  <2>1. rows' \in Seq(Rows)
    <3>1. c \in Commands /\ rows \in Seq(Rows)
      BY DEF TypeOK
    <3>2. [cmd |-> c, status |-> "in progress"] \in Rows
      BY <3>1 DEF Rows
    <3>3. \A r \in Rows : Append(rows, r) \in Seq(Rows)
      BY <3>1
    <3>. QED
      BY <1>1, <3>1, <3>2, <3>3 DEF StartCommand, RefuseCommand
  <2>. QED
    BY <1>1, <2>1 DEF StartCommand, RefuseCommand, TypeOK, apiVars
<1>2. ASSUME NEW i \in DOMAIN rows, FinishCommand(i)
      PROVE  TypeOK'
  <2>1. rows \in Seq(Rows) /\ rows[i] \in Rows
    BY DEF TypeOK
  <2>2. rows[i].cmd.name \in Objects
    BY <2>1 DEF Rows, Commands
  <2>3. ASSUME NEW st \in {"success", "error"}
        PROVE  [rows EXCEPT ![i].status = st] \in Seq(Rows)
    <3>1. [rows[i] EXCEPT !.status = st] \in Rows
      BY <2>1 DEF Rows
    <3>. QED
      BY <2>1, <3>1
  <2>4. rows' \in Seq(Rows) /\ local' \subseteq Objects /\ remote' \subseteq Objects
    BY <1>2, <2>2, <2>3 DEF FinishCommand, TypeOK
  <2>. QED
    BY <1>2, <2>4 DEF FinishCommand, TypeOK, apiVars
<1>. QED
  BY <1>1, <1>2 DEF ServerStep

(* A fault spends the bound on faults.                                     *)
LEMMA BudgetType ==
    ASSUME TypeOK, NEW what \in Bounded, Spend(what) \/ UNCHANGED budget
    PROVE  budget' \in [Bounded -> Nat]
BY DEF Spend, Bounded, TypeOK

(* An update of the object by the worker, whether it succeeds or fails.    *)
LEMMA UpdateType ==
    ASSUME TypeOK, worker # Idle, NEW v \in Version, Saved(v) \/ NotSaved(v)
    PROVE  /\ versions' \in [Objects -> Seq(Version)]
           /\ \A c \in Objects : Len(versions[c]) <= Len(versions'[c])
           /\ budget' \in [Bounded -> Nat]
<1>1. Put(worker.b, v) \/ UNCHANGED versions
  BY DEF Saved, NotSaved
<1>2. "faults" \in Bounded
  BY DEF Bounded
<1>3. Spend("faults") \/ UNCHANGED budget
  BY DEF Saved, NotSaved
<1>. QED
  BY <1>1, <1>2, <1>3, PutGrows, BudgetType

(* It suffices that a step of the worker keeps the types of what it        *)
(* changes.                                                                *)
LEMMA StepType ==
    ASSUME TypeOK,
           versions' \in [Objects -> Seq(Version)],
           \A c \in Objects : Len(versions[c]) <= Len(versions'[c]),
           queue' \subseteq Objects,
           worker' \in Work \cup {Idle},
           (worker # Idle => worker.rv <= Len(versions[worker.b]))',
           inbox' \subseteq Commands, local' \subseteq Objects, remote' \subseteq Objects,
           gauge' \in [Objects -> SUBSET {"failed", "success"}],
           budget' \in [Bounded -> Nat],
           UNCHANGED <<seen, expired, rows>>
    PROVE  TypeOK'
<1>1. \A b \in Objects : seen'[b] <= Len(versions'[b])
  <2>. SUFFICES ASSUME NEW b \in Objects PROVE seen[b] <= Len(versions'[b])
    OBVIOUS
  <2>. Len(versions'[b]) \in Nat
    OBVIOUS
  <2>. QED
    BY VersionsExist
<1>. QED
  BY <1>1 DEF TypeOK

LEMMA ReconcileType ==
    ASSUME TypeOK, NEW b \in Objects, Reconcile(b)
    PROVE  TypeOK'
<1>. DEFINE w == [pc |-> "finalize", b |-> b, stage |-> "create",
                  obj |-> Cached(b), rv |-> seen[b], todo |-> {}]
<1>1. /\ Cached(b) \in Version
      /\ seen[b] \in Nat \ {0}
      /\ seen[b] <= Len(versions[b])
  BY VersionsExist
<1>2. w \in Work
  BY <1>1 DEF Work, Pcs, SavePcs, Stages, Locations
<1>3. Enter(w, "create") \in Work
  BY <1>2, EnterType DEF Stages
<1>4. \A pc \in Pcs : [w EXCEPT !.pc = pc] \in Work
  BY <1>2 DEF Work
<1>5. [w EXCEPT !.pc = "start", !.obj.phase = "Started"] \in Work
  BY <1>2 DEF Work, Version, Phases, Pcs, SavePcs
<1>6. [w EXCEPT !.obj.fin = TRUE] \in Work
  BY <1>2 DEF Work, Version
<1>7. DeletePc(w) \in Pcs
  BY DEF DeletePc, Pcs
<1>8. worker' \in {Idle, Enter(w, "create"), [w EXCEPT !.pc = DeletePc(w)],
                   [w EXCEPT !.pc = "start", !.obj.phase = "Started"],
                   [w EXCEPT !.obj.fin = TRUE]}
  <2>. Cached(b).life \in {"absent", "live", "deleting"}
    BY <1>1 DEF Version
  <2>. QED
    BY DEF Reconcile
<1>9. worker' \in Work \cup {Idle}
  BY <1>2, <1>3, <1>4, <1>5, <1>6, <1>7, <1>8
<1>10. worker' # Idle => worker'.rv <= Len(versions[worker'.b])
  <2>. \A v \in {Enter(w, "create"), [w EXCEPT !.pc = DeletePc(w)],
                   [w EXCEPT !.pc = "start", !.obj.phase = "Started"],
                   [w EXCEPT !.obj.fin = TRUE]} : v.rv = seen[b] /\ v.b = b
    BY DEF Enter
  <2>. QED
    BY <1>1, <1>8
<1>. QED
  BY <1>9, <1>10 DEF Reconcile, TypeOK, apiVars, serverVars

(* The updates of the object between two calls.                            *)
LEMMA SaveType ==
    ASSUME TypeOK, Save \/ SaveFails
    PROVE  TypeOK'
<1>1. worker # Idle /\ worker.obj \in Version /\ worker \in Work
  <2>. worker # Idle
    BY DEF Save, SaveFails, SavePcs, Idle
  <2>. QED
    BY BusyWorker
<1>2. Saved(worker.obj) \/ NotSaved(worker.obj)
  BY DEF Save, SaveFails
<1>3. /\ versions' \in [Objects -> Seq(Version)]
      /\ \A c \in Objects : Len(versions[c]) <= Len(versions'[c])
      /\ budget' \in [Bounded -> Nat]
  BY <1>1, <1>2, UpdateType
<1>4. /\ queue' \subseteq Objects
      /\ worker' \in Work \cup {Idle}
      /\ (worker # Idle => worker.rv <= Len(versions[worker.b]))'
      /\ gauge' \in [Objects -> SUBSET {"failed", "success"}]
  <2>. DEFINE w == [worker EXCEPT !.rv = NewRv(worker.b)]
  <2>1. NewRv(worker.b) \in Nat \ {0} /\ NewRv(worker.b) = Len(versions'[worker.b])
    BY <1>1, <1>2, PutGrows DEF Saved, NotSaved, NewRv
  <2>2. w \in Work /\ w.b = worker.b /\ w.rv = NewRv(worker.b)
    BY <1>1, <2>1 DEF Work
  <2>3. ASSUME NEW pc \in {"resolve", "check"}
        PROVE  /\ [w EXCEPT !.pc = pc] \in Work
               /\ [w EXCEPT !.pc = pc].rv <= Len(versions'[[w EXCEPT !.pc = pc].b])
    <3>. DEFINE x == [w EXCEPT !.pc = pc]
    <3>. HIDE DEF w
    <3>1. x \in Work /\ x.b = w.b /\ x.rv = w.rv
      BY <2>2 DEF Work, Pcs
    <3>. QED
      BY <2>1, <2>2, <3>1
  <2>4. LET x == [w EXCEPT !.pc = "start", !.obj.phase = "Started"]
        IN  x \in Work /\ x.rv <= Len(versions'[x.b])
    <3>. DEFINE x == [w EXCEPT !.pc = "start", !.obj.phase = "Started"]
    <3>. HIDE DEF w
    <3>1. x \in Work /\ x.b = w.b /\ x.rv = w.rv
      BY <2>2 DEF Work, Version, Phases, Pcs, SavePcs
    <3>. QED
      BY <2>1, <2>2, <3>1
  <2>5. w.rv <= Len(versions'[w.b])
    BY <2>1, <2>2
  <2>6. CASE SaveFails
    BY <1>1, <1>3, <2>2, <2>5, <2>6, WorkerEnds DEF SaveFails
  <2>7. CASE Save
    <3>1. CASE Goto([w EXCEPT !.pc = "start", !.obj.phase = "Started"])
      BY <1>1, <1>3, <2>4, <3>1, WorkerEnds
    <3>2. ASSUME NEW pc \in {"resolve", "check"}, Goto([w EXCEPT !.pc = pc])
          PROVE  <1>4!1 /\ <1>4!2 /\ <1>4!3 /\ <1>4!4
      BY <1>1, <1>3, <2>3, <3>2, WorkerEnds
    <3>3. CASE Goto(Enter(w, "create")) \/ ReturnErr \/ Leave(w)
      BY <1>1, <1>3, <2>2, <2>5, <3>3, WorkerEnds
    <3>. QED
      BY <2>7, <3>1, <3>2, <3>3 DEF Save, AfterSave
  <2>. QED
    BY <2>6, <2>7
<1>. QED
  BY <1>3, <1>4, StepType DEF Save, SaveFails, serverVars, TypeOK

(* What a step of the worker makes of its record: another call, or another *)
(* object in memory, of the same Reconcile.                                *)
LEMMA WorkUpdates ==
    ASSUME NEW w \in Work, NEW pc \in Pcs, NEW obj \in Version
    PROVE  LET x == [w EXCEPT !.pc = pc, !.obj = obj]
               y == [w EXCEPT !.pc = pc]
           IN  /\ x \in Work /\ x.b = w.b /\ x.rv = w.rv
               /\ y \in Work /\ y.b = w.b /\ y.rv = w.rv
BY DEF Work

LEMMA FailedObjType ==
    ASSUME NEW w \in Work, NEW e \in Errors
    PROVE  FailedObj(w, e) \in Version
BY StagePhases DEF FailedObj, Version, Work

(* The calls that touch neither the object nor the server.                 *)
LEMMA CallType ==
    ASSUME TypeOK, Resolve \/ CheckDeadline \/ GiveUp
    PROVE  TypeOK'
<1>1. worker # Idle /\ worker \in Work
  <2>. worker # Idle
    BY DEF Resolve, CheckDeadline, GiveUp, At, Idle
  <2>. QED
    BY BusyWorker
<1>2. /\ versions' \in [Objects -> Seq(Version)]
      /\ \A c \in Objects : Len(versions[c]) <= Len(versions'[c])
      /\ worker.rv <= Len(versions'[worker.b])
      /\ UNCHANGED <<seen, expired, inbox, rows, local, remote>>
  <2>1. UNCHANGED <<apiVars, expired, serverVars>>
    BY DEF Resolve, CheckDeadline, GiveUp
  <2>2. \A c \in Objects : Len(versions[c]) \in Nat
    BY VersionsExist
  <2>. QED
    BY <1>1, <2>1, <2>2 DEF apiVars, serverVars, TypeOK
<1>3. budget' \in [Bounded -> Nat]
  <2>. "faults" \in Bounded /\ (Spend("faults") \/ UNCHANGED budget)
    BY DEF Resolve, CheckDeadline, GiveUp, Bounded
  <2>. QED
    BY BudgetType
<1>4. PICK w \in Work :
         /\ w.b = worker.b /\ w.rv = worker.rv
         /\ Goto(w) \/ ReturnErr
  <2>1. CASE Resolve
    <3>1. LET x == [worker EXCEPT !.pc = "resolved", !.obj.addr = TRUE]
          IN  x \in Work /\ x.b = worker.b /\ x.rv = worker.rv
      BY <1>1 DEF Work, Version, Pcs, SavePcs
    <3>. QED
      BY <1>1, <2>1, <3>1 DEF Resolve
  <2>2. CASE CheckDeadline
    <3>1. /\ "timeout" \in Pcs /\ "poll" \in Pcs
          /\ FailedObj(worker, "timeout") \in Version
      BY <1>1, FailedObjType DEF Pcs, SavePcs, Errors
    <3>. QED
      BY <1>1, <2>2, <3>1, WorkUpdates DEF CheckDeadline
  <2>3. CASE GiveUp
    <3>1. "final" \in Pcs /\ FailedObj(worker, "retry") \in Version
      BY <1>1, FailedObjType DEF Pcs, SavePcs, Errors
    <3>. QED
      BY <1>1, <2>3, <3>1, WorkUpdates DEF GiveUp
  <2>. QED
    BY <2>1, <2>2, <2>3
<1>5. w.rv <= Len(versions'[w.b])
  BY <1>2, <1>4
<1>6. /\ queue' \subseteq Objects
      /\ worker' \in Work \cup {Idle}
      /\ (worker # Idle => worker.rv <= Len(versions[worker.b]))'
      /\ gauge' \in [Objects -> SUBSET {"failed", "success"}]
  BY <1>1, <1>2, <1>4, <1>5, WorkerEnds
<1>. QED
  BY <1>2, <1>3, <1>6, StepType DEF TypeOK

LEMMA PostType ==
    ASSUME TypeOK, Post
    PROVE  TypeOK'
<1>1. worker # Idle /\ worker \in Work
  <2>. worker # Idle
    BY DEF Post, At, Idle
  <2>. QED
    BY BusyWorker
<1>2. /\ versions' \in [Objects -> Seq(Version)]
      /\ \A c \in Objects : Len(versions[c]) <= Len(versions'[c])
      /\ worker.rv <= Len(versions'[worker.b])
      /\ UNCHANGED <<seen, expired, rows, local, remote>>
  <2>1. \A c \in Objects : Len(versions[c]) \in Nat
    BY VersionsExist
  <2>. QED
    BY <1>1, <2>1 DEF Post, apiVars, TypeOK
<1>3. budget' \in [Bounded -> Nat]
  <2>. "faults" \in Bounded /\ (Spend("faults") \/ UNCHANGED budget)
    BY DEF Post, Bounded
  <2>. QED
    BY BudgetType
<1>4. inbox' \subseteq Commands
  <2>1. Command(worker) \in Commands
    BY <1>1 DEF Command, Commands, Work, Stages
  <2>. QED
    BY <2>1 DEF Post, TypeOK
<1>5. PICK w \in Work : w.b = worker.b /\ w.rv = worker.rv /\ Goto(w)
  <2>1. {"accepted", "refused"} \subseteq Pcs
    BY DEF Pcs, SavePcs
  <2>2. LET x == [worker EXCEPT !.pc = "accepted", !.obj.phase = Running(worker.stage)]
        IN  x \in Work /\ x.b = worker.b /\ x.rv = worker.rv
    BY <1>1, <2>1, StagePhases DEF Work, Version
  <2>3. LET x == [worker EXCEPT !.pc = "refused", !.obj = FailedObj(worker, "request")]
        IN  x \in Work /\ x.b = worker.b /\ x.rv = worker.rv
    BY <1>1, <2>1, FailedObjType, WorkUpdates DEF Errors
  <2>. QED
    BY <2>2, <2>3 DEF Post
<1>6. w.rv <= Len(versions'[w.b])
  BY <1>2, <1>5
<1>7. /\ queue' \subseteq Objects
      /\ worker' \in Work \cup {Idle}
      /\ (worker # Idle => worker.rv <= Len(versions[worker.b]))'
      /\ gauge' \in [Objects -> SUBSET {"failed", "success"}]
  BY <1>1, <1>2, <1>5, <1>6, WorkerEnds
<1>. QED
  BY <1>2, <1>3, <1>4, <1>7, StepType DEF TypeOK

LEMMA PollType ==
    ASSUME TypeOK, PollError \/ PollSuccess
    PROVE  TypeOK'
<1>. DEFINE told    == FailedObj(worker, "server")
            final   == [worker EXCEPT !.pc = "final", !.obj = FailedObj(worker, "retry")]
            success == [worker EXCEPT !.obj.phase = Succeeded(worker.stage)]
<1>1. worker # Idle /\ worker \in Work
  <2>. worker # Idle
    BY DEF PollError, PollSuccess, At, Idle
  <2>. QED
    BY BusyWorker
<1>2. /\ told \in Version
      /\ final \in Work /\ final.b = worker.b /\ final.rv = worker.rv
  <2>. "final" \in Pcs /\ FailedObj(worker, "retry") \in Version /\ told \in Version
    BY <1>1, FailedObjType DEF Pcs, SavePcs, Errors
  <2>. QED
    BY <1>1, WorkUpdates
<1>3. /\ success \in Work /\ success.obj \in Version
      /\ success.b = worker.b /\ success.rv = worker.rv
  BY <1>1, StagePhases DEF Work, Version
<1>4. PICK v \in Version, w \in Work :
         /\ w.b = worker.b
         /\ \/ Saved(v) /\ w.rv = NewRv(worker.b)
            \/ NotSaved(v) /\ w.rv = worker.rv
         /\ Goto(w)
  <2>. HIDE DEF final, success, told
  <2>. DEFINE Outcome(v, w) ==
                /\ w.b = worker.b
                /\ \/ Saved(v) /\ w.rv = NewRv(worker.b)
                   \/ NotSaved(v) /\ w.rv = worker.rv
                /\ Goto(w)
  <2>. SUFFICES \E v \in Version, w \in Work : Outcome(v, w)
    OBVIOUS
  <2>1. \A v \in Version : Saved(v) => NewRv(worker.b) \in Nat \ {0}
    BY <1>1, PutGrows DEF Saved
  <2>2. ASSUME Saved(told), Goto([final EXCEPT !.rv = NewRv(worker.b)])
        PROVE  \E v \in Version, w \in Work : Outcome(v, w)
    <3>. DEFINE x == [final EXCEPT !.rv = NewRv(worker.b)]
    <3>1. x \in Work /\ x.b = final.b /\ x.rv = NewRv(worker.b)
      BY <1>2, <2>1, <2>2 DEF Work
    <3>2. Outcome(told, x)
      BY <1>2, <2>2, <3>1
    <3>. QED
      BY <1>2, <3>1, <3>2
  <2>3. ASSUME Saved(success.obj), Goto([success EXCEPT !.pc = "final", !.rv = NewRv(worker.b)])
        PROVE  \E v \in Version, w \in Work : Outcome(v, w)
    <3>. DEFINE x == [success EXCEPT !.pc = "final", !.rv = NewRv(worker.b)]
    <3>1. x \in Work /\ x.b = success.b /\ x.rv = NewRv(worker.b)
      BY <1>3, <2>1, <2>3 DEF Work, Pcs, SavePcs
    <3>2. Outcome(success.obj, x)
      BY <1>3, <2>3, <3>1
    <3>. QED
      BY <1>3, <3>1, <3>2
  <2>4. ASSUME NotSaved(told), Goto(final)
        PROVE  \E v \in Version, w \in Work : Outcome(v, w)
    BY <1>2, <2>4
  <2>5. ASSUME NotSaved(success.obj), Goto(success)
        PROVE  \E v \in Version, w \in Work : Outcome(v, w)
    BY <1>3, <2>5
  <2>. QED
    BY <2>2, <2>3, <2>4, <2>5 DEF PollError, PollSuccess, final, success, told
<1>5. /\ versions' \in [Objects -> Seq(Version)]
      /\ \A c \in Objects : Len(versions[c]) <= Len(versions'[c])
      /\ budget' \in [Bounded -> Nat]
  BY <1>1, <1>4, UpdateType
<1>6. w.rv <= Len(versions'[w.b])
  <2>1. NewRv(worker.b) \in Nat /\ NewRv(worker.b) = Len(versions'[worker.b])
    BY <1>1, <1>4, PutGrows DEF Saved, NotSaved, NewRv
  <2>2. worker.rv <= Len(versions[worker.b]) /\ worker.rv \in Nat
        /\ Len(versions[worker.b]) \in Nat /\ worker.b \in Objects
    BY <1>1, BusyWorker, VersionsExist
  <2>. QED
    BY <1>4, <1>5, <2>1, <2>2
<1>7. /\ queue' \subseteq Objects
      /\ worker' \in Work \cup {Idle}
      /\ (worker # Idle => worker.rv <= Len(versions[worker.b]))'
      /\ gauge' \in [Objects -> SUBSET {"failed", "success"}]
  BY <1>1, <1>4, <1>5, <1>6, WorkerEnds
<1>. QED
  BY <1>5, <1>7, StepType DEF PollError, PollSuccess, serverVars, TypeOK

(* The path of a deletion.                                                 *)
LEMMA DeletionType ==
    ASSUME TypeOK, NEW l \in Locations, ListBackups \/ Erase(l) \/ RemoveFinalizer
    PROVE  TypeOK'
<1>1. worker # Idle /\ worker \in Work
  <2>. worker # Idle
    BY DEF ListBackups, Erase, RemoveFinalizer, At, Idle
  <2>. QED
    BY BusyWorker
<1>2. /\ versions' \in [Objects -> Seq(Version)]
      /\ \A c \in Objects : Len(versions[c]) <= Len(versions'[c])
  <2>1. UNCHANGED versions \/ Store(worker.b, Absent)
    BY DEF ListBackups, Erase, RemoveFinalizer, apiVars
  <2>2. CASE UNCHANGED versions
    <3>. \A c \in Objects : Len(versions[c]) \in Nat
      BY VersionsExist
    <3>. QED
      BY <2>2 DEF TypeOK
  <2>3. CASE Store(worker.b, Absent)
    <3>. Absent \in Version /\ worker.b \in Objects
      BY <1>1, BusyWorker DEF Absent, Version, Phases, Errors
    <3>. QED
      BY <2>3, StoreAppends
  <2>. QED
    BY <2>1, <2>2, <2>3
<1>3. worker.rv <= Len(versions'[worker.b])
  <2>. /\ worker.rv <= Len(versions[worker.b]) /\ worker.rv \in Nat
       /\ Len(versions[worker.b]) \in Nat /\ worker.b \in Objects
    BY <1>1, BusyWorker, VersionsExist
  <2>. Len(versions'[worker.b]) \in Nat
    BY <1>2
  <2>. QED
    BY <1>2
<1>4. budget' \in [Bounded -> Nat]
  <2>. "faults" \in Bounded /\ (Spend("faults") \/ UNCHANGED budget)
    BY DEF ListBackups, Erase, RemoveFinalizer, Bounded
  <2>. QED
    BY BudgetType
<1>5. local' \subseteq Objects /\ remote' \subseteq Objects /\ inbox' \subseteq Commands
  BY DEF ListBackups, Erase, RemoveFinalizer, serverVars, TypeOK
<1>6. /\ queue' \subseteq Objects
      /\ worker' \in Work \cup {Idle}
      /\ (worker # Idle => worker.rv <= Len(versions[worker.b]))'
      /\ gauge' \in [Objects -> SUBSET {"failed", "success"}]
  <2>1. ASSUME NEW todo \in SUBSET Locations, Goto(NextErase(worker, todo))
        PROVE  /\ queue' \subseteq Objects
               /\ worker' \in Work \cup {Idle}
               /\ (worker # Idle => worker.rv <= Len(versions[worker.b]))'
               /\ gauge' \in [Objects -> SUBSET {"failed", "success"}]
    <3>. DEFINE x == NextErase(worker, todo)
    <3>1. x \in Work /\ x.b = worker.b /\ x.rv = worker.rv
      BY <1>1 DEF NextErase, Work, Pcs
    <3>. QED
      BY <1>1, <1>2, <1>3, <2>1, <3>1, WorkerEnds
  <2>2. CASE Retry \/ (worker' = Idle /\ UNCHANGED <<queue, gauge>>)
    BY <1>1, <1>2, <1>3, <2>2, WorkerEnds
  <2>3. CASE ListBackups
    <3>. DEFINE found == {k \in Locations :
                            worker.b \in (IF k = "local" THEN local ELSE remote)}
    <3>. found \in SUBSET Locations
      OBVIOUS
    <3>. QED
      BY <2>1, <2>2, <2>3 DEF ListBackups
  <2>4. CASE Erase(l)
    <3>. worker.todo \ {l} \in SUBSET Locations
      BY <1>1 DEF Work
    <3>. QED
      BY <2>1, <2>2, <2>4 DEF Erase
  <2>5. CASE RemoveFinalizer
    BY <2>2, <2>5 DEF RemoveFinalizer
  <2>. QED
    BY <2>3, <2>4, <2>5
<1>. QED
  BY <1>2, <1>4, <1>5, <1>6, StepType
     DEF ListBackups, Erase, RemoveFinalizer, apiVars, serverVars

LEMMA NextType == TypeOK /\ [Next]_vars => TypeOK'
<1>. SUFFICES ASSUME TypeOK, [Next]_vars PROVE TypeOK'
  OBVIOUS
<1>1. CASE UNCHANGED vars
  BY <1>1 DEF vars, apiVars, serverVars, TypeOK
<1>2. ASSUME NEW b \in Objects,
             \/ CreateObject(b) \/ EditObject(b) \/ DeleteObject(b)
             \/ Deliver(b) \/ Expire(b) \/ Reconcile(b)
      PROVE  TypeOK'
  BY <1>2, EnvironmentType, ReconcileType
<1>3. CASE Crash
  <2>1. CASE Objects = {}
    BY <1>3, <2>1 DEF Crash, Spend, Bounded, TypeOK, serverVars
  <2>. QED
    BY <1>3, <2>1, EnvironmentType
<1>4. CASE ServerStep
  BY <1>4, ServerType
<1>5. CASE WorkerStep \/ GiveUp
  <2>1. "local" \in Locations
    BY DEF Locations
  <2>. QED
    BY <1>5, <2>1, SaveType, CallType, PostType, PollType, DeletionType DEF WorkerStep
<1>. QED
  BY <1>1, <1>2, <1>3, <1>4, <1>5 DEF Next

(* Every variable keeps its type; in particular the cache and the worker   *)
(* never hold a version the API server has not stored.                     *)
THEOREM TypeCorrect == Spec => []TypeOK
BY InitType, NextType, PTL DEF Spec
=============================================================================
