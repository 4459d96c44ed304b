------------------------ MODULE BackupScheduleProofs ------------------------
(* Type correctness of BackupSchedule, for every set of schedules and      *)
(* controllers and every bound, with and without --leader-elect.           *)
EXTENDS BackupSchedule, TLAPS

-----------------------------------------------------------------------------
(* Facts about the operators of the model.                                 *)

LEMMA AbsentType ==
    /\ Absent \in Version
    /\ \A s \in AllSpecs : New(s) \in Version
BY DEF Absent, New, Version, AllSpecs

(* Every schedule has versions: the one stored and the one in the cache.   *)
LEMMA VersionsExist ==
    ASSUME TypeOK, NEW b \in Objects
    PROVE  /\ versions[b] \in Seq(Version)
           /\ Len(versions[b]) \in Nat \ {0}
           /\ DOMAIN versions[b] = 1 .. Len(versions[b])
           /\ seen[b] \in 1 .. Len(versions[b])
           /\ Stored(b) \in Version
           /\ Cached(b) \in Version
BY DEF TypeOK, Stored, Cached

(* A stored version is appended, and no other schedule is touched.         *)
LEMMA StoreAppends ==
    ASSUME TypeOK, NEW b \in Objects, NEW v \in Version, Store(b, v)
    PROVE  /\ versions' \in [Objects -> Seq(Version)]
           /\ versions'[b] = Append(versions[b], v)
           /\ \A c \in Objects : c # b => versions'[c] = versions[c]
           /\ \A c \in Objects : Len(versions[c]) <= Len(versions'[c])
<1>1. versions \in [Objects -> Seq(Version)]
  BY DEF TypeOK
<1>2. Append(versions[b], v) \in Seq(Version)
  BY <1>1
<1>3. versions' = [versions EXCEPT ![b] = Append(versions[b], v)]
  BY DEF Store
<1>4. Len(Append(versions[b], v)) = Len(versions[b]) + 1 /\ Len(versions[b]) \in Nat
  BY <1>1
<1>. QED
  BY <1>1, <1>2, <1>3, <1>4

(* The record of a worker in a Reconcile, of a schedule of its controller. *)
LEMMA BusyWorker ==
    ASSUME TypeOK, NEW c \in Controllers, workers[c] # Idle
    PROVE  /\ workers[c] \in Work
           /\ workers[c].pc \in Pcs
           /\ workers[c].b \in Objects
           /\ ControllerOf[workers[c].b] = c
           /\ workers[c].obj \in Version
           /\ workers[c].rv \in 1 .. Len(versions[workers[c].b])
<1>1. workers[c] \in Work
  BY DEF TypeOK
<1>2. workers[c].b \in Objects /\ Len(versions[workers[c].b]) \in Nat
  BY <1>1, VersionsExist DEF Work
<1>. QED
  BY <1>1, <1>2 DEF Work, TypeOK

LEMMA NowType ==
    ASSUME TypeOK
    PROVE  Now \in Nat /\ StartedAt \in Nat /\ latest \in Nat \ {0} /\ process <= latest
BY DEF TypeOK, Now, StartedAt

(* The parts of the type invariant that the parts of a step leave to be    *)
(* shown: what it stores, how a worker goes on, what it does to the cron.  *)
WritesType ==
    /\ versions' \in [Objects -> Seq(Version)]
    /\ \A b \in Objects : Len(versions[b]) <= Len(versions'[b])

EndType(c) ==
    /\ queue' \subseteq Objects
    /\ \E w \in Work \cup {Idle} :
          /\ workers' = [workers EXCEPT ![c] = w]
          /\ w # Idle => ControllerOf[w.b] = c /\ w.rv <= Len(versions'[w.b])

CronType ==
    /\ cron' \subseteq Entry
    /\ nextId' \in Nat \ {0}
    /\ \A e \in cron' : e.id < nextId'

LEMMA NoWriteType ==
    ASSUME TypeOK, UNCHANGED versions
    PROVE  WritesType
<1>. \A b \in Objects : Len(versions[b]) \in Nat
  BY VersionsExist
<1>. QED
  BY DEF TypeOK, WritesType

LEMMA StoreType ==
    ASSUME TypeOK, NEW b \in Objects, NEW v \in Version, Store(b, v)
    PROVE  WritesType
BY StoreAppends DEF WritesType

(* A step that spends the bound on something, or nothing.                  *)
LEMMA BudgetType ==
    ASSUME TypeOK, NEW what \in Bounded, Spend(what) \/ UNCHANGED budget
    PROVE  budget' \in [Bounded -> Nat]
BY DEF Spend, Bounded, TypeOK

(* A worker goes on with another record of the same schedule, or ends.     *)
LEMMA WorkerEnds ==
    ASSUME TypeOK, NEW c \in Controllers, workers[c] # Idle,
           NEW w \in Work, ControllerOf[w.b] = c, w.rv <= Len(versions'[w.b]),
           Goto(c, w) \/ Done(c) \/ Retry(c)
    PROVE  EndType(c)
<1>1. workers[c].b \in Objects /\ queue \subseteq Objects
  BY BusyWorker DEF TypeOK
<1>2. CASE Goto(c, w)
  BY <1>1, <1>2 DEF Goto, EndType
<1>3. CASE Done(c) \/ Retry(c)
  <2>. workers' = [workers EXCEPT ![c] = Idle] /\ queue' \subseteq Objects
    BY <1>1, <1>3 DEF Done, Goto, Retry
  <2>. QED
    BY DEF EndType
<1>. QED
  BY <1>2, <1>3

(* It suffices that a step of a worker keeps the types of what it changes. *)
LEMMA StepType ==
    ASSUME TypeOK, NEW c \in Controllers, WritesType, EndType(c), CronType,
           budget' \in [Bounded -> Nat], UNCHANGED <<seen, processVars>>
    PROVE  TypeOK'
<1>1. \A b \in Objects : /\ Len(versions[b]) \in Nat /\ Len(versions'[b]) \in Nat
                         /\ Len(versions[b]) <= Len(versions'[b])
  BY VersionsExist DEF WritesType
<1>2. \A b \in Objects : seen'[b] <= Len(versions'[b])
  <2>. SUFFICES ASSUME NEW b \in Objects PROVE seen[b] <= Len(versions'[b])
    OBVIOUS
  <2>. QED
    BY <1>1, VersionsExist
<1>3. PICK w \in Work \cup {Idle} :
         /\ workers' = [workers EXCEPT ![c] = w]
         /\ w # Idle => ControllerOf[w.b] = c /\ w.rv <= Len(versions'[w.b])
  BY DEF EndType
<1>4. workers' \in [Controllers -> Work \cup {Idle}]
  BY <1>3 DEF TypeOK
<1>5. ASSUME NEW d \in Controllers, workers'[d] # Idle
      PROVE  ControllerOf[workers'[d].b] = d /\ workers'[d].rv <= Len(versions'[workers'[d].b])
  <2>1. CASE d = c
    BY <1>3, <1>5, <2>1 DEF TypeOK
  <2>2. CASE d # c
    <3>1. workers'[d] = workers[d]
      BY <1>3, <2>2 DEF TypeOK
    <3>2. /\ workers[d].b \in Objects /\ ControllerOf[workers[d].b] = d
          /\ workers[d].rv \in 1 .. Len(versions[workers[d].b])
      BY <1>5, <3>1, BusyWorker
    <3>. QED
      BY <1>1, <3>1, <3>2
  <2>. QED
    BY <2>1, <2>2
<1>. QED
  BY <1>2, <1>4, <1>5 DEF TypeOK, WritesType, EndType, CronType, processVars

LEMMA SameCronType ==
    ASSUME TypeOK, UNCHANGED cronVars
    PROVE  CronType
BY DEF TypeOK, CronType, cronVars

(* Tasks leave the cron, and one is added with the next id.                *)
LEMMA ScheduleTaskType ==
    ASSUME TypeOK, NEW w \in Work, NEW task \in {"create", "retain"}, NEW id,
           ScheduleTask(task, w, id)
    PROVE  CronType
<1>1. cron \subseteq Entry /\ nextId \in Nat \ {0} /\ \A e \in cron : e.id < nextId
  BY DEF TypeOK
<1>2. Added(task, w) \in Entry /\ Added(task, w).id = nextId
  BY <1>1 DEF Added, Entry, Work, Version
<1>3. cron' \subseteq cron \cup {Added(task, w)} /\ nextId' = nextId + 1
  BY DEF ScheduleTask, Without
<1>4. \A e \in cron : e.id \in Nat
  BY <1>1 DEF Entry
<1>. QED
  BY <1>1, <1>2, <1>3, <1>4 DEF CronType

-----------------------------------------------------------------------------
(* The steps.                                                              *)

LEMMA InitType == Init => TypeOK
<1>. SUFFICES ASSUME Init PROVE TypeOK
  OBVIOUS
<1>1. versions \in [Objects -> Seq(Version)] /\ \A b \in Objects : Len(versions[b]) = 1
  BY AbsentType DEF Init
<1>2. budget \in [Bounded -> Nat]
  BY BoundsAssumption DEF Init, Bounded
<1>3. seen \in [Objects -> Nat \ {0}] /\ \A b \in Objects : seen[b] <= Len(versions[b])
  BY <1>1 DEF Init
<1>4. /\ workers \in [Controllers -> Work \cup {Idle}]
      /\ \A c \in Controllers : workers[c] = Idle
  BY DEF Init
<1>5. /\ process = 1 /\ latest \in {process, process + 1} /\ process \in Nat \ {0}
      /\ nextId \in Nat \ {0} /\ queue = {} /\ cron = {} /\ starting \in BOOLEAN
  BY DEF Init
<1>. QED
  BY <1>1, <1>2, <1>3, <1>4, <1>5, Zenon DEF TypeOK

(* Users, the informers and time.                                          *)
LEMMA EnvironmentType ==
    ASSUME TypeOK, NEW b \in Objects,
           \/ CreateObject(b) \/ EditObject(b) \/ DeleteObject(b)
           \/ Deliver(b) \/ Enqueue(b)
    PROVE  TypeOK'
<1>1. \A d \in Objects : Len(versions[d]) \in Nat \ {0} /\ seen[d] \in 1 .. Len(versions[d])
  BY VersionsExist
<1>2. Stored(b) \in Version
  BY VersionsExist
<1>3. ASSUME NEW v \in Version, Store(b, v),
             UNCHANGED <<seen, queue, workers, cronVars, processVars>>,
             budget' \in [Bounded -> Nat]
      PROVE  TypeOK'
  <2>1. /\ versions' \in [Objects -> Seq(Version)]
        /\ \A d \in Objects : Len(versions[d]) <= Len(versions'[d])
        /\ \A d \in Objects : Len(versions'[d]) \in Nat
    BY <1>3, StoreAppends
  <2>2. \A d \in Objects : seen'[d] <= Len(versions'[d])
    BY <1>1, <1>3, <2>1
  <2>3. \A c \in Controllers : workers[c] # Idle =>
           ControllerOf[workers[c].b] = c /\ workers[c].rv <= Len(versions'[workers[c].b])
    BY <1>1, <2>1, BusyWorker
  <2>. QED
    BY <1>3, <2>1, <2>2, <2>3 DEF TypeOK, cronVars, processVars
<1>4. CASE CreateObject(b)
  <2>. PICK s \in Specs : Store(b, New(s))
    BY <1>4 DEF CreateObject
  <2>. New(s) \in Version
    BY AbsentType, SpecsAssumption
  <2>. QED
    BY <1>3, <1>4 DEF CreateObject, TypeOK
<1>5. CASE EditObject(b)
  <2>1. budget' \in [Bounded -> Nat]
    BY <1>5, BudgetType DEF EditObject, Bounded
  <2>2. \A s \in Specs : [Stored(b) EXCEPT !.spec = s, !.gen = @ + 1] \in Version
    <3>1. ASSUME NEW v \in Version, NEW s \in AllSpecs
          PROVE  [v EXCEPT !.spec = s, !.gen = @ + 1] \in Version
      <4>. DEFINE u == [v EXCEPT !.spec = s]
      <4>1. u \in Version
        BY DEF Version
      <4>2. u.gen + 1 \in Nat
        BY <4>1 DEF Version
      <4>. HIDE DEF u
      <4>3. [u EXCEPT !.gen = u.gen + 1] \in Version
        BY <4>1, <4>2 DEF Version
      <4>. QED
        BY <4>3 DEF u
    <3>. QED
      BY <1>2, <3>1, SpecsAssumption
  <2>3. \E v \in Version : Store(b, v)
    BY <1>2, <1>5, <2>2 DEF EditObject
  <2>. QED
    BY <1>3, <1>5, <2>1, <2>3 DEF EditObject
<1>6. CASE DeleteObject(b)
  <2>. Deleted(Stored(b), Absent) \in Version
    BY <1>2, AbsentType DEF Deleted, Version
  <2>. QED
    BY <1>3, <1>6 DEF DeleteObject, TypeOK
<1>7. CASE Deliver(b)
  <2>1. seen' \in [Objects -> Nat \ {0}] /\ \A d \in Objects : seen'[d] <= Len(versions[d])
    BY <1>1, <1>7 DEF Deliver, TypeOK
  <2>. QED
    BY <1>7, <2>1 DEF Deliver, TypeOK, cronVars, processVars
<1>8. CASE Enqueue(b)
  BY <1>8 DEF Enqueue, TypeOK, apiVars, cronVars, processVars
<1>. QED
  BY <1>4, <1>5, <1>6, <1>7, <1>8

(* A process begins to lead.                                               *)
LEMMA LeadsType ==
    ASSUME TypeOK, Leads, budget' \in [Bounded -> Nat], latest' \in Nat \ {0},
           starting' \in BOOLEAN
    PROVE  TypeOK'
<1>1. \A b \in Objects : Len(versions[b]) \in Nat \ {0}
  BY VersionsExist
<1>2. seen' \in [Objects -> Nat \ {0}] /\ \A b \in Objects : seen'[b] <= Len(versions'[b])
  BY <1>1 DEF Leads
<1>3. /\ workers' \in [Controllers -> Work \cup {Idle}]
      /\ \A c \in Controllers : workers'[c] = Idle
  BY DEF Leads
<1>. QED
  BY <1>2, <1>3 DEF Leads, TypeOK

LEMMA ProcessType ==
    ASSUME TypeOK, SecondPasses \/ Restart \/ StandBy \/ TakeOver
    PROVE  TypeOK'
<1>1. CASE SecondPasses
  BY <1>1 DEF SecondPasses, TypeOK, apiVars, cronVars
<1>2. CASE StandBy
  BY <1>2 DEF StandBy, Spend, Bounded, TypeOK, apiVars, cronVars
<1>3. CASE Restart \/ TakeOver
  <2>1. budget' \in [Bounded -> Nat]
    BY <1>3, BudgetType DEF Restart, TakeOver, Bounded
  <2>2. latest \in Nat \ {0} /\ latest + 1 \in Nat \ {0} /\ starting \in BOOLEAN
    BY NowType DEF TypeOK
  <2>3. latest' \in {latest, latest + 1} /\ starting' \in {TRUE, starting} /\ Leads
    BY <1>3 DEF Restart, TakeOver
  <2>. QED
    BY <2>1, <2>2, <2>3, LeadsType
<1>. QED
  BY <1>1, <1>2, <1>3

LEMMA ReconcileType ==
    ASSUME TypeOK, NEW b \in Objects, Reconcile(b)
    PROVE  TypeOK'
<1>. DEFINE c == ControllerOf[b]
            w == [pc |-> "finalize", b |-> b, obj |-> Cached(b), rv |-> seen[b]]
            ws == {[w EXCEPT !.pc = "unfinalize"], [w EXCEPT !.pc = "schedule"],
                   [w EXCEPT !.obj.fin = TRUE]}
<1>1. /\ Cached(b) \in Version /\ seen[b] \in Nat \ {0}
      /\ seen[b] <= Len(versions[b]) /\ c \in Controllers
  BY VersionsExist, ControllerAssumption
<1>2. ws \subseteq Work /\ \A x \in ws : x.b = b /\ x.rv = seen[b]
  <2>1. w \in Work /\ [Cached(b) EXCEPT !.fin = TRUE] \in Version
    BY <1>1 DEF Work, Version, Pcs
  <2>. HIDE DEF w
  <2>2. [w EXCEPT !.pc = "unfinalize"] \in Work /\ [w EXCEPT !.pc = "schedule"] \in Work
    BY <2>1 DEF Work, Pcs
  <2>3. [w EXCEPT !.obj.fin = TRUE] \in Work
    BY <1>1, <2>1 DEF Work, Version
  <2>4. w.b = b /\ w.rv = seen[b]
    BY DEF w
  <2>5. \A x \in ws : x.b = w.b /\ x.rv = w.rv
    BY <2>1 DEF Work
  <2>. QED
    BY <2>2, <2>3, <2>4, <2>5
<1>3. \E x \in ws \cup {Idle} : workers' = [workers EXCEPT ![c] = x]
  BY DEF Reconcile
<1>. HIDE DEF ws
<1>4. EndType(c)
  <2>1. queue' \subseteq Objects /\ versions' = versions
    BY DEF Reconcile, apiVars, TypeOK
  <2>2. PICK x \in ws \cup {Idle} : workers' = [workers EXCEPT ![c] = x]
    BY <1>3
  <2>3. x \in Work \cup {Idle} /\ (x # Idle => ControllerOf[x.b] = c /\ x.rv <= Len(versions'[x.b]))
    BY <1>1, <1>2, <2>1
  <2>. QED
    BY <2>1, <2>2, <2>3 DEF EndType
<1>5. CronType
  BY DEF Reconcile, Without, TypeOK, CronType
<1>6. budget' \in [Bounded -> Nat]
  BY BudgetType DEF Reconcile, Bounded
<1>. QED
  BY <1>1, <1>4, <1>5, <1>6, NoWriteType, StepType DEF Reconcile, apiVars

(* The updates of a schedule by its worker.                                *)
LEMMA UpdateType ==
    ASSUME TypeOK, NEW c \in Controllers, AddFinalizer(c) \/ UpdateStatus(c)
    PROVE  TypeOK'
<1>. DEFINE w == workers[c]
            x == [w EXCEPT !.pc = "schedule", !.rv = NewRv(w.b)]
<1>1. w # Idle
  BY DEF AddFinalizer, UpdateStatus, At, Idle
<1>2. /\ w \in Work /\ w.b \in Objects /\ ControllerOf[w.b] = c /\ w.obj \in Version
      /\ w.rv \in 1 .. Len(versions[w.b])
  BY <1>1, BusyWorker
<1>3. WritesType
  <2>. UNCHANGED versions \/ Store(w.b, w.obj)
    BY DEF AddFinalizer, UpdateStatus, Saved, NotSaved, Put
  <2>. QED
    BY <1>2, NoWriteType, StoreType
<1>4. budget' \in [Bounded -> Nat]
  <2>. "faults" \in Bounded /\ (Spend("faults") \/ UNCHANGED budget)
    BY DEF AddFinalizer, UpdateStatus, Saved, NotSaved, Bounded
  <2>. QED
    BY BudgetType
<1>5. /\ Len(versions'[w.b]) \in Nat \ {0} /\ w.rv <= Len(versions'[w.b])
  <2>. /\ Len(versions[w.b]) \in Nat \ {0} /\ Len(versions'[w.b]) \in Nat
       /\ Len(versions[w.b]) <= Len(versions'[w.b])
    BY <1>2, <1>3, VersionsExist DEF WritesType
  <2>. QED
    BY <1>2
<1>6. x \in Work /\ x.b = w.b /\ x.rv = Len(versions'[x.b])
  <2>. HIDE DEF w
  <2>. QED
    BY <1>2, <1>5 DEF Work, Pcs, NewRv
<1>7. Goto(c, x) \/ Done(c) \/ Retry(c)
  BY DEF AddFinalizer, UpdateStatus
<1>. HIDE DEF w, x
<1>8. EndType(c)
  <2>1. CASE Goto(c, x)
    BY <1>1, <1>2, <1>5, <1>6, <2>1, WorkerEnds DEF w
  <2>2. CASE Done(c) \/ Retry(c)
    BY <1>1, <1>2, <1>5, <2>2, WorkerEnds DEF w
  <2>. QED
    BY <1>7, <2>1, <2>2
<1>. QED
  BY <1>3, <1>4, <1>8, StepType, SameCronType DEF AddFinalizer, UpdateStatus

(* The calls to the cron.                                                  *)
LEMMA ScheduleType ==
    ASSUME TypeOK, NEW c \in Controllers, ScheduleCreate(c) \/ ScheduleRetain(c)
    PROVE  TypeOK'
<1>. DEFINE w == workers[c]
<1>1. w # Idle
  <2>. w.pc \in {"schedule", "retain"}
    BY DEF ScheduleCreate, ScheduleRetain, At
  <2>. QED
    BY DEF Idle
<1>2. /\ w \in Work /\ w.b \in Objects /\ ControllerOf[w.b] = c
      /\ w.rv \in 1 .. Len(versions[w.b]) /\ w.obj \in Version
  BY <1>1, BusyWorker
<1>3. UNCHANGED <<versions, seen, processVars, budget>>
  BY DEF ScheduleCreate, ScheduleRetain, apiVars
<1>4. CronType
  <2>1. CASE UNCHANGED nextId /\ cron' = Without(w.obj.createId)
    BY <2>1 DEF Without, CronType, TypeOK
  <2>2. CASE \E task \in {"create", "retain"}, id \in Nat : ScheduleTask(task, w, id)
    BY <1>2, <2>2, ScheduleTaskType
  <2>. w.obj.createId \in Nat /\ w.obj.retainId \in Nat
    BY <1>2 DEF Version
  <2>. QED
    BY <2>1, <2>2 DEF ScheduleCreate, ScheduleRetain
<1>5. PICK x \in Work : /\ x.b = w.b /\ x.rv = w.rv
                        /\ Goto(c, x) \/ Retry(c)
  <2>. DEFINE v == [w.obj EXCEPT !.createId = nextId, !.active = w.obj.gen, !.updated = Now]
              y(pc) == [w EXCEPT !.pc = pc, !.obj = v]
              z == [w EXCEPT !.pc = "status", !.obj.retainId = nextId]
  <2>1. v \in Version /\ [w.obj EXCEPT !.retainId = nextId] \in Version
    BY <1>2, NowType DEF Version, TypeOK
  <2>2. Goto(c, y("retain")) \/ Goto(c, y("status")) \/ Goto(c, z) \/ Retry(c)
    <3>1. CASE ScheduleRetain(c)
      BY <3>1 DEF ScheduleRetain
    <3>2. CASE ScheduleCreate(c)
      <4>. w.obj.spec.retention \in {"none", "good", "bad"}
        BY <1>2 DEF Version, AllSpecs
      <4>. QED
        BY <3>2 DEF ScheduleCreate
    <3>. QED
      BY <3>1, <3>2
  <2>3. \A pc \in {"retain", "status"} :
           y(pc) \in Work /\ y(pc).b = w.b /\ y(pc).rv = w.rv
    <3>. HIDE DEF v, w
    <3>. QED
      BY <1>2, <2>1 DEF Work, Pcs
  <2>4. z \in Work /\ z.b = w.b /\ z.rv = w.rv
    <3>. HIDE DEF w
    <3>. QED
      BY <1>2, <2>1 DEF Work, Pcs
  <2>. HIDE DEF y, z, w
  <2>. QED
    BY <1>2, <2>2, <2>3, <2>4
<1>6. x.rv <= Len(versions'[x.b]) /\ ControllerOf[x.b] = c
  <2>. Len(versions[w.b]) \in Nat
    BY <1>2, VersionsExist
  <2>. QED
    BY <1>2, <1>3, <1>5
<1>7. EndType(c)
  BY <1>1, <1>5, <1>6, WorkerEnds
<1>. QED
  BY <1>3, <1>4, <1>7, NoWriteType, StepType DEF TypeOK

LEMMA FinalizerType ==
    ASSUME TypeOK, NEW c \in Controllers, RemoveFinalizer(c)
    PROVE  TypeOK'
<1>. DEFINE w == workers[c]
<1>1. w # Idle
  BY DEF RemoveFinalizer, At, Idle
<1>2. /\ w \in Work /\ w.b \in Objects /\ ControllerOf[w.b] = c
      /\ w.rv \in 1 .. Len(versions[w.b])
  BY <1>1, BusyWorker
<1>3. WritesType
  <2>. UNCHANGED versions \/ Store(w.b, Absent)
    BY DEF RemoveFinalizer
  <2>. QED
    BY <1>2, NoWriteType, StoreType, AbsentType
<1>4. budget' \in [Bounded -> Nat]
  <2>. "faults" \in Bounded /\ (Spend("faults") \/ UNCHANGED budget)
    BY DEF RemoveFinalizer, Bounded
  <2>. QED
    BY BudgetType
<1>5. w.rv <= Len(versions'[w.b])
  <2>. /\ Len(versions[w.b]) \in Nat /\ Len(versions'[w.b]) \in Nat
       /\ Len(versions[w.b]) <= Len(versions'[w.b])
    BY <1>2, <1>3, VersionsExist DEF WritesType
  <2>. QED
    BY <1>2
<1>6. Done(c) \/ Retry(c)
  BY DEF RemoveFinalizer
<1>7. EndType(c)
  BY <1>1, <1>2, <1>5, <1>6, WorkerEnds
<1>. QED
  BY <1>3, <1>4, <1>7, StepType, SameCronType DEF RemoveFinalizer

LEMMA NextType == TypeOK /\ [Next]_vars => TypeOK'
<1>. SUFFICES ASSUME TypeOK, [Next]_vars PROVE TypeOK'
  OBVIOUS
<1>1. CASE UNCHANGED vars
  BY <1>1 DEF vars, apiVars, cronVars, processVars, TypeOK
<1>2. ASSUME NEW b \in Objects,
             \/ CreateObject(b) \/ EditObject(b) \/ DeleteObject(b)
             \/ Deliver(b) \/ Enqueue(b) \/ Reconcile(b)
      PROVE  TypeOK'
  BY <1>2, EnvironmentType, ReconcileType
<1>3. CASE SecondPasses \/ Restart \/ StandBy \/ TakeOver
  BY <1>3, ProcessType
<1>4. ASSUME NEW c \in Controllers, WorkerStep(c)
      PROVE  TypeOK'
  BY <1>4, UpdateType, ScheduleType, FinalizerType DEF WorkerStep
<1>. QED
  BY <1>1, <1>2, <1>3, <1>4 DEF Next

(* Every variable keeps its type; in particular the ids of the entries in  *)
(* the cron are those it has given, a worker works on a schedule of its    *)
(* own controller, and at most one process waits behind the one that leads.*)
THEOREM TypeCorrect == Spec => []TypeOK
BY InitType, NextType, PTL DEF Spec
=============================================================================
