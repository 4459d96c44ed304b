----------------------- MODULE ScheduledBackupsProofs -----------------------
(* Schedules composed with the tasks the cron runs for them: what holds of *)
(* schedules alone holds of the composition, whose tasks may end a process *)
(* at any of their calls, and backups are those a schedule gave a name.    *)
(* Proved for every set of schedules and controllers and every bound, with *)
(* and without --leader-elect.                                             *)
EXTENDS ScheduledBackups, BackupScheduleRefinement

-----------------------------------------------------------------------------
(* A step as schedules see it: one of theirs, or the end of a process.     *)

Panics == Panic /\ (Spend("faults") \/ UNCHANGED budget)

LEMMA CallPanics ==
    ASSUME NEW b, NEW n, NEW results, CallFails(b, n, results)
    PROVE  Panics
BY DEF CallFails, Panics

LEMMA JobSteps ==
    ASSUME NEW j \in jobs, JobStep(j)
    PROVE  UNCHANGED vars \/ Panics
<1>1. CASE CreateBackup(j)
  BY <1>1, CallPanics DEF CreateBackup, Panics
<1>2. ASSUME NEW n \in j.todo, RemoveOutdated(j, n)
      PROVE  UNCHANGED vars \/ Panics
  BY <1>2, CallPanics DEF RemoveOutdated, Panics
<1>. QED
  BY <1>1, <1>2 DEF JobStep

LEMMA TaskSteps ==
    ASSUME [TasksNext]_taskVars
    PROVE  [Next]_vars \/ Panics
<1>1. CASE Registration(Next)
  BY <1>1 DEF Registration
<1>2. ASSUME NEW b \in Objects, FireCreate(b) \/ FireRetain(b)
      PROVE  UNCHANGED vars
  BY <1>2 DEF FireCreate, FireRetain
<1>3. ASSUME NEW b \in Objects, NEW n \in Names, BackupStep(b, n) \/ DeliverBackup(b, n)
      PROVE  UNCHANGED vars
  BY <1>3 DEF BackupStep, Finalize, DeleteBackup, GrowOld, DeliverBackup
<1>4. ASSUME NEW j \in jobs, JobStep(j)
      PROVE  UNCHANGED vars \/ Panics
  BY <1>4, JobSteps
<1>5. CASE UNCHANGED taskVars
  BY <1>5 DEF taskVars
<1>. QED
  BY <1>1, <1>2, <1>3, <1>4, <1>5 DEF TasksNext

(* The process that leads after a panic is a later one.                    *)
LEMMA PanicLeads ==
    ASSUME TypeOK, Panics
    PROVE  /\ Leads /\ TypeOK'
           /\ process' \in Nat /\ process < process'
           /\ latest = process => latest' = latest + 1
<1>1. /\ process \in Nat \ {0} /\ latest \in {process, process + 1} /\ latest \in Nat \ {0}
      /\ latest + 1 \in Nat \ {0}
  BY NowType DEF TypeOK
<1>2. /\ Leads
      /\ latest' = IF latest = process THEN latest + 1 ELSE latest
      /\ starting' = (latest = process)
  BY DEF Panics, Panic
<1>3. budget' \in [Bounded -> Nat]
  BY BudgetType DEF Panics, Bounded
<1>4. latest' \in Nat \ {0} /\ process < latest'
  BY <1>1, <1>2
<1>5. starting' \in BOOLEAN
  BY <1>2
<1>6. TypeOK'
  BY <1>2, <1>3, <1>4, <1>5, LeadsType
<1>. QED
  BY <1>1, <1>2, <1>4, <1>6 DEF Leads

LEMMA PanicInv ==
    ASSUME IInv, Panics
    PROVE  IInv'
<1>1. TypeOK' /\ Leads /\ process' # 1
  BY PanicLeads DEF IInv, TypeOK
<1>. QED
  BY <1>1, LeadsInv DEF IInv

LEMMA TasksInv == TasksSpec => []IInv
<1>1. TasksInit => IInv
  BY InitInv DEF TasksInit
<1>2. IInv /\ [TasksNext]_taskVars => IInv'
  BY TaskSteps, NextInv, PanicInv
<1>. QED
  BY <1>1, <1>2, PTL DEF TasksSpec

-----------------------------------------------------------------------------
(* What schedules promise alone they promise with their tasks.             *)

LEMMA TasksCurrent ==
    ASSUME IInv, [TasksNext]_taskVars, Current, ~LeaderElect
    PROVE  Current'
<1>1. CASE Panics
  BY <1>1, PanicLeads, LeadsCurrent DEF IInv, Current
<1>. QED
  BY <1>1, TaskSteps, NextCurrent

(* Whatever the tasks of schedules do, and whenever a panic of theirs ends *)
(* the process: in the first one a settled schedule has its tasks in the   *)
(* cron, and they leave it in a Reconcile of their own; in any of them     *)
(* what is registered in it names no task of another schedule, unless one  *)
(* process waits for another to end; the task that a schedule names when   *)
(* it goes is removed; and what runs was asked for.                        *)
THEOREM SchedulesKept ==
    TasksSpec => /\ []SettledIsScheduled /\ []RegisteredNamesOwn
                 /\ []GoneTaskRemoved /\ []TasksWereAsked
                 /\ OnlyOwnTasksRemoved
<1>1. TasksInit => TasksWereAsked /\ (~LeaderElect => Current)
  BY InitCurrent DEF TasksInit, Init, TasksWereAsked
<1>2. IInv /\ [TasksNext]_taskVars /\ TasksWereAsked => TasksWereAsked'
  <2>1. Panics => cron' = {}
    BY DEF Panics, Panic, Leads
  <2>. QED
    BY <2>1, TaskSteps, AskedStep DEF TasksWereAsked
<1>3. IInv /\ [TasksNext]_taskVars => [RemovesOwn]_vars
  <2>1. IInv /\ Panics => RemovesOwn
    <3>. SUFFICES ASSUME IInv, Panics PROVE process' # 1
      BY DEF RemovesOwn
    <3>. QED
      BY PanicLeads DEF IInv, TypeOK
  <2>. QED
    BY <2>1, TaskSteps, StepRemovesOwn
<1>4. IInv /\ [TasksNext]_taskVars /\ (~LeaderElect => Current) => (~LeaderElect => Current)'
  BY TasksCurrent
<1>5. IInv /\ (~LeaderElect => Current) => RegisteredNamesOwn
  BY CurrentNames DEF RegisteredNamesOwn
<1>. QED
  BY <1>1, <1>2, <1>3, <1>4, <1>5, TasksInv, InvScheduled, InvRemoved, PTL
     DEF TasksSpec, OnlyOwnTasksRemoved

(* The object of a schedule keeps its promise when tasks run and panic.    *)
THEOREM LifecycleComposed == TasksSpec => ImplementsLifecycle
<1>1. TasksInit => Lifecycle!Init
  BY InitMaps DEF TasksInit
<1>2. IInv /\ [TasksNext]_taskVars => [Lifecycle!Next]_(Lifecycle!vars)
  <2>1. IInv /\ Panics => [Lifecycle!Next]_(Lifecycle!vars)
    <3>. SUFFICES ASSUME IInv, Panics
                  PROVE  UNCHANGED versions /\ process' \in Nat /\ process <= process'
      BY ProcessMaps
    <3>. QED
      BY PanicLeads DEF IInv, TypeOK, Leads
  <2>. QED
    BY <2>1, TaskSteps, StepMaps
<1>. QED
  BY <1>1, <1>2, TasksInv, PTL DEF TasksSpec, ImplementsLifecycle, Lifecycle!Spec
-----------------------------------------------------------------------------
(* Types: the parts of the type invariant that are not of schedules alone. *)

BackupsTypeOK ==
    /\ named \in [Objects -> 0 .. MaxBackups]
    /\ backups \in [Objects -> [Names -> Backup]]
    /\ \A b \in Objects, n \in Names : n > named[b] => backups[b][n] = NoBackup

ListedTypeOK ==
    /\ listed \in [Objects -> SUBSET Names]
    /\ \A b \in Objects, n \in Names : n > named[b] => n \notin listed[b]

JobTypeOK(j) ==
    /\ j \in Job /\ j.todo # {} /\ j.id < nextId
    /\ \A n \in j.todo : n <= named[j.b]

JobsTypeOK == \A j \in jobs : JobTypeOK(j)

LEMMA TypeParts ==
    TasksTypeOK <=> TypeOK /\ BackupsTypeOK /\ ListedTypeOK /\ JobsTypeOK
BY DEF TasksTypeOK, BackupsTypeOK, ListedTypeOK, JobsTypeOK, JobTypeOK

(* A backup with a name that was given changes.                            *)
LEMMA BecomesType ==
    ASSUME BackupsTypeOK, NEW b \in Objects, NEW n \in Names, n <= named[b],
           NEW v \in Backup, Becomes(b, n, v), UNCHANGED named
    PROVE  BackupsTypeOK'
<1>1. /\ backups \in [Objects -> [Names -> Backup]]
      /\ backups' = [backups EXCEPT ![b] = [backups[b] EXCEPT ![n] = v]]
  BY DEF BackupsTypeOK, Becomes
<1>2. [backups[b] EXCEPT ![n] = v] \in [Names -> Backup]
  BY <1>1
<1>3. backups' \in [Objects -> [Names -> Backup]]
  BY <1>1, <1>2
<1>4. \A c \in Objects, m \in Names :
         backups'[c][m] = backups[c][m] \/ (c = b /\ m = n)
  BY <1>1, <1>2
<1>5. n \in Nat /\ named[b] \in Nat
  BY DEF Names, BackupsTypeOK
<1>. QED
  BY <1>3, <1>4, <1>5 DEF BackupsTypeOK

(* A backup that there is has a name that was given.                       *)
LEMMA PresentNamed ==
    ASSUME BackupsTypeOK, NEW b \in Objects, NEW n \in Names, Present(b, n)
    PROVE  n <= named[b]
<1>1. n \in Nat /\ named[b] \in Nat
  BY DEF Names, BackupsTypeOK
<1>. QED
  BY <1>1 DEF BackupsTypeOK, Present, NoBackup

LEMMA BackupTypes ==
    ASSUME NEW v \in Backup
    PROVE  /\ NewBackup \in Backup /\ NoBackup \in Backup
           /\ Removed(v) \subseteq Backup
           /\ [v EXCEPT !.life = "absent"] \in Backup
           /\ [v EXCEPT !.old = TRUE] \in Backup
BY DEF Backup, NewBackup, NoBackup, Removed

(* Runs that go on while entries and names are added.                      *)
LEMMA JobsKept ==
    ASSUME TypeOK, TypeOK', JobsTypeOK, jobs' \subseteq jobs, nextId <= nextId', UNCHANGED named
    PROVE  JobsTypeOK'
<1>. SUFFICES ASSUME NEW j \in jobs PROVE JobTypeOK(j)'
  BY DEF JobsTypeOK
<1>1. JobTypeOK(j) /\ nextId \in Nat /\ nextId' \in Nat
  BY DEF JobsTypeOK, TypeOK
<1>2. j.id \in Nat
  BY <1>1 DEF JobTypeOK, Job
<1>. QED
  BY <1>1, <1>2 DEF JobTypeOK

(* A process that begins to lead.                                          *)
LEMMA LeadsTasksType ==
    ASSUME BackupsTypeOK', LeadsTasks
    PROVE  ListedTypeOK' /\ JobsTypeOK'
<1>1. ListedTypeOK'
  BY DEF LeadsTasks, ListsBackups, BackupsTypeOK, ListedTypeOK, NoBackup
<1>2. JobsTypeOK'
  BY DEF LeadsTasks, JobsTypeOK
<1>. QED
  BY <1>1, <1>2

(* While a process leads, ids only grow.                                   *)
LEMMA IdsGrow ==
    ASSUME TypeOK, [Next]_vars, process' = process
    PROVE  nextId <= nextId'
<1>1. nextId \in Nat /\ process \in Nat /\ latest \in {process, process + 1}
  BY DEF TypeOK
<1>2. ASSUME NEW b \in Objects,
             \/ CreateObject(b) \/ EditObject(b) \/ DeleteObject(b)
             \/ Deliver(b) \/ Enqueue(b) \/ Reconcile(b)
      PROVE  UNCHANGED nextId
  BY <1>2 DEF CreateObject, EditObject, DeleteObject, Deliver, Enqueue, Reconcile, cronVars
<1>3. CASE SecondPasses \/ StandBy \/ UNCHANGED vars
  BY <1>1, <1>3 DEF SecondPasses, StandBy, cronVars, vars
<1>4. CASE Restart \/ TakeOver
  BY <1>1, <1>4 DEF Restart, TakeOver, Leads
<1>5. ASSUME NEW c \in Controllers, ScheduleCreate(c) \/ ScheduleRetain(c)
      PROVE  nextId' \in {nextId, nextId + 1}
  BY <1>5 DEF ScheduleCreate, ScheduleRetain, ScheduleTask
<1>6. ASSUME NEW c \in Controllers, AddFinalizer(c) \/ UpdateStatus(c) \/ RemoveFinalizer(c)
      PROVE  UNCHANGED nextId
  BY <1>6 DEF AddFinalizer, UpdateStatus, RemoveFinalizer, cronVars
<1>. QED
  BY <1>1, <1>2, <1>3, <1>4, <1>5, <1>6 DEF Next, WorkerStep

LEMMA RegistrationType ==
    ASSUME TasksTypeOK, Registration(Next)
    PROVE  TasksTypeOK'
<1>1. TypeOK /\ BackupsTypeOK /\ ListedTypeOK /\ JobsTypeOK /\ TypeOK'
  BY TypeParts, NextType DEF Registration
<1>2. UNCHANGED <<named, backups>> /\ BackupsTypeOK'
  BY <1>1 DEF Registration, BackupsTypeOK
<1>3. CASE process' = process
  <2>. UNCHANGED <<listed, jobs>> /\ nextId <= nextId'
    BY <1>1, <1>3, IdsGrow DEF Registration
  <2>. ListedTypeOK' /\ JobsTypeOK'
    BY <1>1, <1>2, JobsKept DEF ListedTypeOK
  <2>. QED
    BY <1>1, <1>2, TypeParts, PTL
<1>4. CASE process' # process
  <2>. LeadsTasks
    BY <1>4 DEF Registration
  <2>. QED
    BY <1>1, <1>2, LeadsTasksType, TypeParts, PTL
<1>. QED
  BY <1>3, <1>4

(* Runs that a task is started with are of names that were given.          *)
LEMMA RunType ==
    ASSUME TypeOK, NEW b \in Objects, NEW task \in {"create", "retain"},
           NEW e \in Entries(b, task), NEW todo \in SUBSET Names, todo # {},
           \A n \in todo : n <= named'[b], UNCHANGED nextId
    PROVE  JobTypeOK(Run(e, todo))'
<1>1. e \in cron /\ e.b = b /\ e.task = task /\ e.id \in Nat \ {0} /\ e.id < nextId
  BY DEF Entries, TasksOf, TypeOK, Entry
<1>. QED
  BY <1>1 DEF JobTypeOK, Job, Run

LEMMA FireType ==
    ASSUME TasksTypeOK, NEW b \in Objects, FireCreate(b) \/ FireRetain(b)
    PROVE  TasksTypeOK'
<1>1. TypeOK /\ BackupsTypeOK /\ ListedTypeOK /\ JobsTypeOK
  BY TypeParts
<1>2. UNCHANGED <<vars, backups, listed>>
  BY DEF FireCreate, FireRetain
<1>3. TypeOK' /\ UNCHANGED nextId
  BY <1>1, <1>2, NextType DEF vars, cronVars
<1>4. /\ named \in [Objects -> 0 .. MaxBackups] /\ MaxBackups \in Nat
      /\ Names = 1 .. MaxBackups /\ listed[b] \in SUBSET Names
  BY <1>1, MaxBackupsAssumption DEF BackupsTypeOK, ListedTypeOK, Names
<1>5. CASE FireCreate(b)
  <2>1. /\ named[b] < MaxBackups /\ named' = [named EXCEPT ![b] = @ + 1]
        /\ \A j \in jobs' : j \in jobs \/ \E e \in Entries(b, "create") : j = Run(e, {named[b] + 1})
    BY <1>5 DEF FireCreate
  <2>2. /\ named' \in [Objects -> 0 .. MaxBackups] /\ named'[b] = named[b] + 1
        /\ \A c \in Objects : named[c] <= named'[c]
    BY <1>4, <2>1
  <2>3. \A c \in Objects : named[c] \in Nat /\ named'[c] \in Nat
    BY <1>4, <2>2
  <2>4. \A n \in Names : n \in Nat
    BY <1>4
  <2>5. BackupsTypeOK'
    <3>. SUFFICES ASSUME NEW c \in Objects, NEW n \in Names, n > named'[c]
                  PROVE  n > named[c]
      BY <1>1, <1>2, <2>2 DEF BackupsTypeOK
    <3>. QED
      BY <2>2, <2>3, <2>4
  <2>6. ListedTypeOK'
    <3>. SUFFICES ASSUME NEW c \in Objects, NEW n \in Names, n > named'[c]
                  PROVE  n > named[c]
      BY <1>1, <1>2 DEF ListedTypeOK
    <3>. QED
      BY <2>2, <2>3, <2>4
  <2>7. ASSUME NEW j \in jobs PROVE JobTypeOK(j)'
    <3>1. JobTypeOK(j) /\ j.b \in Objects /\ j.todo \subseteq Names
      BY <1>1 DEF JobsTypeOK, JobTypeOK, Job
    <3>2. \A n \in j.todo : n <= named'[j.b]
      <4>. SUFFICES ASSUME NEW n \in j.todo PROVE n <= named'[j.b]
        OBVIOUS
      <4>1. n <= named[j.b] /\ n \in Nat
        BY <2>4, <3>1 DEF JobTypeOK
      <4>. QED
        BY <2>2, <2>3, <3>1, <4>1
    <3>. QED
      BY <1>3, <3>1, <3>2 DEF JobTypeOK
  <2>8. ASSUME NEW e \in Entries(b, "create"), NEW todo, todo = {named[b] + 1}
        PROVE  JobTypeOK(Run(e, todo))'
    <3>1. todo \in SUBSET Names /\ todo # {} /\ \A n \in todo : n <= named'[b]
      BY <1>4, <2>1, <2>2, <2>3, <2>8
    <3>. QED
      BY <1>1, <1>3, <3>1, RunType
  <2>9. JobsTypeOK'
    BY <2>1, <2>7, <2>8 DEF JobsTypeOK
  <2>. QED
    BY <1>3, <2>5, <2>6, <2>9, TypeParts, PTL
<1>6. CASE FireRetain(b)
  <2>1. /\ UNCHANGED named /\ listed[b] # {}
        /\ jobs' = jobs \cup {Run(e, listed[b]) : e \in Entries(b, "retain")}
    BY <1>6 DEF FireRetain
  <2>2. BackupsTypeOK' /\ ListedTypeOK'
    BY <1>1, <1>2, <2>1 DEF BackupsTypeOK, ListedTypeOK
  <2>3. \A n \in listed[b] : n <= named'[b]
    <3>. SUFFICES ASSUME NEW n \in listed[b] PROVE n <= named[b]
      BY <2>1
    <3>1. n \in Names /\ ~(n > named[b])
      BY <1>1, <1>4 DEF ListedTypeOK
    <3>. QED
      BY <1>4, <3>1
  <2>4. JobsTypeOK'
    <3>1. ASSUME NEW j \in jobs PROVE JobTypeOK(j)'
      BY <1>1, <1>3, <2>1 DEF JobsTypeOK, JobTypeOK
    <3>2. ASSUME NEW e \in Entries(b, "retain"), NEW todo, todo = listed[b]
          PROVE  JobTypeOK(Run(e, todo))'
      <4>1. todo \in SUBSET Names /\ todo # {} /\ \A n \in todo : n <= named'[b]
        BY <1>4, <2>1, <2>3, <3>2
      <4>. QED
        BY <1>1, <1>3, <4>1, RunType
    <3>. QED
      BY <2>1, <3>1, <3>2 DEF JobsTypeOK
  <2>. QED
    BY <1>3, <2>2, <2>4, TypeParts, PTL
<1>. QED
  BY <1>5, <1>6

LEMMA BackupStepType ==
    ASSUME TasksTypeOK, NEW b \in Objects, NEW n \in Names,
           BackupStep(b, n) \/ DeliverBackup(b, n)
    PROVE  TasksTypeOK'
<1>1. TypeOK /\ BackupsTypeOK /\ ListedTypeOK /\ JobsTypeOK
  BY TypeParts
<1>2. UNCHANGED <<vars, named, jobs>> /\ backups[b][n] \in Backup
  BY <1>1 DEF BackupStep, Finalize, DeleteBackup, GrowOld, DeliverBackup, BackupsTypeOK
<1>3. TypeOK' /\ JobsTypeOK'
  <2>1. TypeOK' /\ UNCHANGED nextId
    BY <1>1, <1>2, NextType DEF vars, cronVars
  <2>. QED
    BY <1>1, <1>2, <2>1 DEF JobsTypeOK, JobTypeOK
<1>4. CASE BackupStep(b, n)
  <2>1. Present(b, n) /\ \E v \in Backup : Becomes(b, n, v)
    BY <1>2, <1>4, BackupTypes DEF BackupStep, Finalize, DeleteBackup, GrowOld, Present
  <2>2. BackupsTypeOK'
    BY <1>1, <1>2, <2>1, PresentNamed, BecomesType
  <2>3. ListedTypeOK'
    BY <1>1, <1>2, <1>4 DEF BackupStep, Finalize, DeleteBackup, GrowOld, ListedTypeOK
  <2>. QED
    BY <1>3, <2>2, <2>3, TypeParts, PTL
<1>5. CASE DeliverBackup(b, n)
  <2>1. /\ UNCHANGED <<named, backups>>
        /\ listed' = [listed EXCEPT ![b] = IF Present(b, n) THEN @ \cup {n} ELSE @ \ {n}]
    BY <1>5 DEF DeliverBackup
  <2>2. BackupsTypeOK'
    BY <1>1, <2>1 DEF BackupsTypeOK
  <2>3. ListedTypeOK'
    <3>1. listed' \in [Objects -> SUBSET Names]
      BY <1>1, <2>1 DEF ListedTypeOK
    <3>2. \A c \in Objects, m \in Names :
             m \in listed'[c] => m \in listed[c] \/ (c = b /\ m = n /\ Present(b, n))
      BY <1>1, <2>1 DEF ListedTypeOK
    <3>3. Present(b, n) => ~(n > named[b])
      <4>. n \in Nat /\ named[b] \in Nat
        BY <1>1 DEF Names, BackupsTypeOK
      <4>. QED
        BY <1>1, PresentNamed
    <3>. QED
      BY <1>1, <2>1, <3>1, <3>2, <3>3 DEF ListedTypeOK
  <2>. QED
    BY <1>3, <2>2, <2>3, TypeParts, PTL
<1>. QED
  BY <1>4, <1>5

(* A call of a run changes the backup it is for, or not, and the run goes  *)
(* on, or ends, or ends the process.                                       *)
LEMMA CallType ==
    ASSUME TasksTypeOK, NEW b \in Objects, NEW n \in Names, n <= named[b], UNCHANGED named,
           UNCHANGED backups \/ \E v \in Backup : Becomes(b, n, v),
           \/ UNCHANGED <<vars, listed>> /\ \A j \in jobs' : JobTypeOK(j)
           \/ Panics
    PROVE  TasksTypeOK'
<1>1. TypeOK /\ BackupsTypeOK /\ ListedTypeOK /\ JobsTypeOK
  BY TypeParts
<1>2. BackupsTypeOK'
  <2>1. CASE UNCHANGED backups
    BY <1>1, <2>1 DEF BackupsTypeOK
  <2>. QED
    BY <1>1, <2>1, BecomesType
<1>3. CASE UNCHANGED <<vars, listed>> /\ \A j \in jobs' : JobTypeOK(j)
  <2>1. TypeOK' /\ UNCHANGED nextId
    BY <1>1, <1>3, NextType DEF vars, cronVars
  <2>2. ListedTypeOK' /\ JobsTypeOK'
    BY <1>1, <1>3, <2>1 DEF ListedTypeOK, JobsTypeOK, JobTypeOK
  <2>. QED
    BY <1>2, <2>1, <2>2, TypeParts, PTL
<1>4. CASE Panics
  <2>1. TypeOK' /\ LeadsTasks
    BY <1>1, <1>4, PanicLeads DEF Panics, Panic
  <2>. QED
    BY <1>2, <2>1, LeadsTasksType, TypeParts, PTL
<1>. QED
  BY <1>3, <1>4

LEMMA CallFailsType ==
    ASSUME TasksTypeOK, NEW b \in Objects, NEW n \in Names, NEW results \in SUBSET Backup,
           CallFails(b, n, results)
    PROVE  \E v \in Backup : Becomes(b, n, v)
<1>1. backups[b][n] \in Backup
  BY DEF TasksTypeOK
<1>. QED
  BY <1>1 DEF CallFails

LEMMA JobType ==
    ASSUME TasksTypeOK, NEW j \in jobs, JobStep(j)
    PROVE  TasksTypeOK'
<1>1. TypeOK /\ BackupsTypeOK /\ ListedTypeOK /\ JobsTypeOK
  BY TypeParts
<1>2. /\ JobTypeOK(j) /\ j \in Job /\ j.b \in Objects /\ j.todo \subseteq Names
      /\ \A n \in j.todo : n <= named[j.b] /\ backups[j.b][n] \in Backup
  BY <1>1 DEF JobsTypeOK, JobTypeOK, Job, BackupsTypeOK
<1>3. CASE CreateBackup(j)
  <2>1. PICK n \in j.todo :
          \/ Becomes(j.b, n, NewBackup) /\ jobs' = jobs \ {j} /\ UNCHANGED <<vars, listed>>
          \/ CallFails(j.b, n, {NewBackup})
          \/ UNCHANGED <<backups, budget>> /\ Panic
    BY <1>3 DEF CreateBackup
  <2>2. UNCHANGED backups \/ \E v \in Backup : Becomes(j.b, n, v)
    <3>. NewBackup \in Backup /\ {NewBackup} \in SUBSET Backup
      BY <1>2, BackupTypes
    <3>. QED
      BY <1>2, <2>1, CallFailsType
  <2>3. (UNCHANGED <<vars, listed>> /\ \A k \in jobs' : JobTypeOK(k)) \/ Panics
    BY <1>1, <2>1, CallPanics DEF JobsTypeOK, Panics
  <2>4. UNCHANGED named
    BY <1>3 DEF CreateBackup
  <2>. QED
    BY <1>2, <2>2, <2>3, <2>4, CallType
<1>4. ASSUME NEW n \in j.todo, RemoveOutdated(j, n)
      PROVE  TasksTypeOK'
  <2>. DEFINE v == backups[j.b][n]
  <2>1. /\ UNCHANGED named
        /\ \/ NextBackup(j, n) /\ UNCHANGED <<vars, backups, listed>>
           \/ /\ \E r \in Removed(v) : Becomes(j.b, n, r)
              /\ NextBackup(j, n) /\ UNCHANGED <<vars, listed>>
           \/ CallFails(j.b, n, Removed(v))
           \/ UNCHANGED <<backups, budget>> /\ Panic
    BY <1>4 DEF RemoveOutdated
  <2>2. v \in Backup /\ Removed(v) \in SUBSET Backup
    BY <1>2, BackupTypes
  <2>. HIDE DEF v
  <2>3. UNCHANGED backups \/ \E r \in Backup : Becomes(j.b, n, r)
    BY <1>2, <2>1, <2>2, CallFailsType
  <2>4. ASSUME NextBackup(j, n), NEW k \in jobs' PROVE JobTypeOK(k)
    <3>1. CASE k \in jobs
      BY <1>1, <3>1 DEF JobsTypeOK
    <3>2. CASE j.todo # {n} /\ k = [j EXCEPT !.todo = j.todo \ {n}]
      <4>1. /\ k \in Job /\ k.todo = j.todo \ {n} /\ k.b = j.b /\ k.id = j.id
        BY <1>2, <3>2 DEF Job
      <4>2. k.todo # {}
        BY <3>2, <4>1
      <4>. QED
        BY <1>2, <4>1, <4>2 DEF JobTypeOK
    <3>. QED
      BY <2>4, <3>1, <3>2 DEF NextBackup
  <2>5. (UNCHANGED <<vars, listed>> /\ \A k \in jobs' : JobTypeOK(k)) \/ Panics
    BY <2>1, <2>4, CallPanics DEF Panics
  <2>. QED
    BY <1>2, <2>1, <2>3, <2>5, CallType
<1>. QED
  BY <1>3, <1>4 DEF JobStep

LEMMA TasksNextType == TasksTypeOK /\ [TasksNext]_taskVars => TasksTypeOK'
<1>. SUFFICES ASSUME TasksTypeOK, [TasksNext]_taskVars PROVE TasksTypeOK'
  OBVIOUS
<1>1. CASE UNCHANGED taskVars
  <2>1. TypeOK'
    BY <1>1, NextType DEF taskVars, TasksTypeOK
  <2>. QED
    BY <1>1, <2>1 DEF taskVars, backupVars, vars, cronVars, TasksTypeOK
<1>2. ASSUME NEW b \in Objects, FireCreate(b) \/ FireRetain(b)
      PROVE  TasksTypeOK'
  BY <1>2, FireType
<1>3. ASSUME NEW b \in Objects, NEW n \in Names, BackupStep(b, n) \/ DeliverBackup(b, n)
      PROVE  TasksTypeOK'
  BY <1>3, BackupStepType
<1>. QED
  BY <1>1, <1>2, <1>3, RegistrationType, JobType DEF TasksNext

(* No backup has a name its schedule did not give, in whatever order runs, *)
(* users and the informer get at it, and no run goes on under another      *)
(* process than the one it was started in.                                 *)
THEOREM TasksTypeCorrect == TasksSpec => []TasksTypeOK
<1>1. TasksInit => TasksTypeOK
  <2>. SUFFICES ASSUME TasksInit PROVE TasksTypeOK
    OBVIOUS
  <2>1. TypeOK
    BY InitType DEF TasksInit
  <2>2. named \in [Objects -> 0 .. MaxBackups]
    BY MaxBackupsAssumption DEF TasksInit
  <2>3. backups \in [Objects -> [Names -> Backup]]
    <3>. NoBackup \in Backup
      BY DEF NoBackup, Backup
    <3>. QED
      BY DEF TasksInit
  <2>. QED
    BY <2>1, <2>2, <2>3 DEF TasksInit, TasksTypeOK
<1>. QED
  BY <1>1, TasksNextType, PTL DEF TasksSpec

-----------------------------------------------------------------------------
(* What runs is asked for.                                                 *)

LEMMA AskedKept ==
    ASSUME Grows, NEW b \in Objects, NEW task, WasAsked(b, task)
    PROVE  WasAsked(b, task)'
BY DEF Grows, WasAsked, AsksFor

LEMMA VersionsGrow ==
    ASSUME IInv, [TasksNext]_taskVars
    PROVE  Grows
<1>1. Panics => UNCHANGED versions
  BY DEF Panics, Panic, Leads
<1>. QED
  BY <1>1, TaskSteps, StepGrows, SameHistory

LEMMA EntryAsked ==
    ASSUME TasksWereAsked, NEW b \in Objects, NEW task, NEW e \in Entries(b, task)
    PROVE  WasAsked(b, task)
BY DEF TasksWereAsked, Entries, TasksOf, WasAsked

(* The names and the runs of a step are those there were, or of a task in  *)
(* the cron.                                                               *)
LEMMA StepRuns ==
    ASSUME TasksTypeOK, [TasksNext]_taskVars
    PROVE  /\ \A b \in Objects : named'[b] = named[b] \/ Entries(b, "create") # {}
           /\ \A j \in jobs' :
                 \/ \E k \in jobs : j.b = k.b /\ j.task = k.task
                 \/ j.b \in Objects /\ Entries(j.b, j.task) # {}
<1>. DEFINE NamedFor == \A b \in Objects : named'[b] = named[b] \/ Entries(b, "create") # {}
            RunFor   == \A j \in jobs' :
                           \/ \E k \in jobs : j.b = k.b /\ j.task = k.task
                           \/ j.b \in Objects /\ Entries(j.b, j.task) # {}
<1>1. jobs' \subseteq jobs => RunFor
  OBVIOUS
<1>2. CASE UNCHANGED taskVars
  BY <1>1, <1>2 DEF taskVars, backupVars
<1>3. CASE Registration(Next)
  BY <1>1, <1>3 DEF Registration, LeadsTasks
<1>4. ASSUME NEW b \in Objects, FireCreate(b)
      PROVE  NamedFor /\ RunFor
  <2>1. /\ named \in [Objects -> 0 .. MaxBackups] /\ named' = [named EXCEPT ![b] = @ + 1]
        /\ Entries(b, "create") # {}
        /\ \A j \in jobs' : j \in jobs \/ \E e \in Entries(b, "create") :
                                             j = Run(e, {named[b] + 1})
    BY <1>4 DEF FireCreate, TasksTypeOK
  <2>2. \A todo : \A e \in Entries(b, "create") :
           Run(e, todo).b = b /\ Run(e, todo).task = "create"
    BY DEF Run, Entries, TasksOf
  <2>. QED
    BY <2>1, <2>2
<1>5. ASSUME NEW b \in Objects, FireRetain(b)
      PROVE  NamedFor /\ RunFor
  <2>1. /\ UNCHANGED named
        /\ \A j \in jobs' : j \in jobs \/ \E e \in Entries(b, "retain") : j = Run(e, listed[b])
    BY <1>5 DEF FireRetain
  <2>2. \A todo : \A e \in Entries(b, "retain") :
           Run(e, todo).b = b /\ Run(e, todo).task = "retain"
    BY DEF Run, Entries, TasksOf
  <2>. QED
    BY <2>1, <2>2
<1>6. ASSUME NEW b \in Objects, NEW n \in Names, BackupStep(b, n) \/ DeliverBackup(b, n)
      PROVE  UNCHANGED <<named, jobs>>
  BY <1>6 DEF BackupStep, Finalize, DeleteBackup, GrowOld, DeliverBackup
<1>7. ASSUME NEW j \in jobs, CreateBackup(j)
      PROVE  UNCHANGED named /\ jobs' \subseteq jobs
  BY <1>7 DEF CreateBackup, CallFails, Panic, LeadsTasks
<1>8. ASSUME NEW j \in jobs, NEW n \in j.todo, RemoveOutdated(j, n)
      PROVE  NamedFor /\ RunFor
  <2>1. UNCHANGED named /\ (NextBackup(j, n) \/ jobs' = {})
    BY <1>8 DEF RemoveOutdated, CallFails, Panic, LeadsTasks
  <2>2. CASE NextBackup(j, n)
    <3>1. \A k \in jobs' : k \in jobs \/ k = [j EXCEPT !.todo = j.todo \ {n}]
      BY <2>2 DEF NextBackup
    <3>2. /\ [j EXCEPT !.todo = j.todo \ {n}].b = j.b
          /\ [j EXCEPT !.todo = j.todo \ {n}].task = j.task
      BY DEF TasksTypeOK, Job
    <3>. QED
      BY <2>1, <3>1, <3>2
  <2>. QED
    BY <2>1, <2>2
<1>. QED
  BY <1>1, <1>2, <1>3, <1>4, <1>5, <1>6, <1>7, <1>8 DEF TasksNext, JobStep

LEMMA RunsStep ==
    ASSUME IInv, TasksTypeOK, TasksWereAsked, RunsWereAsked, [TasksNext]_taskVars
    PROVE  RunsWereAsked'
<1>1. ASSUME NEW b \in Objects, named'[b] > 0 PROVE WasAsked(b, "create")'
  <2>. WasAsked(b, "create")
    BY <1>1, StepRuns, EntryAsked DEF RunsWereAsked
  <2>. QED
    BY VersionsGrow, AskedKept
<1>2. ASSUME NEW j \in jobs' PROVE WasAsked(j.b, j.task)'
  <2>1. WasAsked(j.b, j.task) /\ j.b \in Objects
    <3>1. CASE \E k \in jobs : j.b = k.b /\ j.task = k.task
      BY <3>1 DEF RunsWereAsked, TasksTypeOK, Job
    <3>2. CASE j.b \in Objects /\ Entries(j.b, j.task) # {}
      BY <3>2, EntryAsked
    <3>. QED
      BY <3>1, <3>2, StepRuns
  <2>. QED
    BY <2>1, VersionsGrow, AskedKept
<1>. QED
  BY <1>1, <1>2 DEF RunsWereAsked

(* Backups are made, and outdated ones deleted, only for a schedule that   *)
(* asked for it with the finalizer stored, whatever copies its tasks were  *)
(* registered from and whatever became of it since.                        *)
THEOREM RunsAsked == TasksSpec => []RunsWereAsked
<1>1. TasksInit => RunsWereAsked
  BY DEF TasksInit, RunsWereAsked
<1>2. IInv /\ TasksTypeOK /\ TasksWereAsked /\ RunsWereAsked /\ [TasksNext]_taskVars
        => RunsWereAsked'
  BY RunsStep
<1>. QED
  BY <1>1, <1>2, TasksInv, TasksTypeCorrect, SchedulesKept, PTL DEF TasksSpec
=============================================================================
