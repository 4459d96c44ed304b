# Verification of backups-operator

Models in TLA+ of the controllers of backups-operator, a Kubernetes operator
that makes backups of ClickHouse (through clickhouse-backup's HTTP API) and of
Dgraph (through its export mutation into S3), once or on a schedule. TLC checks
them on small instances; TLAPS proves theorems about them for every instance.

Paths such as `controllers/factory/common.go` are relative to `src/`.

## Inventory

| component | code | state | operations | calls |
|---|---|---|---|---|
| ClickHouseBackup controller | `controllers/clickhousebackup_controller.go`, `controllers/factory/clickhousebackup.go`, `internal/clickhouse/clickhouse.go` | status of the object (phase, api address, error), finalizer | Reconcile: create stage, upload stage, deletion | API server, resolver, clickhouse-backup |
| DgraphBackup controller | `controllers/dgraphbackup_controller.go`, `controllers/factory/dgraphbackup.go`, `internal/dgraph/dgraph.go` | status of the object (phase, export response), finalizer | Reconcile: export, deletion | API server, secrets, Dgraph, S3 |
| schedule controllers (two, the same code) | `controllers/*backupschedule_controller.go`, `api/v1alpha1/*schedule_types.go`, `ScheduleTask` | status of the schedule (task ids, active generation, time), finalizer, the shared cron | Reconcile: register, replace, remove tasks | API server, cron |
| scheduled tasks | closures in the schedule controllers | backup objects | create a backup object, delete outdated ones | API server, run by the cron |
| finalizers | `controllers/factory/finalize` | metadata.finalizers | AddFinalizer, RemoveFinalizeObjByName | API server, cache |
| metrics | `internal/metrics`, both backup controllers | the gauge per backup and status, the counter of failing tasks | Set, Delete, Inc | - |
| process | `main.go` | cron, StartedAt, queues, caches | start, restart, leader election | all |
| back-off settings, URLs, secrets | `api/v1alpha1/common.go`, `controllers/factory/common.go` | none | parse, resolve, read | resolver, API server |

How they interact: a user or a scheduled task creates a backup object; the
informer delivers every version of it to the cache and queues the object; one
worker per controller takes it from the queue, reads the cached copy, calls the
outside world and writes the status with optimistic concurrency; every write is
an event again. A schedule owns the backups its task creates. The two schedule
controllers share one cron.

What is hard:

- *staleness*: the cached copy a Reconcile starts from can be behind, and
  commands to the outside are sent before the write that would find this out;
- *conflicts and partial failures*: each status update may conflict with a user
  edit, get lost, or be carried out and its answer lost; several of them are
  made in one Reconcile, from one copy;
- *restarts*: at any step; the queue, the metrics and the cron are lost, the
  status of the objects is not;
- *the outside*: clickhouse-backup runs commands in the background, refuses,
  fails or never starts them, and mixes the rows of all backups;
- *time*: a deadline that passes while a command runs; stored times of whole
  seconds;
- *progress*: a worker shared by all objects, retries, finalizers that must go.

What makes each component correct: the phase of a backup follows its stages and
says something true of the outside; data is deleted only for the objects it is
meant for; every backup and every deletion ends; a schedule that is settled has
its tasks in the cron, of its present spec and no other; a task is removed only
for its own schedule; outdated backups go and new ones are made, whatever stops
the operator in between. `PROJECT.json` lists the hazards with the line where each
bites and the properties that watch it.

## Modules

- **ApiObjects**: what all controllers share. The API server keeps an object as
  a sequence of versions (the index is the resourceVersion), `seen` says which
  of them the cache has; an update is accepted only from the last version, and
  makes no new version when it changes nothing. External code, modelled from
  how the controllers use it.
- **BackupLifecycle**: the abstract specification of a backup object as its
  reader sees it: phases move along given edges, not after deletion was asked
  for, and an object whose processing began leaves through its finalizer.
- **ScheduleLifecycle**: the same for a schedule: users make its generations,
  the operator records as active the one that is stored at that moment, a
  settled schedule stays so until users or a new leader undo it, deletion
  freezes it, and one whose tasks were recorded leaves through its finalizer.
- **ClickHouseBackup**: the ClickHouseBackup controller and the server.
- **DgraphBackup**: the DgraphBackup controller and the bucket.
- **BackupSchedule**: both schedule controllers and the cron, through restarts
  and the handover from one leader to the next.
- **ScheduledBackups**: extends BackupSchedule by what the cron does with the
  entries: the two tasks, the backup objects they make and delete (their life,
  not their phase), the garbage collection of a schedule that is gone, and the
  panic a failing task ends in, which is a step of both parts. A Reconcile of
  BackupSchedule is a step of it as it stands (`Registration`).
- **ClickHouseBackupProofs**, **ClickHouseBackupSafety**,
  **ClickHouseBackupRefinement**: theorems about ClickHouseBackup (type
  correctness; the safety properties; that it implements BackupLifecycle), each
  module extending the one before. **DgraphBackupProofs**: the same for
  DgraphBackup, in one module.
- **BackupScheduleProofs**, **BackupScheduleSafety**,
  **BackupScheduleRefinement**: the same for BackupSchedule and
  ScheduleLifecycle. **ScheduledBackupsProofs**: that all this holds of
  ScheduledBackups too, and the theorems about its own state.
- **MCClickHouseBackup**, **MCDgraphBackup**, **MCBackupSchedule**,
  **MCScheduledBackups**: values of the constants, the bound on the lag of
  the cache (`MaxLag`) and the symmetry for the runs.

`ImplementsLifecycle` of the two backup modules states with
`INSTANCE BackupLifecycle WITH` that they implement the abstract specification;
the mapping takes life and phase of the stored version. That of BackupSchedule
is about ScheduleLifecycle: life, generation and active generation of the
stored version, and `Settled`, which is what IsNeedUpdate of the process that
leads says of it. ScheduledBackups implements it as well.

### Code and actions

A Reconcile is a sequence of steps of the worker; `pc` names the call it is
about to make. Everything the code does between two calls belongs to the step of
the first one, so that edits, deliveries, the commands of the server, time and a
restart fall between any two calls and nowhere else. The copy of the object the
worker holds (`obj`) and the resourceVersion it was read at (`rv`) are separate:
after a failing update the code goes on with a changed copy and the old
resourceVersion, or drops it.

| ClickHouseBackup | code |
|---|---|
| `Reconcile` | Get from the cache, the branch on deletionTimestamp and on the phase |
| `Save`, `SaveFails`, `AfterSave` | every `Status().Update` (and the `Update` of AddFinalizer) that ends the Reconcile when it fails, and what comes next |
| `Resolve` | `updateClickHouseBackupObjectStatusApiInfo`, which fails for an address that does not parse or a host that is not found |
| `Post` | `CreateBackup` and `UploadBackup`, the two stages being the same code |
| `CheckDeadline` | `GetBackOff` and the test of the age |
| `PollError`, `PollSuccess`, `GiveUp` | the operation under `backoff.Retry` with the updates in it, and the end of Retry |
| `ListBackups`, `Erase`, `RemoveFinalizer` | `DeleteClickHouseBackupObject` |
| `StartCommand`, `RefuseCommand`, `FinishCommand` | clickhouse-backup, external |
| `CreateObject`, `EditObject`, `DeleteObject`, `Deliver`, `Expire`, `Crash` | users, API server, informer, time, process |

DgraphBackup has the same frame with `GetCredentials` (the secrets and the
`getFQDN` of spec.adminUrl), `Export` and `Erase` (S3); whether the adminUrl
parses is part of a version, so that users may repair or spoil it and a copy may
have the former one. BackupSchedule has `Reconcile` (with the removal of the task of a deleted
schedule), `AddFinalizer`, `ScheduleCreate`, `ScheduleRetain`, `UpdateStatus`
and `RemoveFinalizer`, one worker for each controller, and for the process
`SecondPasses`, `Restart`, `StandBy` and `TakeOver`. How a Reconcile of a backup
ends is `ReturnNil` or `ReturnErr`, which set a series of the metric, and `Retry`
or its counterpart without an error in a deletion, which change none: `Delete`
is given three of the four labels.

`process` is the process that leads, `latest` the one started last, which is the
same or waits for the lease. Both have taken a StartedAt; the one that waits has
an empty cron and no workers until `TakeOver`, in which the former leader and its
cron are gone. One process at most waits.

| ScheduledBackups | code |
|---|---|
| `FireCreate`, `CreateBackup` | `createBackupFunc`: the name, then the Create and what its error leads to |
| `FireRetain`, `RemoveOutdated`, `NextBackup` | `removeOutdatedBackupsFunc`: the List from the cache and the choice by owner, then one backup of the list at a time |
| `CallFails`, `Panic` | `ScheduledTaskFailuresByControllerTotal.With`, with a label the counter does not have |
| `Registration` | every step of BackupSchedule |
| `Finalize`, `DeleteBackup`, `GrowOld`, `DeliverBackup` | the controller of the backups, users and garbage collector, time, informer |

Abstractions: a name is a model value; whether one name is contained in another
is the constant relation `Within`; parameters of a command are the name of the
map they come from; an error text is its origin; an export is its directory; the
spec of a schedule is whether its parts parse, and metadata.generation counts
its changes; a stored time is 2p, p being the number of the process that wrote
it, or 2p - 1 when it was written in the second the process started in (a
process is taken to start in a later second than the last write of the one
before). A user edit that changes nothing the model looks at still makes a
version. A name is used for one object. The name of a scheduled backup is a number that
counts the seconds in which a task of its schedule ran: two tasks due in one
second have the same, one that runs in another process has another. The spec.destination of a Dgraph backup
does not change: DeleteExport looks for the recorded files where it says at the
time of the deletion, so that an edit of it would leave the export. A run of a
task is over before the task is due again. The List of a task reads the cache of
a process that leads and does not fail. Left out: formatting, logging, events,
resyncs of backups (those of schedules, and the events of the backups a Dgraph
schedule owns, are `Enqueue`).

## Runs

All bounds are constants of the modules, spent in guards: `MaxEdits` (user
edits), `MaxCrashes` or `MaxRestarts`, `MaxFaults` (calls that fail, with or
without effect; in ClickHouseBackup and DgraphBackup not those to the resolver,
to clickhouse-backup and to S3, which may fail any number of times), `MaxRows` (commands the server starts), `MaxExports`,
`MaxExtra` (registrations that will have to be repeated), `MaxBackups` (names a
schedule gives). `LeaderElect` is the flag of that name: without it no process
waits. The deletions of backups by users, the garbage collector and tasks have no
budget, nor do the panics that follow from them. `MaxLag` bounds the
staleness of the cache in safety runs by a state constraint. Conflicts need no
budget: they follow from edits and staleness. Deadlock is not checked: with the
budgets spent and every object gone the system really stops.

| run | instance | shows |
|---|---|---|
| ClickHouseBackupFaults | 1 object; edit, restart, fault; 3 commands; lag 3 | type, safety and refinement; 5.7 million states |
| ClickHouseBackupLiveness | 1 object; restart, fault; 2 commands; unbounded lag | backups end and are reported; deletions end, of a CreateFailed backup if its server can be asked |
| ClickHouseBackupCompleted | 1 object | violation: Completed without an upload |
| DgraphBackupExports | 1 object; 2 edits, 2 restarts, a fault | safety, refinement, liveness |
| DgraphBackupDeletion | 1 object, a fault | violation: a deletion that never ends |
| BackupScheduleTasks | 2 schedules of 2 kinds, up to symmetry; an edit or a restart; lag 1 | tasks while a process runs; 4.2 million states |
| BackupScheduleLiveness | 1 schedule; specs that do not parse; edit, fault, a second process by restart or handover | refinement of ScheduleLifecycle, only what was asked for is in the cron; settled again in each process, deletions end |
| BackupScheduleRestart | 2 schedules, a restart | violation: a task removed by a stale id |
| BackupScheduleHandover | 1 schedule, a handover | violation: settled and without a task |
| BackupScheduleEdit | 1 schedule, an edit | violation: a task of the old spec stays |
| ScheduledBackups | 1 schedule with or without a retention; 2 backups; a failing call or update | refinement, tasks do only what was asked for; outdated backups go, backups are made, after every panic |
| ScheduledBackupsPanic | 1 schedule, a failing call | violation: a failing task ends the process |

Why the bounds are enough. One edit makes a conflict at any of the updates, one
fault fails any call with or without effect, one restart cuts a Reconcile
anywhere: any two of them are combined in one behaviour of one object, and the second
Reconcile of the same object meets what the first one left. Three commands are
a create, its repetition and an upload, the longest the guards lead to after one
restart. The liveness run has two, a create and an upload, of which either may be
sent twice; a repeated one is then never started, which the server may do at any
time. It has no user edit: that one update is carried out and its answer lost
makes the later updates of the Reconcile conflict just as an edit does. Backups of ClickHouse meet only in the worker and in the rows of the server,
those of Dgraph in the worker and in the bucket, and what one means for another
is proved for every set of objects (`CreatedOnServer`, `ExportsKept`), so that
one is checked with more faults instead. Two schedules suffice for one to hit
the task of another. BackupScheduleTasks explores an edit or a restart, not both (`MCOne`):
with the edit an update conflicts while the other schedule is registered, with the
restart the ids of the process before are still in the status of one schedule
while the other registers its own. The two schedules change places with their
controllers (`MCSwaps`), which halves the states and is sound, for everything is
the same for both kinds. The run of one schedule has edit, restart and fault in
one behaviour. In ScheduledBackups one failing update leaves every task twice in the cron,
which is what makes two tasks ask for one name or delete one backup; two backups
make a list of which one is deleted and the other is left when the process ends.
That run has neither a second schedule nor a handover nor edits: with them a
schedule may lose its tasks for good (BackupScheduleRestart,
BackupScheduleHandover), and nothing is retired then.

Every property of a passing run has a mutant in `PROJECT.json`: a plausible
mistake in one definition with which TLC finds that property violated.

### What does not hold

- *CompletedIsUploaded* (`internal/clickhouse/clickhouse.go:95`): the upload
  stage may take the success of the create command for its own.
- *EveryDeletionEnds* of DgraphBackup (`internal/dgraph/dgraph.go:64`): without
  a recorded export the finalizer stays for ever. What holds instead is
  *ExportedDeletionEnds*.
- A deletion of a CreateFailed ClickHouse backup asks the server for its data
  first: with an address that does not parse, or a server that is gone for good,
  the finalizer stays (`controllers/factory/clickhousebackup.go:50`,
  `internal/clickhouse/clickhouse.go:104`). *EveryDeletionEnds* of
  ClickHouseBackup therefore leaves out the behaviours in which this fails again
  and again, for these objects only: those of any other phase go whatever has
  become of the server.
- A Dgraph backup whose adminUrl does not parse stays Started
  (`controllers/factory/dgraphbackup.go:63`): nothing stores an error.
  *EveryBackupEnds* of DgraphBackup speaks of the others and of those that were
  repaired.
- *ScheduledAfterRestart* (`controllers/factory/common.go:33`): task ids from an
  earlier process remove the tasks of other schedules, or the task just added.
  What holds instead is *SettledIsScheduled*, for the first process, and
  *RegisteredNamesOwn* for every process: only ids of an earlier one do harm.
- *OnlyPresentSpecRuns*
  (`controllers/clickhousebackupschedule_controller.go:138`): tasks that are
  registered and not recorded stay, and so does the retention task of a spec
  that has no retention any more.
- *SettledHasTask* (`main.go:98`): StartedAt is taken before the process is
  elected, so that IsNeedUpdate is false for what the former leader registered
  meanwhile, and nothing else puts its tasks into the new cron.
- *FailuresAreCounted* (`controllers/clickhousebackupschedule_controller.go:117`):
  the label `action` is not one of the counter, and `With` panics. What holds
  instead are *EventuallyRetired* and *EventuallyCreating*: the process is started
  again and its schedules are registered again.

Two disagreements with the documents need no run, one line of the code shows
each: `UploadBackup` sends `spec.createParams` and nothing reads
`spec.uploadParams` (`internal/clickhouse/clickhouse.go:48`,
`docs/quick-start.md:57`); and a backup that failed and is reconciled again has
both series of the metric, of which `docs/monitoring.md:3` says it has one
(`controllers/clickhousebackup_controller.go:88`). *EveryBackupReported* says what
does hold: it has at least one, in every process.

*CreatedIsOnServer* supposes that no name of a backup is contained in another
(`Within`); *EveryBackupEnds* supposes back-off settings that parse in
ClickHouseBackup, and secrets that exist and an adminUrl that parses in
DgraphBackup; *ExportedDeletionEnds* supposes secrets that exist, and that S3 does
not fail again and again. *EveryBackupReported* supposes none of this.

### Fairness

`WF` of the worker's steps: a call of the code returns (requests have no time
limit, so this is an assumption about the network). `WF` of `GiveUp`:
`backoff.Retry` stops when maxElapsedTime has passed. `WF` of `Deliver`: watch
events arrive. `SF` of `Reconcile(b)`: the work queue is first in, first out with
a delay after errors, so that an object in it is not passed over for ever, though
the worker is busy again and again. `WF` of `SecondPasses`: time passes. `WF` of
`FireRetain`: the cron runs `@hourly`. `WF` of the steps of runs in progress: the
calls of a task end. Nothing is assumed of the lease (the run with a handover
needs no `TakeOver`: the former leader may as well stay), of users, of the
resolver, of clickhouse-backup or of S3: hosts may never be found, requests fail
for ever, commands never start and never finish. What such an assumption is
needed for has it in the property, as an alternative `[]<><<A>>_vars`: the
deletion ends or A, a Reconcile that fails at the outside, happens again and again
(`DataNotDeleted`, `ExportNotDeleted`). The calls that `MaxFaults` bounds, those to the
API server and the export request, are assumed to succeed in the end.

## Proofs

Every theorem states a property that a passing run checks on a small instance,
and holds for every set of objects and every value of the bounds, from the
assumptions the modules name.

| theorem | states |
|---|---|
| `ClickHouseBackupProofs!TypeCorrect` | `Spec => []TypeOK` |
| `ClickHouseBackupSafety!IntentRecorded` | `Spec => []IntentBeforeCommand` |
| `ClickHouseBackupSafety!FailureExplained` | `Spec => []FailureIsExplained` |
| `ClickHouseBackupSafety!FailedNotUploaded` | `Spec => []FailedCreateNotUploaded` |
| `ClickHouseBackupSafety!ErasedOnlyFailed` | `Spec => OnlyFailedErased` |
| `ClickHouseBackupSafety!CreatedOnServer` | `Distinct => (Spec => []CreatedIsOnServer)` |
| `ClickHouseBackupRefinement!LifecycleImplemented` | `Spec => ImplementsLifecycle` |
| `DgraphBackupProofs!TypeCorrect` | `Spec => []TypeOK` |
| `DgraphBackupProofs!ExportsKept` | `Spec => []RecordedExportKept` |
| `DgraphBackupProofs!ExportsGone` | `Spec => []GoneWithItsExport` |
| `DgraphBackupProofs!LifecycleImplemented` | `Spec => ImplementsLifecycle` |
| `BackupScheduleProofs!TypeCorrect` | `Spec => []TypeOK` |
| `BackupScheduleSafety!SettledScheduled` | `Spec => []SettledIsScheduled` |
| `BackupScheduleSafety!GoneRemoved` | `Spec => []GoneTaskRemoved` |
| `BackupScheduleSafety!OnlyOwnRemoved` | `Spec => OnlyOwnTasksRemoved` |
| `BackupScheduleSafety!RegisteredOwn` | `Spec => []RegisteredNamesOwn` |
| `BackupScheduleSafety!OnlyAsked` | `Spec => []TasksWereAsked` |
| `BackupScheduleRefinement!LifecycleImplemented` | `Spec => ImplementsLifecycle` |
| `ScheduledBackupsProofs!SchedulesKept` | `TasksSpec => []SettledIsScheduled /\ []RegisteredNamesOwn /\ []GoneTaskRemoved /\ []TasksWereAsked /\ OnlyOwnTasksRemoved` |
| `ScheduledBackupsProofs!LifecycleComposed` | `TasksSpec => ImplementsLifecycle` |
| `ScheduledBackupsProofs!TasksTypeCorrect` | `TasksSpec => []TasksTypeOK` |
| `ScheduledBackupsProofs!RunsAsked` | `TasksSpec => []RunsWereAsked` |

*Types.* The TypeOK of each module is inductive as it stands; it says more than
types where later arguments need it (the cache and the worker's copy never run
ahead of the versions).

*Safety.* None of the safety properties is inductive: each speaks of the stored
version, while what happened outside was caused by versions of long ago and the
worker acts on a copy that may be stale. The `IInv` of each module closes the gap
with parts of two kinds. `Histories` says what the versions of an object have to
do with the one that is stored now. `Copies` says that at each of its calls the
worker's object is a certain change of the version it was made from (`CopyOf`),
which is what makes an accepted write, the copy being then made from the last
version, one the history allows.

*ClickHouseBackup.* A phase moves forward only, so that a version that was ever
Created, CreateFailed or deleting still says something of the present.
`OnServer`: what is in remote storage was Created at some time, and a row that
succeeded has its data in local storage unless the object failed. Then a
CreateFailed backup was never Created, so no upload of it was recorded as
intended (`IntentBeforeCommand`), hence none was requested.

`CreatedOnServer` needs one assumption more, `Distinct`: no name of a backup is
contained in another's. It is a real condition: GetStatus takes a row of the
other backup for one of this one without it (see "What does not hold"). The step
that counts is PollSuccess (`SuccessCreated`): the row is one of the backup
itself, and a write that is accepted is made from a version that has not failed,
so that its data has not been deleted.

*DgraphBackup.* What is to be excluded is a deletion that erases, from an old
copy, the export of an object that is alive. An object that was once being
deleted is never live again and records the same export until it goes
(`History`), and no two objects ever record the same export (`Owners`; the copy
of a worker that has not stored its export yet counts in `CopyOf`). So what a
Reconcile erases is recorded by no live object, and a worker that is about to
remove a finalizer has erased what every deleting version records.

*BackupSchedule.* Entries are removed by an id that a copy names, so that the
invariant is about the ids of every version and every copy. In one process an
id is given once. As long as that is the first, no status names an id of another
cron, and: every id a version or a copy of a schedule names is of an entry of
that schedule and of the kind it is named for, or of none (`Owns`), from which
`OnlyOwnTasksRemoved` follows; the tasks of a copy not yet stored are in the cron
and named by no version (`Unrecorded`), so that nobody removes them before the
status is written; and a version that would be registered again names other ids
than the one that is settled (`Replaced`), so that a Reconcile from an old copy
takes nothing from a settled schedule. In every process: when a schedule is gone,
nothing was ever registered in its last version, or the worker that removed its
finalizer removed its task, after which no Reconcile registers any for it (`GoneFor`).

After a restart `Owns` is lost, and `RegisteredOwn` says what is left of it.
Its invariant `Current` is one on top of `IInv`, and supposes that no process
waits to be elected (BackupScheduleHandover shows what is lost otherwise). A
version says by its time in which process it was registered; no version and no
copy is dated later than the process that runs (`Dated`), so that at its start
the next one finds none of its own, and from then on the argument is that of the
first process, for the versions that have its time. The time alone does not tell
whose id that of a retention is: a status update without retention keeps the id of
the last one, of whatever process. That is why the property speaks of a settled
schedule with a retention.

That the cron runs only what was asked for (`OnlyAsked`) is an argument about a
worker's base version: `Registering` says that when the worker calls the cron the
version it read, or the one AddFinalizer stored, was live and had the finalizer
and the spec the entry is made for. Versions are never lost (`StepGrows`), so
that the entry may outlive its spec and its schedule and the theorem still names
the version that asked for it.

*ScheduledBackups.* To schedules a step of it is one of their own or `Panics`,
the end of a process at a moment no step of BackupSchedule has: in the middle of
a Reconcile, while another process waits or not (`TaskSteps`). A process that
begins to lead keeps the invariant whatever ended the one before (`LeadsInv`), so
that `IInv` is an invariant of the composition, and every theorem about
schedules one of the composition. `RunsAsked` joins the two parts: a run is
started from an entry, and the entry was asked for.

*Refinement.* `StoreMaps` reduces every step to the pair of the last version and
the one stored after it (`Moves`). For schedules there is a second kind of step:
whether a schedule is settled depends on the process, and `ProcessMaps` shows
that a later process takes fewer for settled, which is `NewLeader`. That a
registration is `Register`, which needs a schedule that is not settled and whose
generation is the one recorded, follows from `Registering` and from the update
being made from the last version. The removal of the finalizer needs `IInv`: the
worker removes it from the version in the cache, not from the one it decided on,
and it is the history that excludes a live one there.

The proofs have one lemma per group of actions on top of lemmas about the helpers
(`StoreAppends`, `StoreGrows`, `UpdateInv`: an update keeps the earlier versions;
`EnterCopy`, `SaveCopy`, `CopyMoves`: what the worker goes on with; `CreateCall`, `NamesKept`,
`TasksKept`, `OwnedKept`, `CallTasks`: what a call to the cron does and leaves alone).

Model-checked only: the liveness properties, fairness and ENABLED being beyond
the prover. Every invariant and every action property of the passing runs is
proved, and every refinement.

## Not modelled

- the election of a leader (a library; that there is one leader at a time is
  assumed) and the health checks, which always answer;
- a request without an answer: the HTTP clients have no time limit, the models
  assume that a call ends;
- back-off intervals (real time) and the parts of a URL (`getFQDN`,
  `getUrlWithIP`, `getHostname`: string formatting without state, of which the
  models keep that they fail);
- more than one operator finalizer: the objects have no finalizers of others;
- RBAC, CRDs and manifests (configuration), generated code.

## Plan

1. *Theorems*: what the abstract specifications imply for their readers (an
   object that ended stays as it is; a settled schedule has its generation
   recorded), proved of them alone and carried over by the refinements.
2. *Larger instances* where time allows: two schedules in ScheduledBackups (the
   second only loses tasks to the first, see BackupScheduleRestart).
